\* Two workers, one of which may fail or start again, race for the money on one account.
SPECIFICATION FundedSpec
CONSTANTS
  Account = {a1}
  Tx = {t1, t2, t3}
  Nobody = Nobody
  Amount <- SignedAmount
  MaxInt64 = 1
  Worker = {w1, w2}
  Freezable = {}
  OrderedRetry = FALSE
  MaxFaults = 1
SYMMETRY Symmetry
CHECK_DEADLOCK FALSE
INVARIANTS VersionsContiguous SucceededIsComplete
PROPERTIES WithdrawalsCovered LedgerSteps
