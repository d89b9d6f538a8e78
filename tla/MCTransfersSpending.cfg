\* Two workers, one of which may fail or start again, and two withdrawals that may
\* spend the same money.
SPECIFICATION FundedSpec
CONSTANTS
  Account = {a1}
  Tx = {t1, t2, t3}
  Nobody = Nobody
  Amount = {1, 2}
  MaxInt64 = 1000
  Worker = {w1, w2}
  Freezable = {}
  OrderedRetry = FALSE
  MaxFaults = 1
SYMMETRY Symmetry
CHECK_DEADLOCK FALSE
INVARIANTS NoOverdraft
