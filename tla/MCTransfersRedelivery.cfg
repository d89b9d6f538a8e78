\* Two workers, redeliveries, errors, restarts, and an account that is frozen on the way.
SPECIFICATION Spec
CONSTANTS
  Account = {a1, a2}
  Tx = {t1}
  Nobody = Nobody
  Amount = {0, 1}
  MaxInt64 = 1000
  Worker = {w1, w2}
  Freezable = {a1}
  OrderedRetry = FALSE
  MaxFaults = 2
SYMMETRY Symmetry
CHECK_DEADLOCK FALSE
INVARIANTS WithdrawnMoneyIsOwed RefundJustified
PROPERTIES OutcomeFinal ImplementsLedger
