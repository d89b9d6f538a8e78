\* Two workers overlap: one acknowledges what the other has not finished.
SPECIFICATION Spec
CONSTANTS
  Account = {a1}
  Tx = {t1, t2, t3}
  Nobody = Nobody
  Amount = {1}
  MaxInt64 = 1000
  Worker = {w1, w2}
  Freezable = {}
  OrderedRetry = TRUE
  MaxFaults = 0
SYMMETRY Symmetry
CHECK_DEADLOCK FALSE
INVARIANTS TokenSafe
