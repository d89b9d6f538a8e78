\* Two workers overlap, as when a lock lease passes from one to the other.
SPECIFICATION Spec
CONSTANTS
  Account = {a1, a2}
  Tx = {t1}
  Nobody = Nobody
  Amount = {1, 2}
  MaxInt64 = 1000
  Worker = {w1, w2}
  OrderedRetry = TRUE
  FeedBound = 3
  MaxFaults = 0
SYMMETRY Symmetry
CHECK_DEADLOCK FALSE
INVARIANTS AppliedOnce
