\* One worker whose failed events come again after later ones.
SPECIFICATION Spec
CONSTANTS
  Account = {a1, a2}
  Tx = {t1}
  Nobody = Nobody
  Amount = {1, 2}
  MaxInt64 = 2
  Worker = {w1}
  OrderedRetry = FALSE
  FeedBound = 5
  MaxFaults = 2
SYMMETRY Symmetry
CHECK_DEADLOCK FALSE
INVARIANTS TypeOK
PROPERTIES NeverGoesBack
