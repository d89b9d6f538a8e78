\* An account is emptied.
SPECIFICATION Spec
CONSTANTS
  Account = {a1, a2}
  Tx = {t1}
  Nobody = Nobody
  Amount = {1, 2}
  MaxInt64 = 1000
  Worker = {w1}
  OrderedRetry = TRUE
  FeedBound = 4
  MaxFaults = 0
CHECK_DEADLOCK FALSE
INVARIANTS ShowsBalance
