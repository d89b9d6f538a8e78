\* One fair worker, ordered retries: through crashes, errors and redeliveries.
SPECIFICATION FairSpec
CONSTANTS
  Account = {a1, a2}
  Tx = {t1}
  Nobody = Nobody
  Amount = {1, 2}
  MaxInt64 = 2
  Worker = {w1}
  OrderedRetry = TRUE
  FeedBound = 4
  MaxFaults = 2
CHECK_DEADLOCK FALSE
INVARIANTS NothingPassedOver AppliedOnce
PROPERTIES CatchesUp
