\* Fair consumers, a deposit and what comes after it, and a fault of either consumer.
SPECIFICATION BegunSpec
CONSTANTS
  Account = {a1}
  Tx = {t1, t2}
  Nobody = Nobody
  Amount = {1, 2}
  MaxInt64 = 1000
  Worker = {w1}
  Projector = {p1}
  Freezable = {}
  OrderedRetry = TRUE
  MaxFaults = 1
  FeedBound <- EventBound
CHECK_DEADLOCK FALSE
INVARIANTS AnswersAgree
PROPERTIES ImplementsProjection EventuallyConsistent
