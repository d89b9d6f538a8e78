\* A transfer names a destination that does not exist.
SPECIFICATION FairSpec
CONSTANTS
  Account = {a1, a2}
  Tx = {t1, t2}
  Nobody = Nobody
  Amount = {1}
  MaxInt64 = 1000
  Worker = {w1}
  Freezable = {}
  OrderedRetry = TRUE
  MaxFaults = 0
CHECK_DEADLOCK FALSE
PROPERTIES WithdrawnMoneyArrives
