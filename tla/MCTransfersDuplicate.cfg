\* An event is handled again after its withdrawal was refused.
SPECIFICATION Spec
CONSTANTS
  Account = {a1, a2}
  Tx = {t1}
  Nobody = Nobody
  Amount = {1}
  MaxInt64 = 1000
  Worker = {w1}
  Freezable = {}
  OrderedRetry = TRUE
  MaxFaults = 1
CHECK_DEADLOCK FALSE
INVARIANTS FailedCreditsNobody
