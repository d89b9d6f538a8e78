\* One fair worker through three crashes, errors or redeliveries of two transactions.
SPECIFICATION BegunSpec
CONSTANTS
  Account = {a1, a2}
  Tx = {t1, t2}
  Nobody = Nobody
  Amount = {1}
  MaxInt64 = 1000
  Worker = {w1}
  Freezable = {a1}
  OrderedRetry = TRUE
  MaxFaults = 3
CHECK_DEADLOCK FALSE
INVARIANTS TypeOK TokenSafe MoneyConserved
PROPERTIES Settles RefundArrives
