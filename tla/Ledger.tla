-------------------------------- MODULE Ledger --------------------------------
(***************************************************************************)
(* What the account service promises its clients, without events, keys,    *)
(* workers or retries: every transaction has at most two legs, each leg is *)
(* applied or refused at most once and in one atomic step, a withdrawal    *)
(* never takes more than the account holds at that moment, a transaction   *)
(* gets one outcome, and a withdrawal whose deposit was refused is         *)
(* returned at most once.                                                  *)
(*                                                                         *)
(* A credit is NOT required to belong to a pending transaction: the        *)
(* program does not keep that promise when an event is delivered again     *)
(* (see FailedCreditsNobody in TransferProperties).                        *)
(***************************************************************************)
EXTENDS BankDomain

CONSTANT Freezable

VARIABLES
  status,    \* status[a]: NONE, OPEN or FROZEN
  balance,   \* balance[a]: the money on account a
  order,     \* order[t]: what the client asked for
  outcome,   \* outcome[t]: NONE, PENDING, FAILED or SUCCEEDED
  leg,       \* leg[t][l]: due, done or refused
  refund     \* refund[t]: none, owed or paid

ledgerVars == <<status, balance, order, outcome, leg, refund>>

TwoLegs == {"withdraw", "deposit"}

Init ==
  /\ status  = [a \in Account |-> "NONE"]
  /\ balance = [a \in Account |-> 0]
  /\ order   = [t \in Tx |-> [from |-> Nobody, to |-> Nobody, money |-> 0]]
  /\ outcome = [t \in Tx |-> "NONE"]
  /\ leg     = [t \in Tx |-> [l \in TwoLegs |-> "due"]]
  /\ refund  = [t \in Tx |-> "none"]

OpenAccount(a) ==
  /\ status[a] = "NONE"
  /\ status' = [status EXCEPT ![a] = "OPEN"]
  /\ UNCHANGED <<balance, order, outcome, leg, refund>>

Freeze(a) ==
  /\ a \in Freezable
  /\ status[a] = "OPEN"
  /\ status' = [status EXCEPT ![a] = "FROZEN"]
  /\ UNCHANGED <<balance, order, outcome, leg, refund>>

Place(t, from, to, money) ==
  /\ outcome[t] = "NONE"
  /\ order'   = [order EXCEPT ![t] = [from |-> from, to |-> to, money |-> money]]
  /\ outcome' = [outcome EXCEPT ![t] = "PENDING"]
  /\ UNCHANGED <<status, balance, leg, refund>>

Debit(t) ==
  LET a == order[t].from IN
  /\ outcome[t] = "PENDING"
  /\ a # Nobody /\ leg[t]["withdraw"] = "due"
  /\ status[a] = "OPEN" /\ balance[a] >= order[t].money
  /\ balance' = [balance EXCEPT ![a] = Wrap(@ - order[t].money)]
  /\ leg' = [leg EXCEPT ![t]["withdraw"] = "done"]
  /\ UNCHANGED <<status, order, outcome, refund>>

RefuseDebit(t) ==
  /\ outcome[t] = "PENDING"
  /\ order[t].from # Nobody /\ leg[t]["withdraw"] = "due"
  /\ outcome' = [outcome EXCEPT ![t] = "FAILED"]
  /\ leg' = [leg EXCEPT ![t]["withdraw"] = "refused"]
  /\ UNCHANGED <<status, balance, order, refund>>

Credit(t) ==
  LET a == order[t].to IN
  /\ a # Nobody /\ leg[t]["deposit"] = "due"
  /\ order[t].from = Nobody \/ leg[t]["withdraw"] # "due"
  /\ status[a] = "OPEN"
  /\ balance' = [balance EXCEPT ![a] = Wrap(@ + order[t].money)]
  /\ leg' = [leg EXCEPT ![t]["deposit"] = "done"]
  /\ UNCHANGED <<status, order, outcome, refund>>

RefuseCredit(t) ==
  /\ outcome[t] = "PENDING"
  /\ order[t].to # Nobody /\ leg[t]["deposit"] = "due"
  /\ order[t].from = Nobody \/ leg[t]["withdraw"] = "done"
  /\ outcome' = [outcome EXCEPT ![t] = "FAILED"]
  /\ leg' = [leg EXCEPT ![t]["deposit"] = "refused"]
  /\ refund' = [refund EXCEPT ![t] = IF order[t].from = Nobody THEN "none" ELSE "owed"]
  /\ UNCHANGED <<status, balance, order>>

Succeed(t) ==
  /\ outcome[t] = "PENDING"
  /\ order[t].from = Nobody \/ leg[t]["withdraw"] = "done"
  /\ order[t].to = Nobody \/ leg[t]["deposit"] = "done"
  /\ outcome' = [outcome EXCEPT ![t] = "SUCCEEDED"]
  /\ UNCHANGED <<status, balance, order, leg, refund>>

Refund(t) ==
  LET a == order[t].from IN
  /\ refund[t] = "owed"
  /\ status[a] = "OPEN"
  /\ balance' = [balance EXCEPT ![a] = Wrap(@ + order[t].money)]
  /\ refund' = [refund EXCEPT ![t] = "paid"]
  /\ UNCHANGED <<status, order, outcome, leg>>

Next ==
  \/ \E a \in Account : OpenAccount(a) \/ Freeze(a)
  \/ \E t \in Tx :
       \/ \E from, to \in Party, money \in Amount : Place(t, from, to, money)
       \/ Debit(t) \/ RefuseDebit(t) \/ Credit(t) \/ RefuseCredit(t)
       \/ Succeed(t) \/ Refund(t)

Spec == Init /\ [][Next]_ledgerVars
===============================================================================
