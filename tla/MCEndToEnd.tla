------------------------------ MODULE MCEndToEnd ------------------------------
(***************************************************************************)
(* Instances of the whole system for TLC.                                  *)
(***************************************************************************)
EXTENDS EndToEnd

\* An account is created once, and a transaction stores its creation, at most two
\* legs or a leg and its rollback, and its outcome.
EventBound == Cardinality(Account) + 4 * Cardinality(Tx)

-------------------------------------------------------------------------------
(***************************************************************************)
(* A state the program reaches without faults: account a was created, a    *)
(* deposit t to it was placed, and nothing has been published yet.         *)
(***************************************************************************)
Created(a) == W!AccountEvent("AccountCreated", a, 1, Nobody, "none", 0)
DepositPlaced(a, t, money) == W!TransactionCreated(t, Nobody, a, money)

Begun(a, t, money) ==
  /\ log = <<Created(a), DepositPlaced(a, t, money)>>
  /\ acc = [b \in Account |->
              IF b = a THEN W!HandleAccountEvent(W!NewAccount, Created(a)) ELSE W!NewAccount]
  /\ tx  = [u \in Tx |->
              IF u = t THEN W!HandleTransactionEvent(W!NewTransaction,
                                                     DepositPlaced(a, t, money))
                       ELSE W!NewTransaction]
  /\ token  = 0
  /\ cursor = [w \in Worker |-> 0]
  /\ pc     = [w \in Worker |-> "idle"]
  /\ at     = [w \in Worker |-> 0]
  /\ side   = [w \in Worker |-> "withdraw"]
  /\ seen   = [w \in Worker |-> 0]
  /\ faults = 0
  /\ sent   = 0
  /\ P!Init

\* Which transaction the deposit is makes no difference.
BegunSpec ==
  /\ \E a \in Account, money \in Amount : Begun(a, CHOOSE t \in Tx : TRUE, money)
  /\ [][Next]_vars
  /\ WF_vars(Forward)
  /\ \A w \in Worker : WF_vars(ReactorStep(w))
  /\ \A p \in Projector : WF_vars(ProjectorStep(p))
===============================================================================
