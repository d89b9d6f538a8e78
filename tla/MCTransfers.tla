------------------------------ MODULE MCTransfers ------------------------------
(***************************************************************************)
(* Instances of the write side for TLC.                                    *)
(***************************************************************************)
EXTENDS TransferProperties, TLC

\* A sum of either sign (a configuration file cannot write a negative number).
SignedAmount == {-1, 1}

\* Accounts, transactions and workers are interchangeable (safety runs only).
Symmetry ==
  Permutations(Account \ Freezable) \cup Permutations(Freezable)
    \cup Permutations(Tx) \cup Permutations(Worker)

-------------------------------------------------------------------------------
(***************************************************************************)
(* States the program reaches without faults.  Starting there leaves the   *)
(* rest of an execution to the other transactions and to the faults.       *)
(***************************************************************************)
Created(a) == AccountEvent("AccountCreated", a, 1, Nobody, "none", 0)
DepositPlaced(a, t, money) == TransactionCreated(t, Nobody, a, money)
Deposited(a, t, money) == AccountEvent("MoneyDeposited", a, 2, t, "deposit", money)
Succeeded(t) == TransactionEvent("TransactionSucceeded", t, 2, "none", FALSE)

\* Workers without an event at hand, the ones up to n behind them.
IdleAfter(n) ==
  /\ token  = n
  /\ cursor = [w \in Worker |-> n]
  /\ pc     = [w \in Worker |-> "idle"]
  /\ at     = [w \in Worker |-> 0]
  /\ side   = [w \in Worker |-> "withdraw"]
  /\ seen   = [w \in Worker |-> 0]
  /\ faults = 0

\* Account a was created and a deposit t to it was placed.
Begun(a, t, money) ==
  /\ log = <<Created(a), DepositPlaced(a, t, money)>>
  /\ acc = [b \in Account |->
              IF b = a THEN HandleAccountEvent(NewAccount, Created(a)) ELSE NewAccount]
  /\ tx  = [u \in Tx |->
              IF u = t THEN HandleTransactionEvent(NewTransaction, DepositPlaced(a, t, money))
                       ELSE NewTransaction]
  /\ IdleAfter(0)

\* The deposit has been carried out as well.
Funded(a, t, money) ==
  /\ log = <<Created(a), DepositPlaced(a, t, money), Deposited(a, t, money), Succeeded(t)>>
  /\ acc = [b \in Account |->
              IF b = a THEN HandleAccountEvent(HandleAccountEvent(NewAccount, Created(a)),
                                               Deposited(a, t, money))
                       ELSE NewAccount]
  /\ tx  = [u \in Tx |->
              IF u = t THEN HandleTransactionEvent(
                              HandleTransactionEvent(NewTransaction, DepositPlaced(a, t, money)),
                              Succeeded(t))
                       ELSE NewTransaction]
  /\ IdleAfter(2)

FundedSpec ==
  /\ \E a \in Account, t \in Tx, money \in Amount : Funded(a, t, money)
  /\ [][Next]_vars

\* Which transaction the deposit is makes no difference.
BegunSpec ==
  /\ \E a \in Account, money \in Amount : Begun(a, CHOOSE t \in Tx : TRUE, money)
  /\ [][Next]_vars
  /\ \A w \in Worker : WF_vars(Work(w))
===============================================================================
