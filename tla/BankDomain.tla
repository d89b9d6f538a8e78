------------------------------ MODULE BankDomain ------------------------------
(***************************************************************************)
(* The two aggregates of the account service, as pure operators: what an   *)
(* event does to an account or to a transaction (the HandleEvent methods)  *)
(* and what a command on them requires (the guards of Withdraw, Deposit,   *)
(* WithdrawFailed, DepositFailed and Succeeded).                           *)
(*                                                                         *)
(* Owner names and failure reasons are left out: no decision of the        *)
(* account service depends on them.                                        *)
(***************************************************************************)
EXTENDS Integers

CONSTANTS
  Account,    \* ids of accounts
  Tx,         \* ids of money transactions
  Nobody,     \* uuid.Nil: the missing side of a deposit or of a withdrawal
  Amount,     \* sums of money a client may ask to move
  MaxInt64    \* the greatest int64; small in instances that let sums overflow

\* Balances and sums are int64; adding and subtracting wraps around.
Int64 == -(MaxInt64 + 1)..MaxInt64

Width == 2 * (MaxInt64 + 1)

Wrap(n) ==
  IF n > MaxInt64 THEN n - Width
  ELSE IF n < -(MaxInt64 + 1) THEN n + Width
  ELSE n

\* Ids are random UUIDs, so an account and a transaction never share one, and
\* the REST layer does not validate sums: nothing here says that they are positive.
ASSUME DomainAssumption ==
  /\ Account \cap Tx = {}
  /\ Nobody \notin Account \cup Tx
  /\ MaxInt64 \in Nat \ {0}
  /\ Amount \subseteq Int64

Party == Account \cup {Nobody}

(***************************************************************************)
(* Events.  "leg" and "tx" are the idempotency key, e.g. <id>/withdraw, of *)
(* the record that stores the event; leg "none" is the empty key.          *)
(***************************************************************************)
Leg == {"withdraw", "deposit", "rollback"}

AccountKind == {"AccountCreated", "MoneyWithdrawn", "MoneyDeposited", "AccountFrozen"}
TransactionKind == {"TransactionCreated", "TransactionFailed", "TransactionSucceeded"}

Event ==
  [kind: AccountKind \cup TransactionKind, agg: Account \cup Tx, version: Nat \ {0},
   tx: Tx \cup {Nobody}, leg: Leg \cup {"none"}, money: Amount \cup {0},
   from: Party, to: Party, rollback: BOOLEAN]

AccountEvent(kind, a, version, t, leg, money) ==
  [kind |-> kind, agg |-> a, version |-> version, tx |-> t, leg |-> leg,
   money |-> money, from |-> Nobody, to |-> Nobody, rollback |-> FALSE]

TransactionEvent(kind, t, version, leg, rollback) ==
  [kind |-> kind, agg |-> t, version |-> version, tx |-> t, leg |-> leg,
   money |-> 0, from |-> Nobody, to |-> Nobody, rollback |-> rollback]

TransactionCreated(t, from, to, money) ==
  [kind |-> "TransactionCreated", agg |-> t, version |-> 1, tx |-> t, leg |-> "none",
   money |-> money, from |-> from, to |-> to, rollback |-> FALSE]

(***************************************************************************)
(* The account aggregate.  Version 0 is an id nothing was stored under.    *)
(***************************************************************************)
AccountState ==
  [version: Nat, status: {"NONE", "OPEN", "FROZEN"}, balance: Int64]

NewAccount == [version |-> 0, status |-> "NONE", balance |-> 0]

HandleAccountEvent(a, e) ==
  [version |-> e.version,
   status  |-> CASE e.kind = "AccountCreated" -> "OPEN"
                 [] e.kind = "AccountFrozen"  -> "FROZEN"
                 [] OTHER                     -> a.status,
   balance |-> CASE e.kind = "AccountCreated" -> e.money
                 [] e.kind = "MoneyDeposited" -> Wrap(a.balance + e.money)
                 [] e.kind = "MoneyWithdrawn" -> Wrap(a.balance - e.money)
                 [] OTHER                     -> a.balance]

\* Mutant: a withdrawal does not look at the balance.
CanWithdrawAnything(a, money) == a.status = "OPEN"

CanWithdraw(a, money) == a.status = "OPEN" /\ ~(a.balance < money)

CanDeposit(a) == a.status = "OPEN"

(***************************************************************************)
(* The transaction aggregate.                                              *)
(***************************************************************************)
TransactionState ==
  [version: Nat, status: {"NONE", "PENDING", "FAILED", "SUCCEEDED"},
   from: Party, to: Party, money: Amount \cup {0}]

NewTransaction ==
  [version |-> 0, status |-> "NONE", from |-> Nobody, to |-> Nobody, money |-> 0]

HandleTransactionEvent(t, e) ==
  CASE e.kind = "TransactionCreated" ->
         [version |-> e.version, status |-> "PENDING",
          from |-> e.from, to |-> e.to, money |-> e.money]
    [] e.kind = "TransactionFailed" ->
         [t EXCEPT !.version = e.version, !.status = "FAILED"]
    [] e.kind = "TransactionSucceeded" ->
         [t EXCEPT !.version = e.version, !.status = "SUCCEEDED"]

\* WithdrawFailed, DepositFailed and Succeeded are no-ops unless this holds.
IsPending(t) == t.status = "PENDING"

\* Mutant: a failed deposit never asks for the rollback.
NeverRollsBack(t, leg) == FALSE

\* Mutant: a failed withdrawal asks for the rollback as well.
AlwaysRollsBack(t, leg) == t.from # Nobody

\* DepositFailed asks for the withdrawal to be rolled back only when there is
\* an account to give the money back to; WithdrawFailed never does.
NeedsRollback(t, leg) == leg = "deposit" /\ t.from # Nobody
===============================================================================
