-------------------------- MODULE TransferProperties --------------------------
(***************************************************************************)
(* What the write side keeps, whatever the interleaving of its workers and *)
(* whatever is delivered twice, retried or interrupted; and what its       *)
(* comments say that it does not keep.                                     *)
(***************************************************************************)
EXTENDS Transfers, FiniteSetsExt

(***************************************************************************)
(* The legs of a transaction, read off the log.  The key <t>/<leg> is      *)
(* stored by the account when the leg is applied, by the transaction when  *)
(* the leg is refused.                                                     *)
(***************************************************************************)
AppliedLeg(t, leg) ==
  \E i \in DOMAIN log : log[i].agg \in Account /\ log[i].tx = t /\ log[i].leg = leg

RefusedLeg(t, leg) ==
  \E i \in DOMAIN log : log[i].agg \in Tx /\ log[i].tx = t /\ log[i].leg = leg

RefundAsked(t) ==
  \E i \in DOMAIN log :
    log[i].kind = "TransactionFailed" /\ log[i].tx = t /\ log[i].rollback

Placed(t) == tx[t].status # "NONE"

-------------------------------------------------------------------------------
(***************************************************************************)
(* Safety.                                                                 *)
(***************************************************************************)
\* No account is ever overdrawn: Account.Withdraw decides on a balance read
\* some calls before the event is stored, and only the unique index on
\* (aggregate_id, aggregate_version) stops two withdrawals, of two workers or of
\* a worker and a redelivery, from spending the same money.
NoOverdraft == \A a \in Account : acc[a].balance >= 0

\* No deposit overflows the account it goes to.  Nothing in the code sees to it.
Headroom ==
  \A a \in Account, money \in Amount : acc[a].balance + money <= MaxInt64

\* Whatever the signs and sizes of the sums, no interleaving of the workers stores
\* a withdrawal that the account does not cover: the balance it leaves is not
\* negative, unless a negative sum was withdrawn and int64 overflowed.
WithdrawalsCovered ==
  [][\A i \in DOMAIN log' \ DOMAIN log : log'[i].kind = "MoneyWithdrawn" =>
       LET a == log'[i].agg IN
       \/ acc'[a].balance >= 0
       \/ acc[a].balance - log'[i].money > MaxInt64]_vars

\* The replay of an aggregate's events sees every version once and in order: the
\* k-th event stored for an aggregate has version k, so that a version read by a
\* worker names one state of the aggregate.
VersionsContiguous ==
  \A i \in DOMAIN log :
    log[i].version =
      Cardinality({j \in 1..i : log[j].agg = log[i].agg})

\* A transaction that ends SUCCEEDED has moved its money: each of its legs with an
\* account was applied.  Redelivery makes the legs idempotent by skipping what
\* has a key, and a key is stored by a refused leg as well.
SucceededIsComplete ==
  \A t \in Tx : tx[t].status = "SUCCEEDED" =>
    /\ tx[t].from # Nobody => AppliedLeg(t, "withdraw")
    /\ tx[t].to # Nobody => AppliedLeg(t, "deposit")

\* A transaction that FAILED after its withdrawal was applied has asked for the
\* rollback: the money that left an account is never just dropped.
WithdrawnMoneyIsOwed ==
  \A t \in Tx :
    tx[t].status = "FAILED" /\ AppliedLeg(t, "withdraw") => RefundAsked(t)

\* Money is given back only for a transaction that FAILED, whose withdrawal was
\* applied and whose deposit was not: nobody is refunded for money that arrived.
RefundJustified ==
  \A t \in Tx : AppliedLeg(t, "rollback") =>
    /\ tx[t].status = "FAILED"
    /\ AppliedLeg(t, "withdraw")
    /\ ~AppliedLeg(t, "deposit")

\* The outcome of a transaction, once it has one, is never changed by a late or
\* duplicated handling of one of its events.
OutcomeFinal ==
  [][\A t \in Tx : tx[t].status \in {"FAILED", "SUCCEEDED"} =>
       tx'[t].status = tx[t].status]_vars

-------------------------------------------------------------------------------
(***************************************************************************)
(* Conservation of money.                                                  *)
(***************************************************************************)
Signed(condition, money) == IF condition THEN money ELSE 0

IsTransfer(t) == tx[t].from # Nobody /\ tx[t].to # Nobody

\* What a settled transaction should have added: a transfer nothing, a succeeded
\* deposit or withdrawal its money, a failed one nothing.
DueFlow(t) ==
  IF tx[t].status = "FAILED" \/ IsTransfer(t) THEN 0
    ELSE Signed(tx[t].to # Nobody, tx[t].money) - Signed(tx[t].from # Nobody, tx[t].money)

InFlight(t) ==
  \/ tx[t].status = "PENDING"
  \/ RefundAsked(t) /\ ~AppliedLeg(t, "rollback")

\* "This demonstrates how we can use the idempotency key to guard against
\* duplicated events": a transaction that FAILED does not credit its destination.
FailedCreditsNobody ==
  \A t \in Tx : tx[t].status = "FAILED" => ~AppliedLeg(t, "deposit")

\* When no transaction is in flight, the accounts hold together, up to overflow,
\* exactly what the succeeded deposits brought in less what the succeeded withdrawals
\* took out: transfers, failed transactions and their rollbacks add up to nothing,
\* through crashes, errors and redeliveries, as long as none of these has made a
\* failed transaction credit its destination.
MoneyConserved ==
  (\A t \in Tx : ~InFlight(t)) /\ FailedCreditsNobody =>
    MapThenSumSet(LAMBDA a : acc[a].balance, Account) % Width
      = MapThenSumSet(DueFlow, {t \in Tx : Placed(t)}) % Width

-------------------------------------------------------------------------------
(***************************************************************************)
(* Resuming.                                                               *)
(***************************************************************************)
\* Nothing is left to do for this event: its transaction has an outcome, or its
\* money was given back.
Done(e) ==
  IF e.kind = "TransactionCreated" THEN ~IsPending(tx[e.tx])
  ELSE AppliedLeg(e.tx, "rollback")

\* A worker that restarts after the resume token misses no event that still needs
\* handling.
TokenSafe ==
  \A i \in DOMAIN log : i <= token /\ Handled(log[i]) => Done(log[i])

-------------------------------------------------------------------------------
(***************************************************************************)
(* Progress.                                                               *)
(***************************************************************************)
\* An event that the reactor can only fail on, again and again, in front of all
\* later ones: an account that does not exist, or a rollback to a frozen one.
Poison(i) ==
  LET t == log[i].tx IN
  \/ /\ log[i].kind = "TransactionCreated"
     /\ \E a \in {tx[t].from, tx[t].to} \ {Nobody} : acc[a].status = "NONE"
  \/ /\ log[i].kind = "TransactionFailed" /\ log[i].rollback
     /\ acc[tx[t].from].status = "FROZEN"

\* Position i of the log lies behind such an event, or is one.
Blocked(i) == \E j \in 1..i : j \in DOMAIN log /\ Poison(j)

\* The position of the event of this kind of a transaction.
IsEventOf(t, kind, i) ==
  i \in DOMAIN log /\ log[i].kind = kind /\ log[i].tx = t

\* Every transaction eventually fails or succeeds, through crashes, redeliveries
\* and transient errors, unless an event at or before it can never be handled.
Settles ==
  \A t \in Tx :
    tx[t].status = "PENDING"
      ~> \/ tx[t].status \in {"FAILED", "SUCCEEDED"}
         \/ \E i \in DOMAIN log : IsEventOf(t, "TransactionCreated", i) /\ Blocked(i)

\* Money that is owed is eventually given back, under the same condition.
RefundArrives ==
  \A t \in Tx :
    RefundAsked(t)
      ~> \/ AppliedLeg(t, "rollback")
         \/ \E i \in DOMAIN log : IsEventOf(t, "TransactionFailed", i) /\ Blocked(i)

\* "transaction failed. Need to rollback withdraw": money withdrawn for a transfer
\* eventually arrives or is given back, whatever the destination.
WithdrawnMoneyArrives ==
  \A t \in Tx :
    AppliedLeg(t, "withdraw") /\ tx[t].to # Nobody
      ~> AppliedLeg(t, "deposit") \/ AppliedLeg(t, "rollback")

-------------------------------------------------------------------------------
(***************************************************************************)
(* Refinement.  Reading the ledger off the store, every call of a worker   *)
(* is a step of the ledger or leaves it unchanged.                         *)
(***************************************************************************)
LegState(t, l) ==
  IF AppliedLeg(t, l) THEN "done" ELSE IF RefusedLeg(t, l) THEN "refused" ELSE "due"

RefundState(t) ==
  IF AppliedLeg(t, "rollback") THEN "paid" ELSE IF RefundAsked(t) THEN "owed" ELSE "none"

L == INSTANCE Ledger WITH
  status  <- [a \in Account |-> acc[a].status],
  balance <- [a \in Account |-> acc[a].balance],
  order   <- [t \in Tx |-> [from |-> tx[t].from, to |-> tx[t].to, money |-> tx[t].money]],
  outcome <- [t \in Tx |-> tx[t].status],
  leg     <- [t \in Tx |-> [l \in {"withdraw", "deposit"} |-> LegState(t, l)]],
  refund  <- [t \in Tx |-> RefundState(t)]

\* The write side implements the ledger: legs, outcomes and refunds happen
\* atomically and at most once although each takes several calls to the store, two
\* of which decide on data that another worker may have changed since.
ImplementsLedger == L!Spec

\* The same of every step that changes the store, from whatever reachable state it is
\* taken, that is also of executions that do not begin with an empty store.
LedgerSteps == [][UNCHANGED storeVars \/ L!Next]_(L!ledgerVars)
===============================================================================
