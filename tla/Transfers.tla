------------------------------- MODULE Transfers -------------------------------
(***************************************************************************)
(* The write side: the REST commands of the account service and the        *)
(* reactor that carries every money transaction through its two legs.      *)
(*                                                                         *)
(* A reactor worker reads the stored events in order from a subscription   *)
(* and handles TransactionCreated (withdraw, deposit, then complete) and   *)
(* TransactionFailed (give the withdrawn money back).  Each leg is         *)
(*   AccountRepository.Exec : HasIdempotencyKey, Retrieve, insert          *)
(* and, when the account refuses,                                          *)
(*   TransactionRepository.Exec : HasIdempotencyKey, Retrieve, insert      *)
(* and every one of these calls to the store is a step of its own, so that *)
(* the steps of two workers interleave.  A handler that returns an error   *)
(* leaves its event to be delivered again; a worker that restarts resumes  *)
(* after the resume token.                                                 *)
(***************************************************************************)
EXTENDS EventStore

CONSTANTS
  Worker,         \* reactor workers; two when a lock lease is lost to another
                  \* replica while the first holder still runs
  Freezable,      \* accounts that may leave status OPEN (see Freeze)
  OrderedRetry,   \* is an event whose handling failed retried before later ones?
  MaxFaults       \* bound on crashes, transient errors and redeliveries

ASSUME TransfersAssumption ==
  /\ Freezable \subseteq Account
  /\ OrderedRetry \in BOOLEAN
  /\ MaxFaults \in Nat

VARIABLES
  token,    \* the stored resume token: a position in the log
  cursor,   \* cursor[w]: last position delivered to w in order
  pc,       \* pc[w]: the next call of the handler w runs
  at,       \* at[w]: position of the event w handles
  side,     \* side[w]: the leg w is on
  seen,     \* seen[w]: version of the aggregate w retrieved
  faults    \* faults so far

workerVars == <<cursor, pc, at, side, seen>>
vars == <<storeVars, token, workerVars, faults>>

PC == {"idle", "accHas", "accGet", "accSave", "txHas", "txGet", "txSave",
       "complete", "rollback"}

TypeOK ==
  /\ StoreTypeOK
  /\ token  \in Nat
  /\ cursor \in [Worker -> Nat]
  /\ pc     \in [Worker -> PC]
  /\ at     \in [Worker -> Nat]
  /\ side   \in [Worker -> {"withdraw", "deposit"}]
  /\ seen   \in [Worker -> Nat]
  /\ faults \in Nat

Init ==
  /\ StoreInit
  /\ token  = 0
  /\ cursor = [w \in Worker |-> 0]
  /\ pc     = [w \in Worker |-> "idle"]
  /\ at     = [w \in Worker |-> 0]
  /\ side   = [w \in Worker |-> "withdraw"]
  /\ seen   = [w \in Worker |-> 0]
  /\ faults = 0

-------------------------------------------------------------------------------
(***************************************************************************)
(* REST commands.  The id is a fresh random UUID: nothing is stored under  *)
(* it and no earlier transaction names it.  Creating a transaction checks  *)
(* neither that its accounts exist nor the amount.                         *)
(***************************************************************************)
\* Mutant: the first version of an account is 0.
CreateAccountAtZero(a) ==
  /\ acc[a].version = 0
  /\ StoreAccountEvent(AccountEvent("AccountCreated", a, 0, Nobody, "none", 0))
  /\ UNCHANGED <<token, workerVars, faults>>

CreateAccount(a) ==
  /\ acc[a].version = 0
  /\ \A t \in Tx : a \notin {tx[t].from, tx[t].to}
  /\ StoreAccountEvent(AccountEvent("AccountCreated", a, 1, Nobody, "none", 0))
  /\ UNCHANGED <<token, workerVars, faults>>

CreateTransaction(t, from, to, money) ==
  /\ tx[t].version = 0
  /\ StoreTransactionEvent(TransactionCreated(t, from, to, money))
  /\ UNCHANGED <<token, workerVars, faults>>

\* An account leaves OPEN.  No operation of the services does this: the
\* aggregate declares the statuses and its commands check them, so whatever
\* sets them is outside.  Freezable = {} is the program as it is shipped.
Freeze(a) ==
  /\ a \in Freezable
  /\ acc[a].status = "OPEN"
  /\ StoreAccountEvent(
       AccountEvent("AccountFrozen", a, acc[a].version + 1, Nobody, "none", 0))
  /\ UNCHANGED <<token, workerVars, faults>>

-------------------------------------------------------------------------------
(***************************************************************************)
(* Delivery.                                                               *)
(***************************************************************************)
\* Events for which the reactor does more than return nil.
Handled(e) ==
  \/ e.kind = "TransactionCreated"
  \/ e.kind = "TransactionFailed" /\ e.rollback

Begin(w, n) ==
  /\ at'   = [at EXCEPT ![w] = n]
  /\ pc'   = [pc EXCEPT ![w] = IF log[n].kind = "TransactionCreated"
                                 THEN "accHas" ELSE "rollback"]
  /\ side' = [side EXCEPT ![w] = "withdraw"]
  /\ UNCHANGED <<storeVars, token, cursor, seen>>

\* The handler ends without moving the subscription.
GoIdle(w) ==
  /\ pc'   = [pc EXCEPT ![w] = "idle"]
  /\ at'   = [at EXCEPT ![w] = 0]
  /\ side' = [side EXCEPT ![w] = "withdraw"]
  /\ seen' = [seen EXCEPT ![w] = 0]

Advance(w) ==
  cursor' = [cursor EXCEPT ![w] = IF @ < at[w] THEN at[w] ELSE @]

\* The handler returns nil: the event is acknowledged.
Return(w) == GoIdle(w) /\ Advance(w)

\* The handler returns an error: the event will be delivered again, before
\* the later ones if retries are ordered, else whenever the bus pleases.
ReturnError(w) ==
  /\ GoIdle(w)
  /\ IF OrderedRetry THEN UNCHANGED cursor ELSE Advance(w)

Skip(w) ==
  /\ pc[w] = "idle"
  /\ cursor[w] < Len(log)
  /\ ~Handled(log[cursor[w] + 1])
  /\ cursor' = [cursor EXCEPT ![w] = @ + 1]
  /\ UNCHANGED <<storeVars, token, pc, at, side, seen, faults>>

Deliver(w) ==
  /\ pc[w] = "idle"
  /\ cursor[w] < Len(log)
  /\ Handled(log[cursor[w] + 1])
  /\ Begin(w, cursor[w] + 1)
  /\ UNCHANGED faults

\* At-least-once delivery: an event delivered earlier comes again.
Redeliver(w, n) ==
  /\ pc[w] = "idle"
  /\ faults < MaxFaults
  /\ n <= cursor[w]
  /\ Handled(log[n])
  /\ Begin(w, n)
  /\ faults' = faults + 1

-------------------------------------------------------------------------------
(***************************************************************************)
(* The handler of TransactionCreated: whitdraw, deposit, then complete.    *)
(***************************************************************************)
Current(w) == log[at[w]].tx

AccountOf(w) ==
  IF side[w] = "withdraw" THEN tx[Current(w)].from ELSE tx[Current(w)].to

NextLeg(w) ==
  /\ pc' = [pc EXCEPT ![w] = IF side[w] = "withdraw" THEN "accHas" ELSE "complete"]
  /\ side' = [side EXCEPT ![w] = "deposit"]
  /\ seen' = [seen EXCEPT ![w] = 0]

GoTo(w, label) == pc' = [pc EXCEPT ![w] = label]

\* A leg without account, or whose key is stored already, counts as done.
LegDone(w) ==
  /\ pc[w] = "accHas"
  /\ AccountOf(w) = Nobody \/ HasIdempotencyKey(Current(w), side[w])
  /\ NextLeg(w)
  /\ UNCHANGED <<storeVars, token, cursor, at, faults>>

LegOpen(w) ==
  /\ pc[w] = "accHas"
  /\ AccountOf(w) # Nobody
  /\ ~HasIdempotencyKey(Current(w), side[w])
  /\ GoTo(w, "accGet")
  /\ UNCHANGED <<storeVars, token, cursor, at, side, seen, faults>>

\* Retrieve the account and let it decide.
Accepts(a, leg, money) ==
  IF leg = "withdraw" THEN CanWithdraw(a, money) ELSE CanDeposit(a)

RetrieveAccount(w) ==
  /\ pc[w] = "accGet"
  /\ acc[AccountOf(w)].version # 0
  /\ seen' = [seen EXCEPT ![w] = acc[AccountOf(w)].version]
  /\ GoTo(w, IF Accepts(acc[AccountOf(w)], side[w], tx[Current(w)].money)
               THEN "accSave" ELSE "txHas")
  /\ UNCHANGED <<storeVars, token, cursor, at, side, faults>>

\* ErrUnknownAggregateID, before the account is asked anything.
UnknownAccount(w) ==
  /\ pc[w] = "accGet"
  /\ acc[AccountOf(w)].version = 0
  /\ ReturnError(w)
  /\ UNCHANGED <<storeVars, token, faults>>

\* Mutant: the update carries no idempotency key.
MoneyEventNoKey(w) ==
  AccountEvent(IF side[w] = "withdraw" THEN "MoneyWithdrawn" ELSE "MoneyDeposited",
               AccountOf(w), seen[w] + 1, Current(w), "none", tx[Current(w)].money)

MoneyEvent(w) ==
  AccountEvent(IF side[w] = "withdraw" THEN "MoneyWithdrawn" ELSE "MoneyDeposited",
               AccountOf(w), seen[w] + 1, Current(w), side[w], tx[Current(w)].money)

SaveAccount(w) ==
  /\ pc[w] = "accSave"
  /\ StoreAccountEvent(MoneyEvent(w))
  /\ NextLeg(w)
  /\ UNCHANGED <<token, cursor, at, faults>>

\* Mutant: a conflict of the insert is swallowed.
ConflictSwallowed(w) ==
  /\ pc[w] = "accSave"
  /\ Conflicts(MoneyEvent(w))
  /\ Return(w)
  /\ UNCHANGED <<storeVars, token, faults>>

AccountConflict(w) ==
  /\ pc[w] = "accSave"
  /\ Conflicts(MoneyEvent(w))
  /\ ReturnError(w)
  /\ UNCHANGED <<storeVars, token, faults>>

(***************************************************************************)
(* The account refused: record on the transaction, under the key of the    *)
(* leg, that it failed.  Either way the handler stops after it.            *)
(***************************************************************************)
FailureRecorded(w) ==
  /\ pc[w] = "txHas"
  /\ HasIdempotencyKey(Current(w), side[w])
  /\ Return(w)
  /\ UNCHANGED <<storeVars, token, faults>>

FailureOpen(w) ==
  /\ pc[w] = "txHas"
  /\ ~HasIdempotencyKey(Current(w), side[w])
  /\ GoTo(w, "txGet")
  /\ UNCHANGED <<storeVars, token, cursor, at, side, seen, faults>>

RetrieveTransaction(w) ==
  /\ pc[w] = "txGet"
  /\ IsPending(tx[Current(w)])
  /\ seen' = [seen EXCEPT ![w] = tx[Current(w)].version]
  /\ GoTo(w, "txSave")
  /\ UNCHANGED <<storeVars, token, cursor, at, side, faults>>

AlreadySettled(w) ==
  /\ pc[w] = "txGet"
  /\ ~IsPending(tx[Current(w)])
  /\ Return(w)
  /\ UNCHANGED <<storeVars, token, faults>>

\* Mutant: the failure is stored without the key of its leg.
FailureEventNoKey(w) ==
  TransactionEvent("TransactionFailed", Current(w), seen[w] + 1, "none",
                   NeedsRollback(tx[Current(w)], side[w]))

FailureEvent(w) ==
  TransactionEvent("TransactionFailed", Current(w), seen[w] + 1, side[w],
                   NeedsRollback(tx[Current(w)], side[w]))

StoreRefusal(w) ==
  /\ pc[w] = "txSave"
  /\ StoreTransactionEvent(FailureEvent(w))

SaveFailure(w) ==
  /\ StoreRefusal(w)
  /\ Return(w)
  /\ UNCHANGED <<token, faults>>

FailureConflict(w) ==
  /\ pc[w] = "txSave"
  /\ Conflicts(FailureEvent(w))
  /\ ReturnError(w)
  /\ UNCHANGED <<storeVars, token, faults>>

\* Mutant: Succeeded does not check that the transaction is pending.
SettleUnchecked(w) ==
  /\ pc[w] = "complete"
  /\ StoreTransactionEvent(
       TransactionEvent("TransactionSucceeded", Current(w),
                        tx[Current(w)].version + 1, "none", FALSE))
  /\ token' = at[w]

(***************************************************************************)
(* Both legs done: one MongoDB transaction completes the money transaction *)
(* and stores the resume token.  Its abort is a TransientError.            *)
(***************************************************************************)
Settle(w) ==
  /\ pc[w] = "complete"
  /\ IF IsPending(tx[Current(w)])
       THEN StoreTransactionEvent(
              TransactionEvent("TransactionSucceeded", Current(w),
                               tx[Current(w)].version + 1, "none", FALSE))
       ELSE UNCHANGED storeVars
  /\ token' = at[w]

Complete(w) == Settle(w) /\ Return(w) /\ UNCHANGED faults

(***************************************************************************)
(* The handler of TransactionFailed: one MongoDB transaction deposits the  *)
(* money back and stores the resume token, or fails as a whole.            *)
(***************************************************************************)
Refundable(t) == CanDeposit(acc[tx[t].from])

RefundEvent(w) ==
  AccountEvent("MoneyDeposited", tx[Current(w)].from,
               acc[tx[Current(w)].from].version + 1, Current(w), "rollback",
               tx[Current(w)].money)

\* Mutant: the rollback checks the key of the deposit.
RefundWrongKey(w) ==
  /\ pc[w] = "rollback"
  /\ IF HasIdempotencyKey(Current(w), "deposit")
       THEN UNCHANGED storeVars
       ELSE Refundable(Current(w)) /\ StoreAccountEvent(RefundEvent(w))
  /\ token' = at[w]

Refund(w) ==
  /\ pc[w] = "rollback"
  /\ IF HasIdempotencyKey(Current(w), "rollback")
       THEN UNCHANGED storeVars
       ELSE Refundable(Current(w)) /\ StoreAccountEvent(RefundEvent(w))
  /\ token' = at[w]

Rollback(w) == Refund(w) /\ Return(w) /\ UNCHANGED faults

RollbackRefused(w) ==
  /\ pc[w] = "rollback"
  /\ ~HasIdempotencyKey(Current(w), "rollback")
  /\ ~Refundable(Current(w))
  /\ ReturnError(w)
  /\ UNCHANGED <<storeVars, token, faults>>

-------------------------------------------------------------------------------
(***************************************************************************)
(* Faults.                                                                 *)
(***************************************************************************)
\* A call to the store fails, or its transaction aborts, without effect.
TransientError(w) ==
  /\ pc[w] # "idle"
  /\ faults < MaxFaults
  /\ ReturnError(w)
  /\ faults' = faults + 1
  /\ UNCHANGED <<storeVars, token>>

\* The last call of a handler takes effect, but its answer is lost: the handler
\* returns an error although all it had to do is done.  With any earlier call
\* (SaveAccount) this is the call followed by a TransientError.
AnswerLost(w) ==
  /\ faults < MaxFaults
  /\ \/ StoreRefusal(w) /\ UNCHANGED token
     \/ Settle(w)
     \/ Refund(w)
  /\ ReturnError(w)
  /\ faults' = faults + 1

\* The worker dies or loses its lease and starts again after the resume token.
Restart(w) ==
  /\ faults < MaxFaults
  /\ GoIdle(w)
  /\ cursor' = [cursor EXCEPT ![w] = token]
  /\ faults' = faults + 1
  /\ UNCHANGED <<storeVars, token>>

-------------------------------------------------------------------------------
Command ==
  \/ \E a \in Account : CreateAccount(a) \/ Freeze(a)
  \/ \E t \in Tx, from, to \in Party, money \in Amount :
       CreateTransaction(t, from, to, money)

AccountStep(w) ==
  \/ LegDone(w) \/ LegOpen(w)
  \/ RetrieveAccount(w) \/ UnknownAccount(w)
  \/ SaveAccount(w) \/ AccountConflict(w)

FailureStep(w) ==
  \/ FailureRecorded(w) \/ FailureOpen(w)
  \/ RetrieveTransaction(w) \/ AlreadySettled(w)
  \/ SaveFailure(w) \/ FailureConflict(w)

\* What a worker does by itself, faults apart.
Work(w) ==
  \/ Skip(w) \/ Deliver(w)
  \/ AccountStep(w) \/ FailureStep(w)
  \/ Complete(w) \/ Rollback(w) \/ RollbackRefused(w)

Fault(w) ==
  \/ \E n \in DOMAIN log : Redeliver(w, n)
  \/ TransientError(w) \/ AnswerLost(w) \/ Restart(w)

Next == Command \/ \E w \in Worker : Work(w) \/ Fault(w)

Spec == Init /\ [][Next]_vars

\* A worker that holds its lease keeps running its handler and reading its
\* subscription (the balancer restarts it); clients and faults are free.
FairSpec == Spec /\ \A w \in Worker : WF_vars(Work(w))
===============================================================================
