------------------------------- MODULE EndToEnd -------------------------------
(***************************************************************************)
(* The whole system: the account service stores events, the forwarder      *)
(* publishes them to the message bus in commit order, and two consumers    *)
(* read the bus: the reactor, which stores further events, and the         *)
(* projection of the balance service.  The write side and the read side    *)
(* are the components' own modules over this module's variables; neither   *)
(* reads the state of the other but through what was published.            *)
(*                                                                         *)
(* The position of an event in the log is its sequence on the bus.         *)
(***************************************************************************)
EXTENDS Integers, Sequences, FiniteSets, FiniteSetsExt

CONSTANTS
  Account, Tx, Nobody, Amount, MaxInt64,
  Worker,            \* reactor workers
  Projector,         \* projection workers
  Freezable, OrderedRetry,
  MaxFaults,         \* bound on the faults of both consumers together
  FeedBound          \* no execution stores more events than this

\* What the modules of the two sides assume of these constants.
ASSUME EndToEndAssumption ==
  /\ Account \cap Tx = {}
  /\ Nobody \notin Account \cup Tx
  /\ MaxInt64 \in Nat \ {0}
  /\ Amount \subseteq -(MaxInt64 + 1)..MaxInt64
  /\ Freezable \subseteq Account
  /\ OrderedRetry \in BOOLEAN
  /\ MaxFaults \in Nat
  /\ FeedBound \in Nat

VARIABLES
  log, acc, tx,                          \* the event store
  token, cursor, pc, at, side, seen,     \* the reactor
  faults,
  sent,                                  \* the forwarder: events published so far
  doc, resume,                           \* the documents and their resume token
  place, step, task, read, mishaps       \* the projection's workers

writeVars == <<log, acc, tx, token, cursor, pc, at, side, seen, faults>>
readVars == <<doc, resume, place, step, task, read, mishaps>>
vars == <<writeVars, sent, readVars>>

W == INSTANCE TransferProperties

\* What the projection reads of a stored event: nothing but that it is there if it
\* is the event of a transaction.
View(e) ==
  IF e.agg \in Account THEN [kind |-> e.kind, agg |-> e.agg, money |-> e.money]
  ELSE [kind |-> "Other", agg |-> Nobody, money |-> 0]

P == INSTANCE Projection WITH
  feed <- [i \in 1..sent |-> View(log[i])],
  Worker <- Projector, cursor <- place, pc <- step, at <- task,
  faults <- mishaps

-------------------------------------------------------------------------------
Init == W!Init /\ sent = 0 /\ P!Init

\* REST commands.
Request == W!Command /\ UNCHANGED <<sent, readVars>>

\* A change stream of the collection, one event after the other.
Forward ==
  /\ sent < Len(log)
  /\ sent' = sent + 1
  /\ UNCHANGED <<writeVars, readVars>>

\* Mutant: the reactor stops one event short of what was published.
ReactorStepShort(w) ==
  /\ W!Work(w)
  /\ cursor'[w] < sent /\ at'[w] < sent
  /\ UNCHANGED <<sent, readVars>>

\* The reactor is delivered what was published.
ReactorStep(w) ==
  /\ W!Work(w)
  /\ cursor'[w] <= sent /\ at'[w] <= sent
  /\ UNCHANGED <<sent, readVars>>

ReactorFault(w) ==
  /\ faults + mishaps < MaxFaults
  /\ W!Fault(w)
  /\ UNCHANGED <<sent, readVars>>

ProjectorStep(p) == UNCHANGED <<writeVars, sent>> /\ P!Work(p)

ProjectorFault ==
  /\ faults + mishaps < MaxFaults
  /\ UNCHANGED <<writeVars, sent>>
  /\ P!CleanIndex \/ \E p \in Projector : P!Fault(p)

\* What the two processes run side by side.
AccountService ==
  \/ Request
  \/ Forward
  \/ \E w \in Worker : ReactorStep(w) \/ ReactorFault(w)

BalanceService == ProjectorFault \/ \E p \in Projector : ProjectorStep(p)

Next == AccountService \/ BalanceService

Spec == Init /\ [][Next]_vars

\* Balancers keep the forwarder, a reactor and a projection running.
FairSpec ==
  /\ Spec
  /\ WF_vars(Forward)
  /\ \A w \in Worker : WF_vars(ReactorStep(w))
  /\ \A p \in Projector : WF_vars(ProjectorStep(p))

-------------------------------------------------------------------------------
(***************************************************************************)
(* The queries of the two services.                                        *)
(***************************************************************************)
NotFound == [found |-> FALSE, balance |-> 0]

\* GET /accounts/:id of the account service: from the events.
Balance(a) ==
  IF acc[a].version = 0 THEN NotFound ELSE [found |-> TRUE, balance |-> acc[a].balance]

\* GET /balance/:id of the balance service: from the document.
GetOne(a) ==
  IF ~P!Known(a) THEN NotFound ELSE [found |-> TRUE, balance |-> doc[a].balance]

-------------------------------------------------------------------------------
(***************************************************************************)
(* Properties.                                                             *)
(***************************************************************************)
\* What the account service publishes is what the projection was checked against:
\* every account is created first and once, and no withdrawal exceeds the balance
\* that the projection itself computes from the messages before it.
ImplementsProjection == P!Spec

LastEvent(a) == Max({0} \cup {i \in DOMAIN log : log[i].agg = a})

\* Both services give the same answer about an account once its last event is in its
\* document, unless its balance has been zero (see ShowsBalance in Projection).
AnswersAgree ==
  \A a \in Account :
    doc[a].sequence = LastEvent(a) /\ ~P!Emptied(a, sent) => GetOne(a) = Balance(a)

\* Transaction t has its outcome, or an event that the reactor can never handle is in
\* front of its own.
Closed(t) ==
  \/ tx[t].status # "PENDING"
  \/ \E i \in DOMAIN log : W!IsEventOf(t, "TransactionCreated", i) /\ W!Blocked(i)

\* When clients stop, as they do in every execution here, the system comes to rest:
\* every transaction has its outcome although the reactor sees events, its own
\* included, by the bus only, and the documents have caught up with the store for
\* good, across forwarder, bus and projection and through a fault of either
\* consumer.  From then on AnswersAgree speaks of every account.
EventuallyConsistent ==
  <>[](/\ \A t \in Tx : Closed(t)
       /\ \A a \in Account : doc[a].sequence = LastEvent(a))
===============================================================================
