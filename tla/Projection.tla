------------------------------ MODULE Projection ------------------------------
(***************************************************************************)
(* The read side: the balance service keeps one Elasticsearch document per *)
(* account, from the events that the account service forwards to the       *)
(* message bus.                                                            *)
(*                                                                         *)
(* The handler of an event asks for the greatest sequence of all documents *)
(* and ignores the event if it is not above it, reads the document of the  *)
(* account, writes it back with the new balance and the event's sequence,  *)
(* and stores a resume token.  Every request is a step of its own, and the *)
(* worker may fail or die between any two.  A worker that starts again     *)
(* resumes after the greatest sequence; nothing reads the stored token.    *)
(***************************************************************************)
EXTENDS BankDomain, Sequences, FiniteSetsExt

CONSTANTS
  Worker,         \* projection workers; two when a lock lease is lost while its
                  \* holder still runs
  OrderedRetry,   \* is an event whose handling failed retried before later ones?
  FeedBound,      \* bound on the events that are published
  MaxFaults       \* bound on crashes, transient errors and redeliveries

ASSUME ProjectionAssumption ==
  /\ OrderedRetry \in BOOLEAN
  /\ FeedBound \in Nat
  /\ MaxFaults \in Nat

VARIABLES
  feed,     \* the published events; an event's position is its sequence
  doc,      \* doc[a]: the document of account a; sequence 0 if there is none
  resume,   \* the resume token stored beside the documents
  cursor,   \* cursor[w]: last sequence delivered to w in order
  pc,       \* pc[w]: the next request of the handler w runs
  at,       \* at[w]: sequence of the event w handles
  read,     \* read[w]: the balance w read
  faults    \* faults so far

workerVars == <<cursor, pc, at, read>>
vars == <<feed, doc, resume, workerVars, faults>>

PC == {"idle", "check", "create", "get", "update", "token"}
Document == [sequence: Nat, balance: Int64]

NoDocument == [sequence |-> 0, balance |-> 0]

\* The messages of the bus, as far as the projection reads them: what happened to
\* an account, or an event of an aggregate of another kind.
Other == [kind |-> "Other", agg |-> Nobody, money |-> 0]

Message ==
  [kind: {"AccountCreated"}, agg: Account, money: {0}]
    \cup [kind: {"MoneyDeposited", "MoneyWithdrawn"}, agg: Account, money: Amount]
    \cup {Other}

TypeOK ==
  /\ feed   \in Seq(Message)
  /\ doc    \in [Account -> Document]
  /\ resume \in Nat
  /\ cursor \in [Worker -> Nat]
  /\ pc     \in [Worker -> PC]
  /\ at     \in [Worker -> Nat]
  /\ read   \in [Worker -> Int64]
  /\ faults \in Nat

Init ==
  /\ feed   = << >>
  /\ doc    = [a \in Account |-> NoDocument]
  /\ resume = 0
  /\ cursor = [w \in Worker |-> 0]
  /\ pc     = [w \in Worker |-> "idle"]
  /\ at     = [w \in Worker |-> 0]
  /\ read   = [w \in Worker |-> 0]
  /\ faults = 0

-------------------------------------------------------------------------------
(***************************************************************************)
(* What the account service publishes: the events of an account in order,  *)
(* beginning with its creation and never withdrawing more than it holds,   *)
(* and between them events of transactions, which nobody here reads.       *)
(***************************************************************************)
IsAccountEvent(e) == e.agg \in Account

EventsOf(a, n) == {i \in 1..n : i \in DOMAIN feed /\ feed[i].agg = a}

Delta(e) ==
  CASE e.kind = "MoneyDeposited" -> e.money
    [] e.kind = "MoneyWithdrawn" -> -e.money
    [] OTHER -> 0

\* The balance of an account after its events with a sequence up to n.
Replay(a, n) ==
  LET balance[i \in 0..n] ==
        IF i = 0 THEN 0
        ELSE IF feed[i].agg = a THEN Wrap(balance[i - 1] + Delta(feed[i]))
        ELSE balance[i - 1]
  IN balance[n]

\* What Account.ApplyChange can produce next.
CanFollow(e) ==
  LET a == e.agg
      past == EventsOf(a, Len(feed)) IN
  CASE e.kind = "AccountCreated" -> past = {}
    [] e.kind = "MoneyDeposited" -> past # {}
    [] e.kind = "MoneyWithdrawn" -> past # {} /\ ~(Replay(a, Len(feed)) < e.money)
    [] OTHER -> TRUE

Publish(e) ==
  /\ Len(feed) < FeedBound
  /\ CanFollow(e)
  /\ feed' = Append(feed, e)
  /\ UNCHANGED <<doc, resume, workerVars, faults>>

PublishAny == \E e \in Message : Publish(e)

-------------------------------------------------------------------------------
(***************************************************************************)
(* Delivery.                                                               *)
(***************************************************************************)
GoIdle(w) ==
  /\ pc'   = [pc EXCEPT ![w] = "idle"]
  /\ at'   = [at EXCEPT ![w] = 0]
  /\ read' = [read EXCEPT ![w] = 0]

Advance(w) ==
  cursor' = [cursor EXCEPT ![w] = IF @ < at[w] THEN at[w] ELSE @]

Return(w) == GoIdle(w) /\ Advance(w)

ReturnError(w) ==
  /\ GoIdle(w)
  /\ IF OrderedRetry THEN UNCHANGED cursor ELSE Advance(w)

GoTo(w, label) == pc' = [pc EXCEPT ![w] = label]

Begin(w, n) ==
  /\ pc[w] = "idle"
  /\ at' = [at EXCEPT ![w] = n]
  /\ GoTo(w, "check")
  /\ UNCHANGED <<feed, doc, resume, cursor, read>>

\* Events of other aggregates are acknowledged unread.
Skip(w) ==
  /\ pc[w] = "idle"
  /\ cursor[w] < Len(feed)
  /\ ~IsAccountEvent(feed[cursor[w] + 1])
  /\ cursor' = [cursor EXCEPT ![w] = @ + 1]
  /\ UNCHANGED <<feed, doc, resume, pc, at, read, faults>>

Deliver(w) ==
  /\ cursor[w] < Len(feed)
  /\ IsAccountEvent(feed[cursor[w] + 1])
  /\ Begin(w, cursor[w] + 1)
  /\ UNCHANGED faults

Redeliver(w, n) ==
  /\ faults < MaxFaults
  /\ n <= cursor[w]
  /\ IsAccountEvent(feed[n])
  /\ Begin(w, n)
  /\ faults' = faults + 1

-------------------------------------------------------------------------------
(***************************************************************************)
(* The handler.                                                            *)
(***************************************************************************)
\* An empty index answers 0.
MaxSequence == Max({0} \cup {doc[a].sequence : a \in Account})

Known(a) == doc[a].sequence # 0

Subject(w) == feed[at[w]].agg

\* Mutant: the guard against redelivery is off by one.
IgnoreNext(w) ==
  /\ pc[w] = "check"
  /\ at[w] <= MaxSequence + 1
  /\ Return(w)
  /\ UNCHANGED <<feed, doc, resume, faults>>

IgnoreEvent(w) ==
  /\ pc[w] = "check"
  /\ at[w] <= MaxSequence
  /\ Return(w)
  /\ UNCHANGED <<feed, doc, resume, faults>>

\* Mutant: no guard against redelivery.
AcceptAnyEvent(w) ==
  /\ pc[w] = "check"
  /\ GoTo(w, IF feed[at[w]].kind = "AccountCreated" THEN "create" ELSE "get")
  /\ UNCHANGED <<feed, doc, resume, cursor, at, read, faults>>

AcceptEvent(w) ==
  /\ pc[w] = "check"
  /\ at[w] > MaxSequence
  /\ GoTo(w, IF feed[at[w]].kind = "AccountCreated" THEN "create" ELSE "get")
  /\ UNCHANGED <<feed, doc, resume, cursor, at, read, faults>>

\* Index: the document is replaced if there is one.
CreateAccount(w) ==
  /\ pc[w] = "create"
  /\ doc' = [doc EXCEPT ![Subject(w)] =
                [sequence |-> at[w], balance |-> feed[at[w]].money]]
  /\ GoTo(w, "token")
  /\ UNCHANGED <<feed, resume, cursor, at, read, faults>>

GetByID(w) ==
  /\ pc[w] = "get"
  /\ Known(Subject(w))
  /\ read' = [read EXCEPT ![w] = doc[Subject(w)].balance]
  /\ GoTo(w, "update")
  /\ UNCHANGED <<feed, doc, resume, cursor, at, faults>>

UnknownAggregate(w) ==
  /\ pc[w] = "get"
  /\ ~Known(Subject(w))
  /\ ReturnError(w)
  /\ UNCHANGED <<feed, doc, resume, faults>>

\* A partial update without condition on the document's version.  Fields that are
\* zero are left out of the request ("omitempty"), except the sequence.
Merge(old, sequence, balance) ==
  [sequence |-> sequence, balance |-> IF balance = 0 THEN old.balance ELSE balance]

Update(w) ==
  /\ pc[w] = "update"
  /\ doc' = [doc EXCEPT ![Subject(w)] =
                Merge(@, at[w], Wrap(read[w] + Delta(feed[at[w]])))]
  /\ GoTo(w, "token")
  /\ UNCHANGED <<feed, resume, cursor, at, read, faults>>

SetStreamResumeToken(w) ==
  /\ pc[w] = "token"
  /\ resume' = at[w]
  /\ Return(w)
  /\ UNCHANGED <<feed, doc, faults>>

-------------------------------------------------------------------------------
(***************************************************************************)
(* Faults.                                                                 *)
(***************************************************************************)
TransientError(w) ==
  /\ pc[w] # "idle"
  /\ faults < MaxFaults
  /\ ReturnError(w)
  /\ faults' = faults + 1
  /\ UNCHANGED <<feed, doc, resume>>

\* Mutant: one event is read again for safety, also when there was none.
RestartBelow(w) ==
  /\ faults < MaxFaults
  /\ GoIdle(w)
  /\ cursor' = [cursor EXCEPT ![w] = MaxSequence - 1]
  /\ faults' = faults + 1
  /\ UNCHANGED <<feed, doc, resume>>

\* Mutant: the worker resumes one event too late.
RestartAbove(w) ==
  /\ faults < MaxFaults
  /\ GoIdle(w)
  /\ cursor' = [cursor EXCEPT ![w] = MaxSequence + 1]
  /\ faults' = faults + 1
  /\ UNCHANGED <<feed, doc, resume>>

\* GetStreamResumeToken answers with the greatest sequence, whatever the key.
Restart(w) ==
  /\ faults < MaxFaults
  /\ GoIdle(w)
  /\ cursor' = [cursor EXCEPT ![w] = MaxSequence]
  /\ faults' = faults + 1
  /\ UNCHANGED <<feed, doc, resume>>

\* "If you want to start from a clean index, just delete the existing index": with
\* no worker running.  There is no greatest sequence then, so the workers start
\* from the first event; the stored resume token is left as it was.
CleanIndex ==
  /\ faults < MaxFaults
  /\ doc'    = [a \in Account |-> NoDocument]
  /\ cursor' = [w \in Worker |-> 0]
  /\ pc'     = [w \in Worker |-> "idle"]
  /\ at'     = [w \in Worker |-> 0]
  /\ read'   = [w \in Worker |-> 0]
  /\ faults' = faults + 1
  /\ UNCHANGED <<feed, resume>>

-------------------------------------------------------------------------------
Handle(w) ==
  \/ IgnoreEvent(w) \/ AcceptEvent(w)
  \/ CreateAccount(w) \/ GetByID(w) \/ UnknownAggregate(w) \/ Update(w)
  \/ SetStreamResumeToken(w)

Work(w) == Skip(w) \/ Deliver(w) \/ Handle(w)

Fault(w) ==
  \/ \E n \in DOMAIN feed : Redeliver(w, n)
  \/ TransientError(w) \/ Restart(w)

Next ==
  \/ PublishAny \/ CleanIndex
  \/ \E w \in Worker : Work(w) \/ Fault(w)

Spec == Init /\ [][Next]_vars

\* The balancer keeps one worker running; the account service and faults are free.
FairSpec == Spec /\ \A w \in Worker : WF_vars(Work(w))

-------------------------------------------------------------------------------
(***************************************************************************)
(* Properties.                                                             *)
(***************************************************************************)
\* No event is passed over: once some document carries sequence n, the event with
\* sequence n and all account events before it are in their documents.  The guard
\* against redelivery and the restart both take the greatest sequence of all
\* documents as the position that was reached.
NothingPassedOver ==
  \A i \in 1..MaxSequence :
    IsAccountEvent(feed[i]) => doc[feed[i].agg].sequence >= i

\* An account whose balance was taken to zero by an event up to n.
Emptied(a, n) ==
  \E i \in EventsOf(a, n) : feed[i].kind # "AccountCreated" /\ Replay(a, i) = 0

\* A document shows the events of its account up to its sequence, each applied once
\* whatever was redelivered or interrupted, as long as none of them took the
\* balance to zero (see ShowsBalance).
AppliedOnce ==
  \A a \in Account :
    LET n == doc[a].sequence IN ~Emptied(a, n) => doc[a].balance = Replay(a, n)

\* "reads the MQ and updates its projection(s)": the same, without exception.
ShowsBalance ==
  \A a \in Account : doc[a].balance = Replay(a, doc[a].sequence)

\* No document goes back to an earlier event, whatever is delivered late, unless the
\* whole index is deleted.
NeverGoesBack ==
  [][\/ \A a \in Account : doc'[a].sequence >= doc[a].sequence
     \/ \A a \in Account : doc'[a] = NoDocument]_vars

Published(i) == IF i \in DOMAIN feed THEN IsAccountEvent(feed[i]) ELSE FALSE

Reached(i) == IF Published(i) THEN doc[feed[i].agg].sequence >= i ELSE FALSE

\* Every account event eventually reaches its document, through crashes, errors
\* and redeliveries, and again after the index was deleted.
CatchesUp == \A i \in 1..FeedBound : Published(i) ~> Reached(i)
===============================================================================
