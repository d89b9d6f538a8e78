---------------------------- MODULE TransferProofs ----------------------------
(***************************************************************************)
(* Proofs about the write side, for any number of accounts, transactions,  *)
(* workers and faults.                                                     *)
(*                                                                         *)
(* The argument is optimistic concurrency: the stored events of an         *)
(* aggregate carry exactly the versions 1..n (Covered and LogOK), so the   *)
(* version a worker wants to store is free only if the aggregate is still  *)
(* the one the worker decided on (WorkerOK).                               *)
(***************************************************************************)
EXTENDS TransferProperties, SequenceTheorems, TLAPS

USE DomainAssumption, TransfersAssumption

VersionOf(g) == IF g \in Account THEN acc[g].version ELSE tx[g].version

\* What the stored event e has to do with the aggregates as they are now.
EventOK(e) ==
  /\ e.agg \in Account => e.kind \in AccountKind
  /\ e.agg \in Tx => e.kind \in TransactionKind /\ e.tx = e.agg
  /\ e.version <= VersionOf(e.agg)
  /\ e.kind = "TransactionFailed" /\ e.rollback => tx[e.tx].from \in Account

LogOK == \A i \in DOMAIN log : EventOK(log[i])

Covered ==
  \A g \in Account \cup Tx : \A v \in Nat :
    1 <= v /\ v <= VersionOf(g) => VersionTaken(g, v)

Unborn == \A t \in Tx : tx[t].version = 0 => tx[t].status = "NONE"

StoreInv == StoreTypeOK /\ LogOK /\ Covered /\ Unborn

\* What worker w knows of the store at its next call.
AskedPC == {"accGet", "accSave", "txHas", "txGet", "txSave"}

WorkerOK(w) ==
  /\ pc[w] # "idle" => at[w] \in DOMAIN log /\ Handled(log[at[w]])
  /\ pc[w] = "rollback" => log[at[w]].kind = "TransactionFailed"
  /\ pc[w] \in AskedPC => AccountOf(w) \in Account
  /\ pc[w] = "accSave" =>
       LET a == acc[AccountOf(w)] IN
       /\ seen[w] <= a.version
       /\ seen[w] = a.version => Accepts(a, side[w], tx[Current(w)].money)
  /\ pc[w] = "txSave" =>
       LET t == tx[Current(w)] IN
       /\ seen[w] <= t.version
       /\ seen[w] = t.version => IsPending(t)

IInv == TypeOK /\ StoreInv /\ \A w \in Worker : WorkerOK(w)

\* At most one event is stored, as the next version of its aggregate.
OneEvent ==
  \/ UNCHANGED log /\ \A g \in Account \cup Tx : VersionOf(g)' = VersionOf(g)
  \/ \E e \in Event :
       /\ log' = Append(log, e)
       /\ e.version = VersionOf(e.agg) + 1
       /\ \A g \in Account \cup Tx :
            VersionOf(g)' = IF g = e.agg THEN e.version ELSE VersionOf(g)

\* How the store may change in a step, as seen by those who do not take it.
Grows ==
  /\ OneEvent
  /\ \A i \in DOMAIN log : i \in DOMAIN log' /\ log'[i] = log[i]
  /\ \A a \in Account : acc'[a] = acc[a] \/ acc'[a].version > acc[a].version
  /\ \A t \in Tx :
       /\ tx'[t] = tx[t] \/ tx'[t].version > tx[t].version
       /\ tx[t].version > 0 =>
            /\ tx'[t].from = tx[t].from
            /\ tx'[t].to = tx[t].to
            /\ tx'[t].money = tx[t].money

-------------------------------------------------------------------------------
(***************************************************************************)
(* The store.                                                              *)
(***************************************************************************)
\* int64 addition and subtraction stay in int64.
LEMMA WrapInt64 ==
  \A m, n \in Int64 : Wrap(m + n) \in Int64 /\ Wrap(m - n) \in Int64
BY DomainAssumption DEF Int64, Wrap, Width

\* The three constructors build events of the right type.
LEMMA EventTypes ==
  /\ \A kind \in AccountKind, a \in Account, v \in Nat \ {0}, t \in Tx \cup {Nobody},
        leg \in Leg \cup {"none"}, money \in Amount \cup {0} :
       AccountEvent(kind, a, v, t, leg, money) \in Event
  /\ \A kind \in TransactionKind, t \in Tx, v \in Nat \ {0},
        leg \in Leg \cup {"none"}, r \in BOOLEAN :
       TransactionEvent(kind, t, v, leg, r) \in Event
  /\ \A t \in Tx, from \in Party, to \in Party, money \in Amount :
       TransactionCreated(t, from, to, money) \in Event
<1>1. \A kind \in AccountKind, a \in Account, v \in Nat \ {0}, t \in Tx \cup {Nobody},
         leg \in Leg \cup {"none"}, money \in Amount \cup {0} :
        AccountEvent(kind, a, v, t, leg, money) \in Event
  BY DEF AccountEvent, Event, Party
<1>2. \A kind \in TransactionKind, t \in Tx, v \in Nat \ {0},
         leg \in Leg \cup {"none"}, r \in BOOLEAN :
        TransactionEvent(kind, t, v, leg, r) \in Event
  BY DEF TransactionEvent, Event, Party
<1>3. \A t \in Tx, from \in Party, to \in Party, money \in Amount :
        TransactionCreated(t, from, to, money) \in Event
  BY DEF TransactionCreated, Event, TransactionKind
<1> QED BY <1>1, <1>2, <1>3

\* A version that is free is above the version of the aggregate.
LEMMA FreeVersion ==
  ASSUME Covered, NEW g \in Account \cup Tx, NEW v \in Nat, v <= VersionOf(g),
         ~VersionTaken(g, v + 1), VersionOf(g) \in Nat
  PROVE  v = VersionOf(g)
  BY DEF Covered

\* Storing the next event of an account keeps the store consistent.
LEMMA StoreAccount ==
  ASSUME StoreInv, NEW e \in Event, e.agg \in Account, e.kind \in AccountKind,
         e.version = acc[e.agg].version + 1, StoreAccountEvent(e)
  PROVE  StoreInv' /\ Grows
<1>1. /\ log' = Append(log, e) /\ log \in Seq(Event)
      /\ acc' = [acc EXCEPT ![e.agg] = HandleAccountEvent(acc[e.agg], e)]
      /\ tx' = tx
  BY DEF StoreAccountEvent, StoreInv, StoreTypeOK
<1>2. /\ log' \in Seq(Event) /\ DOMAIN log' = 1..(Len(log) + 1) /\ DOMAIN log = 1..Len(log)
      /\ Len(log) \in Nat
      /\ \A i \in DOMAIN log : log'[i] = log[i]
      /\ log'[Len(log) + 1] = e
  BY <1>1, AppendProperties
<1>3. HandleAccountEvent(acc[e.agg], e) \in AccountState
  <2>1. /\ acc[e.agg] \in AccountState /\ acc[e.agg].balance \in Int64
        /\ e.money \in Int64 /\ e.version \in Nat
    <3>1. 0 \in Int64 /\ Amount \subseteq Int64
      BY DomainAssumption DEF Int64
    <3> QED BY <3>1 DEF StoreInv, StoreTypeOK, AccountState, Event
  <2>2. /\ Wrap(acc[e.agg].balance + e.money) \in Int64
        /\ Wrap(acc[e.agg].balance - e.money) \in Int64
    BY <2>1, WrapInt64
  <2> QED BY <2>1, <2>2 DEF HandleAccountEvent, AccountState
<1>4. StoreTypeOK'
  BY <1>1, <1>2, <1>3 DEF StoreInv, StoreTypeOK
<1>5. /\ acc'[e.agg].version = acc[e.agg].version + 1
      /\ \A a \in Account : a # e.agg => acc'[a] = acc[a]
  BY <1>1 DEF StoreInv, StoreTypeOK, HandleAccountEvent
<1>6. \A g \in Account \cup Tx : VersionOf(g)' \in Nat /\ VersionOf(g) \in Nat
                                  /\ VersionOf(g) <= VersionOf(g)'
  BY <1>1, <1>4, <1>5 DEF VersionOf, StoreInv, StoreTypeOK, AccountState, TransactionState
<1>7. Grows
  <2>1. OneEvent
    BY <1>1, <1>5 DEF OneEvent, VersionOf
  <2> QED BY <2>1, <1>1, <1>2, <1>5 DEF Grows, StoreInv, StoreTypeOK, AccountState
<1>8. LogOK'
  <2> SUFFICES ASSUME NEW i \in DOMAIN log' PROVE EventOK(log[i])'
    BY DEF LogOK
  <2>1. CASE i \in DOMAIN log
    <3>1. log'[i] = log[i] /\ log[i] \in Event /\ EventOK(log[i])
      BY <2>1, <1>1, <1>2 DEF StoreInv, LogOK
    <3>2. log[i].agg \in Account \cup Tx /\ log[i].version \in Nat
      BY <3>1 DEF Event
    <3> QED BY <3>1, <3>2, <1>1, <1>6 DEF EventOK
  <2>2. CASE i \notin DOMAIN log
    <3>1. log'[i] = e
      BY <2>2, <1>2
    <3>2. e.agg \notin Tx /\ e.kind # "TransactionFailed"
      BY DEF AccountKind
    <3>3. e.version <= VersionOf(e.agg)'
      BY <1>5, <1>6 DEF VersionOf
    <3> QED BY <3>1, <3>2, <3>3 DEF EventOK
  <2> QED BY <2>1, <2>2
<1>9. Covered'
  <2> SUFFICES ASSUME NEW g \in Account \cup Tx, NEW v \in Nat, 1 <= v, v <= VersionOf(g)'
               PROVE  VersionTaken(g, v)'
    BY DEF Covered
  <2>1. CASE v <= VersionOf(g)
    BY <2>1, <1>2 DEF StoreInv, Covered, VersionTaken
  <2>2. CASE ~(v <= VersionOf(g))
    <3>1. g = e.agg /\ v = e.version
      BY <2>2, <1>1, <1>5, <1>6 DEF VersionOf
    <3> QED BY <3>1, <1>2 DEF VersionTaken
  <2> QED BY <2>1, <2>2
<1> QED BY <1>1, <1>4, <1>7, <1>8, <1>9 DEF StoreInv, Unborn

\* Storing the next event of a transaction keeps the store consistent.
LEMMA StoreTransaction ==
  ASSUME StoreInv, NEW e \in Event, e.agg \in Tx, e.tx = e.agg, e.kind \in TransactionKind,
         e.version = tx[e.agg].version + 1,
         e.kind = "TransactionCreated" => tx[e.agg].version = 0,
         e.kind = "TransactionFailed" /\ e.rollback => tx[e.agg].from \in Account,
         StoreTransactionEvent(e)
  PROVE  StoreInv' /\ Grows
<1>1. /\ log' = Append(log, e) /\ log \in Seq(Event)
      /\ tx' = [tx EXCEPT ![e.agg] = HandleTransactionEvent(tx[e.agg], e)]
      /\ acc' = acc
  BY DEF StoreTransactionEvent, StoreInv, StoreTypeOK
<1>2. /\ log' \in Seq(Event) /\ DOMAIN log' = 1..(Len(log) + 1) /\ DOMAIN log = 1..Len(log)
      /\ Len(log) \in Nat
      /\ \A i \in DOMAIN log : log'[i] = log[i]
      /\ log'[Len(log) + 1] = e
  BY <1>1, AppendProperties
<1>3. HandleTransactionEvent(tx[e.agg], e) \in TransactionState
  <2>1. tx[e.agg] \in TransactionState
    BY DEF StoreInv, StoreTypeOK
  <2>2. CASE e.kind = "TransactionCreated"
    BY <2>2 DEF HandleTransactionEvent, TransactionState, Event
  <2>3. CASE e.kind = "TransactionFailed"
    BY <2>1, <2>3 DEF HandleTransactionEvent, TransactionState, Event
  <2>4. CASE e.kind = "TransactionSucceeded"
    BY <2>1, <2>4 DEF HandleTransactionEvent, TransactionState, Event
  <2> QED BY <2>2, <2>3, <2>4 DEF TransactionKind
<1>4. StoreTypeOK'
  BY <1>1, <1>2, <1>3 DEF StoreInv, StoreTypeOK
<1>5. /\ tx'[e.agg].version = tx[e.agg].version + 1
      /\ \A t \in Tx : t # e.agg => tx'[t] = tx[t]
      /\ e.kind # "TransactionCreated" =>
           /\ tx'[e.agg].from = tx[e.agg].from
           /\ tx'[e.agg].to = tx[e.agg].to
           /\ tx'[e.agg].money = tx[e.agg].money
  BY <1>1 DEF StoreInv, StoreTypeOK, HandleTransactionEvent, TransactionKind, TransactionState
<1>6. \A g \in Account \cup Tx : VersionOf(g)' \in Nat /\ VersionOf(g) \in Nat
                                  /\ VersionOf(g) <= VersionOf(g)'
  BY <1>1, <1>4, <1>5 DEF VersionOf, StoreInv, StoreTypeOK, AccountState, TransactionState
<1>7. Grows
  <2>1. OneEvent
    BY <1>1, <1>5 DEF OneEvent, VersionOf
  <2> QED BY <2>1, <1>1, <1>2, <1>5 DEF Grows, StoreInv, StoreTypeOK, TransactionState
<1>8. LogOK'
  <2> SUFFICES ASSUME NEW i \in DOMAIN log' PROVE EventOK(log[i])'
    BY DEF LogOK
  <2>1. CASE i \in DOMAIN log
    <3>1. log'[i] = log[i] /\ log[i] \in Event /\ EventOK(log[i])
      BY <2>1, <1>1, <1>2 DEF StoreInv, LogOK
    <3>2. log[i].agg \in Account \cup Tx /\ log[i].version \in Nat \ {0}
      BY <3>1 DEF Event
    <3>3. log[i].version <= VersionOf(log[i].agg)'
      BY <3>1, <3>2, <1>6 DEF EventOK
    <3>4. ASSUME log[i].kind = "TransactionFailed", log[i].rollback
          PROVE  tx'[log[i].tx].from \in Account
      <4>1. log[i].agg \in Tx /\ log[i].tx = log[i].agg
        BY <3>1, <3>2, <3>4 DEF EventOK, AccountKind
      <4>2. tx[log[i].tx].version > 0 /\ tx[log[i].tx].from \in Account
        BY <4>1, <3>1, <3>2, <3>4, <1>6 DEF EventOK, VersionOf
      <4> QED BY <4>1, <4>2, <1>7 DEF Grows
    <3> QED BY <3>1, <3>3, <3>4 DEF EventOK
  <2>2. CASE i \notin DOMAIN log
    <3>1. log'[i] = e
      BY <2>2, <1>2
    <3>2. e.agg \notin Account
      OBVIOUS
    <3>3. e.version <= VersionOf(e.agg)'
      BY <3>2, <1>5, <1>6 DEF VersionOf
    <3>4. e.kind = "TransactionFailed" /\ e.rollback => tx'[e.tx].from \in Account
      BY <1>5
    <3> QED BY <3>1, <3>2, <3>3, <3>4 DEF EventOK
  <2> QED BY <2>1, <2>2
<1>9. Covered'
  <2> SUFFICES ASSUME NEW g \in Account \cup Tx, NEW v \in Nat, 1 <= v, v <= VersionOf(g)'
               PROVE  VersionTaken(g, v)'
    BY DEF Covered
  <2>1. CASE v <= VersionOf(g)
    BY <2>1, <1>2 DEF StoreInv, Covered, VersionTaken
  <2>2. CASE ~(v <= VersionOf(g))
    <3>1. g = e.agg /\ v = e.version
      BY <2>2, <1>1, <1>5, <1>6 DEF VersionOf
    <3> QED BY <3>1, <1>2 DEF VersionTaken
  <2> QED BY <2>1, <2>2
<1>10. Unborn'
  BY <1>1, <1>5 DEF Unborn, StoreInv, StoreTypeOK, TransactionState
<1> QED BY <1>1, <1>4, <1>7, <1>8, <1>9, <1>10 DEF StoreInv

\* A step that leaves the store alone keeps it consistent.
LEMMA StoreStutters ==
  ASSUME StoreInv, UNCHANGED storeVars
  PROVE  StoreInv' /\ Grows
<1>1. StoreInv'
  BY DEF StoreInv, storeVars, StoreTypeOK, LogOK, EventOK, VersionOf, Covered, VersionTaken,
         Unborn
<1>2. Grows
  BY DEF Grows, OneEvent, VersionOf, storeVars
<1> QED BY <1>1, <1>2

\* The event a worker handles is an event of a transaction that was placed.
LEMMA HandledEvent ==
  ASSUME StoreInv, NEW i \in DOMAIN log, Handled(log[i])
  PROVE  /\ log[i].tx \in Tx /\ log[i].agg = log[i].tx
         /\ tx[log[i].tx] \in TransactionState /\ tx[log[i].tx].version > 0
         /\ log[i].kind = "TransactionFailed" => tx[log[i].tx].from \in Account
<1>1. log[i] \in Event /\ EventOK(log[i])
  BY DEF StoreInv, StoreTypeOK, LogOK
<1>2. log[i].agg \in Tx /\ log[i].tx = log[i].agg /\ log[i].version \in Nat \ {0}
  BY <1>1 DEF EventOK, Event, Handled, AccountKind
<1>3. tx[log[i].tx] \in TransactionState /\ log[i].version <= tx[log[i].tx].version
  BY <1>1, <1>2 DEF EventOK, VersionOf, StoreInv, StoreTypeOK
<1> QED BY <1>1, <1>2, <1>3 DEF EventOK, Handled, TransactionState

-------------------------------------------------------------------------------
(***************************************************************************)
(* The workers.                                                            *)
(***************************************************************************)
SameWorker(u) ==
  pc'[u] = pc[u] /\ at'[u] = at[u] /\ side'[u] = side[u] /\ seen'[u] = seen[u]

\* What a worker knows stays true while others write to the store.
LEMMA WorkerFrame ==
  ASSUME TypeOK, StoreInv, StoreInv', Grows, NEW u \in Worker, WorkerOK(u), SameWorker(u)
  PROVE  WorkerOK(u)'
<1>1. CASE pc[u] = "idle"
  BY <1>1 DEF WorkerOK, SameWorker, AskedPC
<1>2. CASE pc[u] # "idle"
  <2> DEFINE t == Current(u)
  <2>1. /\ at[u] \in DOMAIN log /\ Handled(log[at[u]])
        /\ at[u] \in DOMAIN log' /\ log'[at[u]] = log[at[u]]
    BY <1>2 DEF WorkerOK, Grows
  <2>2. t \in Tx /\ tx[t] \in TransactionState /\ tx[t].version > 0
    BY <2>1, HandledEvent DEF Current, StoreInv
  <2>3. Current(u)' = t
    BY <2>1 DEF Current, SameWorker
  <2>4. tx'[t].from = tx[t].from /\ tx'[t].to = tx[t].to /\ tx'[t].money = tx[t].money
    BY <2>2 DEF Grows
  <2>5. AccountOf(u)' = AccountOf(u)
    BY <2>3, <2>4 DEF AccountOf, SameWorker
  <2>6. Handled(log[at[u]])' /\ at'[u] \in DOMAIN log'
    BY <2>1 DEF Handled, SameWorker
  <2>7. CASE pc[u] = "accSave"
    <3> DEFINE a == AccountOf(u)
    <3>1. a \in Account /\ acc[a] \in AccountState /\ acc'[a] \in AccountState
      BY <2>7 DEF WorkerOK, AskedPC, StoreInv, StoreTypeOK
    <3>2. acc'[a] = acc[a] \/ acc'[a].version > acc[a].version
      BY <3>1 DEF Grows
    <3>3. /\ seen[u] <= acc[a].version /\ seen[u] \in Nat
          /\ seen[u] = acc[a].version => Accepts(acc[a], side[u], tx[t].money)
      BY <2>7 DEF WorkerOK, TypeOK
    <3>4. /\ seen[u] <= acc'[a].version
          /\ seen[u] = acc'[a].version => Accepts(acc'[a], side[u], tx'[t].money)
      BY <3>1, <3>2, <3>3, <2>4 DEF AccountState
    <3> HIDE DEF a, t
    <3>5. WorkerOK(u)'
      <4>1. /\ AccountOf(u)' = a /\ Current(u)' = t /\ side'[u] = side[u]
            /\ seen'[u] = seen[u] /\ pc'[u] = "accSave"
        BY <2>3, <2>5, <2>7 DEF a, SameWorker
      <4> QED BY <4>1, <3>1, <3>4, <2>6 DEF WorkerOK, AskedPC, Accepts, CanWithdraw, CanDeposit
    <3> QED BY <3>5
  <2>8. CASE pc[u] = "txSave"
    <3>1. tx'[t] \in TransactionState /\ (tx'[t] = tx[t] \/ tx'[t].version > tx[t].version)
      BY <2>2 DEF Grows, StoreInv, StoreTypeOK
    <3>2. /\ seen[u] <= tx[t].version /\ seen[u] \in Nat
          /\ seen[u] = tx[t].version => IsPending(tx[t])
          /\ AccountOf(u) \in Account
      BY <2>8 DEF WorkerOK, TypeOK, AskedPC
    <3>3. /\ seen[u] <= tx'[t].version
          /\ seen[u] = tx'[t].version => tx'[t].status = "PENDING"
      BY <3>1, <3>2, <2>2 DEF TransactionState, IsPending
    <3> HIDE DEF t
    <3>4. Current(u)' = t /\ seen'[u] = seen[u] /\ pc'[u] = "txSave"
      BY <2>3, <2>8 DEF SameWorker
    <3> QED BY <3>2, <3>3, <3>4, <2>5, <2>6 DEF WorkerOK, IsPending
  <2>9. CASE pc[u] \notin {"accSave", "txSave"}
    BY <2>9, <1>2, <2>1, <2>5, <2>6 DEF WorkerOK, SameWorker, AskedPC
  <2> QED BY <2>7, <2>8, <2>9
<1> QED BY <1>1, <1>2

WorkerTypeOK ==
  /\ token  \in Nat
  /\ cursor \in [Worker -> Nat]
  /\ pc     \in [Worker -> PC]
  /\ at     \in [Worker -> Nat]
  /\ side   \in [Worker -> {"withdraw", "deposit"}]
  /\ seen   \in [Worker -> Nat]
  /\ faults \in Nat

\* What has to be shown of a step of worker w.
StepOK(w) ==
  /\ StoreInv' /\ Grows /\ WorkerTypeOK'
  /\ \A u \in Worker \ {w} : SameWorker(u)
  /\ WorkerOK(w)'

\* A step that is right for its own worker is right for all of them.
LEMMA StepPreserves ==
  ASSUME IInv, NEW w \in Worker, StepOK(w)
  PROVE  IInv' /\ Grows
<1>1. TypeOK'
  BY DEF StepOK, StoreInv, TypeOK, WorkerTypeOK
<1>2. ASSUME NEW u \in Worker PROVE WorkerOK(u)'
  BY WorkerFrame DEF StepOK, IInv
<1> QED BY <1>1, <1>2 DEF IInv, StepOK

\* A handler that ends leaves its worker with nothing to know.
LEMMA Ends ==
  ASSUME IInv, NEW w \in Worker, GoIdle(w), cursor' \in [Worker -> Nat], token' \in Nat,
         faults' \in Nat, StoreInv', Grows
  PROVE  StepOK(w)
<1>1. pc'[w] = "idle" /\ WorkerTypeOK' /\ \A u \in Worker \ {w} : SameWorker(u)
  BY DEF GoIdle, IInv, TypeOK, WorkerTypeOK, PC, SameWorker
<1>2. WorkerOK(w)'
  BY <1>1 DEF WorkerOK, AskedPC
<1> QED BY <1>1, <1>2 DEF StepOK

\* Whether or not the event is acknowledged, the cursors keep their type.
LEMMA ReturnCursor ==
  ASSUME TypeOK, NEW w \in Worker, Advance(w) \/ UNCHANGED cursor
  PROVE  cursor' \in [Worker -> Nat]
  BY DEF Advance, TypeOK

\* A handler that stops without touching the store.
LEMMA StopsOK ==
  ASSUME IInv, NEW w \in Worker, Return(w) \/ ReturnError(w),
         UNCHANGED <<storeVars, token>>, faults' \in Nat
  PROVE  StepOK(w)
<1>1. GoIdle(w) /\ cursor' \in [Worker -> Nat]
  BY ReturnCursor DEF Return, ReturnError, IInv
<1>2. StoreInv' /\ Grows
  BY StoreStutters DEF IInv
<1> QED BY <1>1, <1>2, Ends DEF IInv, TypeOK

\* A worker whose next call is not one that decides on something it has read.
LEMMA MovesOK ==
  ASSUME IInv, NEW w \in Worker, UNCHANGED <<storeVars, token>>, faults' \in Nat,
         cursor' \in [Worker -> Nat], WorkerTypeOK',
         \A u \in Worker \ {w} : SameWorker(u), WorkerOK(w)'
  PROVE  StepOK(w)
  BY StoreStutters DEF StepOK, IInv

-------------------------------------------------------------------------------
(***************************************************************************)
(* Delivery.                                                               *)
(***************************************************************************)
\* A worker that takes up a stored event, delivered or delivered again.
LEMMA BeginOK ==
  ASSUME IInv, NEW w \in Worker, NEW n \in DOMAIN log, Handled(log[n]), Begin(w, n),
         faults' \in Nat
  PROVE  StepOK(w)
<1>1. n \in Nat
  BY DEF IInv, StoreInv, StoreTypeOK
<1>2. WorkerTypeOK' /\ \A u \in Worker \ {w} : SameWorker(u)
  BY <1>1 DEF Begin, IInv, TypeOK, WorkerTypeOK, PC, SameWorker
<1>3. StoreInv' /\ Grows
  BY StoreStutters DEF Begin, IInv
<1>4. /\ at'[w] = n /\ log' = log
      /\ pc'[w] = IF log[n].kind = "TransactionCreated" THEN "accHas" ELSE "rollback"
  BY DEF Begin, IInv, TypeOK, storeVars
<1>5. WorkerOK(w)'
  BY <1>4 DEF WorkerOK, AskedPC, Handled
<1> QED BY <1>2, <1>3, <1>5 DEF StepOK

\* Passing an event that nothing reacts to preserves the invariant.
LEMMA SkipOK ==
  ASSUME IInv, NEW w \in Worker, Skip(w)
  PROVE  IInv' /\ Grows
<1>1. WorkerTypeOK' /\ \A u \in Worker : SameWorker(u)
  BY DEF Skip, IInv, TypeOK, WorkerTypeOK, SameWorker
<1>2. StoreInv' /\ Grows
  BY StoreStutters DEF Skip, IInv
<1>3. WorkerOK(w)'
  BY <1>1, <1>2, WorkerFrame DEF IInv
<1> QED BY <1>1, <1>2, <1>3, StepPreserves DEF StepOK

\* So does the delivery of the next event.
LEMMA DeliverOK ==
  ASSUME IInv, NEW w \in Worker, Deliver(w)
  PROVE  StepOK(w)
<1>1. cursor[w] + 1 \in DOMAIN log
  BY DEF Deliver, IInv, TypeOK, StoreTypeOK
<1> QED BY <1>1, BeginOK DEF Deliver, IInv, TypeOK

-------------------------------------------------------------------------------
(***************************************************************************)
(* The steps of a handler.                                                 *)
(***************************************************************************)
\* The transaction of a busy worker, and the account it is about to ask.
LEMMA Busy ==
  ASSUME IInv, NEW w \in Worker, pc[w] # "idle"
  PROVE  /\ at[w] \in DOMAIN log /\ Handled(log[at[w]])
         /\ Current(w) \in Tx /\ tx[Current(w)] \in TransactionState
         /\ tx[Current(w)].version > 0
         /\ AccountOf(w) \in Party
         /\ pc[w] = "rollback" => tx[Current(w)].from \in Account
<1>1. at[w] \in DOMAIN log /\ Handled(log[at[w]])
  BY DEF IInv, WorkerOK
<1>2. /\ Current(w) \in Tx /\ tx[Current(w)] \in TransactionState
      /\ tx[Current(w)].version > 0
      /\ log[at[w]].kind = "TransactionFailed" => tx[Current(w)].from \in Account
  BY <1>1, HandledEvent DEF Current, IInv
<1> QED BY <1>1, <1>2 DEF AccountOf, TransactionState, IInv, WorkerOK

\* Going on to the next leg, with or without having stored this one.
LEMMA NextLegOK ==
  ASSUME IInv, NEW w \in Worker, pc[w] = "accHas" \/ pc[w] = "accSave", NextLeg(w),
         UNCHANGED <<token, cursor, at, faults>>, StoreInv', Grows
  PROVE  StepOK(w)
<1>1. WorkerTypeOK' /\ \A u \in Worker \ {w} : SameWorker(u)
  BY DEF NextLeg, IInv, TypeOK, WorkerTypeOK, PC, SameWorker
<1>2. at'[w] \in DOMAIN log' /\ log'[at[w]] = log[at[w]] /\ Handled(log[at[w]])
  BY Busy DEF Grows
<1>3. pc'[w] \in {"accHas", "complete"}
  BY DEF NextLeg, IInv, TypeOK
<1>4. Handled(log[at[w]])'
  BY <1>2 DEF Handled
<1>5. WorkerOK(w)'
  BY <1>2, <1>3, <1>4 DEF WorkerOK, AskedPC
<1> QED BY <1>1, <1>5 DEF StepOK

\* A leg that is done already.
LEMMA LegDoneOK ==
  ASSUME IInv, NEW w \in Worker, LegDone(w)
  PROVE  StepOK(w)
  BY NextLegOK, StoreStutters DEF LegDone, IInv

\* A leg whose key is not stored yet has an account to ask.
LEMMA LegOpenOK ==
  ASSUME IInv, NEW w \in Worker, LegOpen(w)
  PROVE  StepOK(w)
<1>1. WorkerTypeOK' /\ \A u \in Worker \ {w} : SameWorker(u)
  BY DEF LegOpen, GoTo, IInv, TypeOK, WorkerTypeOK, PC, SameWorker
<1>2. AccountOf(w) \in Account /\ at[w] \in DOMAIN log /\ Handled(log[at[w]])
  BY Busy DEF LegOpen, Party
<1>3. pc'[w] = "accGet" /\ UNCHANGED <<log, acc, tx, at, side, seen>>
  BY DEF LegOpen, GoTo, IInv, TypeOK, storeVars
<1>4. WorkerOK(w)'
  BY <1>2, <1>3 DEF WorkerOK, AskedPC, AccountOf, Current, Handled
<1> QED BY <1>1, <1>4, MovesOK DEF LegOpen, IInv, TypeOK, WorkerTypeOK

\* What the account decided is true of the version that was retrieved.
LEMMA RetrieveAccountOK ==
  ASSUME IInv, NEW w \in Worker, RetrieveAccount(w)
  PROVE  StepOK(w)
<1>1. AccountOf(w) \in Account /\ acc[AccountOf(w)] \in AccountState
      /\ at[w] \in DOMAIN log /\ Handled(log[at[w]])
  BY Busy DEF RetrieveAccount, IInv, WorkerOK, AskedPC, StoreInv, StoreTypeOK
<1>2. WorkerTypeOK' /\ \A u \in Worker \ {w} : SameWorker(u)
  BY <1>1 DEF RetrieveAccount, GoTo, IInv, TypeOK, WorkerTypeOK, PC, SameWorker, AccountState
<1>3. /\ seen'[w] = acc[AccountOf(w)].version
      /\ pc'[w] = IF Accepts(acc[AccountOf(w)], side[w], tx[Current(w)].money)
                    THEN "accSave" ELSE "txHas"
      /\ UNCHANGED <<log, acc, tx, at, side>>
  BY DEF RetrieveAccount, GoTo, IInv, TypeOK, storeVars
<1>4. AccountOf(w)' = AccountOf(w) /\ Current(w)' = Current(w) /\ Handled(log[at[w]])'
  BY <1>1, <1>3 DEF AccountOf, Current, Handled
<1>5. acc[AccountOf(w)].version \in Nat
  BY <1>1 DEF AccountState
<1>6. WorkerOK(w)'
  <2>1. CASE Accepts(acc[AccountOf(w)], side[w], tx[Current(w)].money)
    <3>1. pc'[w] = "accSave" /\ Accepts(acc[AccountOf(w)], side[w], tx[Current(w)].money)'
      BY <2>1, <1>3, <1>4 DEF Accepts, CanWithdraw, CanDeposit
    <3> QED BY <3>1, <1>1, <1>3, <1>4, <1>5 DEF WorkerOK
  <2>2. CASE ~Accepts(acc[AccountOf(w)], side[w], tx[Current(w)].money)
    BY <2>2, <1>1, <1>3, <1>4 DEF WorkerOK
  <2> QED BY <2>1, <2>2
<1> QED BY <1>2, <1>6, MovesOK DEF RetrieveAccount, IInv, TypeOK, WorkerTypeOK

\* The optimistic lock: what is stored was decided on the account as it is.
LEMMA SaveAccountDecided ==
  ASSUME IInv, NEW w \in Worker, SaveAccount(w)
  PROVE  /\ AccountOf(w) \in Account
         /\ MoneyEvent(w) \in Event /\ MoneyEvent(w).agg = AccountOf(w)
         /\ MoneyEvent(w).kind \in AccountKind
         /\ seen[w] = acc[AccountOf(w)].version
         /\ Accepts(acc[AccountOf(w)], side[w], tx[Current(w)].money)
<1> DEFINE a == AccountOf(w)
<1>1. /\ a \in Account /\ acc[a] \in AccountState
      /\ seen[w] \in Nat /\ seen[w] <= acc[a].version
      /\ seen[w] = acc[a].version => Accepts(acc[a], side[w], tx[Current(w)].money)
  BY DEF SaveAccount, IInv, WorkerOK, AskedPC, StoreInv, StoreTypeOK, TypeOK
<1>2. Current(w) \in Tx /\ tx[Current(w)].money \in Amount \cup {0}
  BY Busy DEF SaveAccount, TransactionState
<1>3. /\ MoneyEvent(w).agg = a /\ MoneyEvent(w).version = seen[w] + 1
      /\ MoneyEvent(w).kind \in AccountKind
  BY DEF MoneyEvent, AccountEvent, AccountKind
<1>4. MoneyEvent(w) \in Event
  <2>1. side[w] \in Leg \cup {"none"} /\ seen[w] + 1 \in Nat \ {0}
    BY <1>1 DEF IInv, TypeOK, Leg
  <2>2. CASE side[w] = "withdraw"
    BY <2>1, <2>2, <1>1, <1>2, EventTypes DEF MoneyEvent, AccountKind
  <2>3. CASE side[w] # "withdraw"
    BY <2>1, <2>3, <1>1, <1>2, EventTypes DEF MoneyEvent, AccountKind
  <2> QED BY <2>2, <2>3
<1>5. seen[w] = acc[a].version
  <2>1. ~VersionTaken(a, seen[w] + 1)
    BY <1>3 DEF SaveAccount, StoreAccountEvent, Conflicts
  <2>2. VersionOf(a) = acc[a].version /\ VersionOf(a) \in Nat
    BY <1>1 DEF VersionOf, AccountState
  <2> QED BY <2>1, <2>2, <1>1, FreeVersion DEF IInv, StoreInv
<1> QED BY <1>1, <1>3, <1>4, <1>5

\* Storing the money event of a leg preserves the invariant.
LEMMA SaveAccountOK ==
  ASSUME IInv, NEW w \in Worker, SaveAccount(w)
  PROVE  StepOK(w)
<1>1. MoneyEvent(w).version = acc[MoneyEvent(w).agg].version + 1
  BY SaveAccountDecided DEF MoneyEvent, AccountEvent
<1>2. StoreInv' /\ Grows
  BY <1>1, SaveAccountDecided, StoreAccount DEF SaveAccount, IInv
<1> QED BY <1>2, NextLegOK DEF SaveAccount

\* A failure that is not recorded yet.
LEMMA FailureOpenOK ==
  ASSUME IInv, NEW w \in Worker, FailureOpen(w)
  PROVE  StepOK(w)
<1>1. WorkerTypeOK' /\ \A u \in Worker \ {w} : SameWorker(u)
  BY DEF FailureOpen, GoTo, IInv, TypeOK, WorkerTypeOK, PC, SameWorker
<1>2. AccountOf(w) \in Account /\ at[w] \in DOMAIN log /\ Handled(log[at[w]])
  BY DEF FailureOpen, IInv, WorkerOK, AskedPC
<1>3. pc'[w] = "txGet" /\ UNCHANGED <<log, acc, tx, at, side, seen>>
  BY DEF FailureOpen, GoTo, IInv, TypeOK, storeVars
<1>4. WorkerOK(w)'
  BY <1>2, <1>3 DEF WorkerOK, AskedPC, AccountOf, Current, Handled
<1> QED BY <1>1, <1>4, MovesOK DEF FailureOpen, IInv, TypeOK, WorkerTypeOK

\* The retrieved version of the transaction was pending.
LEMMA RetrieveTransactionOK ==
  ASSUME IInv, NEW w \in Worker, RetrieveTransaction(w)
  PROVE  StepOK(w)
<1>1. /\ AccountOf(w) \in Account /\ at[w] \in DOMAIN log /\ Handled(log[at[w]])
      /\ tx[Current(w)] \in TransactionState /\ IsPending(tx[Current(w)])
  BY Busy DEF RetrieveTransaction, IInv, WorkerOK, AskedPC
<1>2. WorkerTypeOK' /\ \A u \in Worker \ {w} : SameWorker(u)
  BY <1>1 DEF RetrieveTransaction, GoTo, IInv, TypeOK, WorkerTypeOK, PC, SameWorker,
              TransactionState
<1>3. /\ pc'[w] = "txSave" /\ seen'[w] = tx[Current(w)].version
      /\ UNCHANGED <<log, acc, tx, at, side>>
  BY DEF RetrieveTransaction, GoTo, IInv, TypeOK, storeVars
<1>4. AccountOf(w)' = AccountOf(w) /\ Current(w)' = Current(w) /\ Handled(log[at[w]])'
  BY <1>1, <1>3 DEF AccountOf, Current, Handled
<1>5. tx[Current(w)].version \in Nat /\ IsPending(tx[Current(w)])'
  BY <1>1, <1>3, <1>4 DEF TransactionState, IsPending
<1>6. WorkerOK(w)'
  BY <1>1, <1>3, <1>4, <1>5 DEF WorkerOK
<1> QED BY <1>2, <1>6, MovesOK DEF RetrieveTransaction, IInv, TypeOK, WorkerTypeOK

\* The optimistic lock of the transaction: it is still pending when it fails.
LEMMA StoreRefusalDecided ==
  ASSUME IInv, NEW w \in Worker, StoreRefusal(w)
  PROVE  /\ Current(w) \in Tx /\ IsPending(tx[Current(w)])
         /\ FailureEvent(w) \in Event
         /\ FailureEvent(w).version = tx[Current(w)].version + 1
<1> DEFINE t == Current(w)
<1>1. /\ t \in Tx /\ tx[t] \in TransactionState
      /\ seen[w] \in Nat /\ seen[w] <= tx[t].version
      /\ seen[w] = tx[t].version => IsPending(tx[t])
  BY Busy DEF StoreRefusal, IInv, WorkerOK, TypeOK
<1>2. FailureEvent(w).agg = t /\ FailureEvent(w).version = seen[w] + 1
  BY DEF FailureEvent, TransactionEvent
<1>3. FailureEvent(w) \in Event
  <2>1. side[w] \in Leg \cup {"none"} /\ seen[w] + 1 \in Nat \ {0}
    BY <1>1 DEF IInv, TypeOK, Leg
  <2>2. NeedsRollback(tx[t], side[w]) \in BOOLEAN
    BY DEF NeedsRollback
  <2> QED BY <2>1, <2>2, <1>1, EventTypes DEF FailureEvent, TransactionKind
<1>4. seen[w] = tx[t].version
  <2>1. ~VersionTaken(t, seen[w] + 1)
    BY <1>2 DEF StoreRefusal, StoreTransactionEvent, Conflicts
  <2>2. VersionOf(t) = tx[t].version /\ VersionOf(t) \in Nat
    BY <1>1 DEF VersionOf, TransactionState
  <2> QED BY <2>1, <2>2, <1>1, FreeVersion DEF IInv, StoreInv
<1> QED BY <1>1, <1>2, <1>3, <1>4

\* The last calls of a handler.  Storing TransactionFailed keeps the store consistent.
LEMMA StoreRefusalOK ==
  ASSUME IInv, NEW w \in Worker, StoreRefusal(w)
  PROVE  StoreInv' /\ Grows
<1> DEFINE e == FailureEvent(w)
<1>1. /\ e \in Event /\ e.agg \in Tx /\ e.tx = e.agg /\ e.kind = "TransactionFailed"
      /\ e.version = tx[e.agg].version + 1
      /\ e.rollback = NeedsRollback(tx[e.agg], side[w])
  BY StoreRefusalDecided DEF FailureEvent, TransactionEvent
<1>2. tx[e.agg] \in TransactionState
  BY <1>1 DEF IInv, StoreInv, StoreTypeOK
<1>3. e.rollback => tx[e.agg].from \in Account
  BY <1>1, <1>2 DEF NeedsRollback, TransactionState, Party
<1>4. StoreTransactionEvent(e) /\ StoreInv
  BY DEF StoreRefusal, IInv
<1> HIDE DEF e
<1> QED BY <1>1, <1>3, <1>4, StoreTransaction DEF TransactionKind

\* So does the MongoDB transaction that completes the money transaction.
LEMMA SettleOK ==
  ASSUME IInv, NEW w \in Worker, Settle(w)
  PROVE  StoreInv' /\ Grows
<1> DEFINE t == Current(w)
           e == TransactionEvent("TransactionSucceeded", t, tx[t].version + 1, "none", FALSE)
<1>1. t \in Tx /\ tx[t] \in TransactionState
  BY Busy DEF Settle
<1>2. /\ e.agg = t /\ e.tx = t /\ e.kind = "TransactionSucceeded"
      /\ e.version = tx[t].version + 1 /\ e.rollback = FALSE
  BY DEF TransactionEvent
<1>3. e \in Event
  <2>1. tx[t].version + 1 \in Nat \ {0}
    BY <1>1 DEF TransactionState
  <2> QED BY <2>1, <1>1, EventTypes DEF TransactionKind
<1>4. CASE IsPending(tx[t])
  <2>1. StoreTransactionEvent(e) /\ StoreInv
    BY <1>4 DEF Settle, IInv
  <2> HIDE DEF e, t
  <2> QED BY <1>1, <1>2, <1>3, <2>1, StoreTransaction DEF TransactionKind
<1>5. CASE ~IsPending(tx[t])
  BY <1>5, StoreStutters DEF Settle, IInv
<1> QED BY <1>4, <1>5

\* The event of a refund is one for the source of the transaction.
LEMMA RefundEventOK ==
  ASSUME IInv, NEW w \in Worker, Refund(w)
  PROVE  /\ RefundEvent(w) \in Event
         /\ RefundEvent(w).agg = tx[Current(w)].from
         /\ RefundEvent(w).agg \in Account
         /\ RefundEvent(w).version = acc[RefundEvent(w).agg].version + 1
         /\ RefundEvent(w).kind = "MoneyDeposited"
         /\ RefundEvent(w).money = tx[Current(w)].money
<1> DEFINE t == Current(w)
           a == tx[t].from
<1>1. t \in Tx /\ tx[t] \in TransactionState /\ a \in Account /\ acc[a] \in AccountState
  BY Busy DEF Refund, IInv, StoreInv, StoreTypeOK
<1>2. acc[a].version + 1 \in Nat \ {0} /\ tx[t].money \in Amount \cup {0}
  BY <1>1 DEF AccountState, TransactionState
<1>3. RefundEvent(w) \in Event
  BY <1>1, <1>2, EventTypes DEF RefundEvent, AccountKind, Leg
<1> QED BY <1>1, <1>3 DEF RefundEvent, AccountEvent

\* So does the MongoDB transaction that gives the money back.
LEMMA RefundOK ==
  ASSUME IInv, NEW w \in Worker, Refund(w)
  PROVE  StoreInv' /\ Grows
<1>1. CASE ~HasIdempotencyKey(Current(w), "rollback")
  <2>1. StoreAccountEvent(RefundEvent(w)) /\ StoreInv
    BY <1>1 DEF Refund, IInv
  <2> QED BY <2>1, RefundEventOK, StoreAccount DEF AccountKind
<1>2. CASE HasIdempotencyKey(Current(w), "rollback")
  BY <1>2, StoreStutters DEF Refund, IInv
<1> QED BY <1>1, <1>2

\* Whether or not its answer arrives, the last call of a handler preserves the invariant.
LEMMA LastCallOK ==
  ASSUME IInv, NEW w \in Worker, Return(w) \/ ReturnError(w), faults' \in Nat,
         \/ StoreRefusal(w) /\ UNCHANGED token
         \/ Settle(w)
         \/ Refund(w)
  PROVE  StepOK(w)
<1>1. GoIdle(w) /\ cursor' \in [Worker -> Nat]
  BY ReturnCursor DEF Return, ReturnError, IInv
<1>2. token' \in Nat
  BY DEF Settle, Refund, IInv, TypeOK
<1>3. StoreInv' /\ Grows
  BY StoreRefusalOK, SettleOK, RefundOK
<1> QED BY <1>1, <1>2, <1>3, Ends

\* So do a redelivery, an error, a lost answer and a restart.
LEMMA FaultOK ==
  ASSUME IInv, NEW w \in Worker, Fault(w)
  PROVE  StepOK(w)
<1>1. CASE \E n \in DOMAIN log : Redeliver(w, n)
  BY <1>1, BeginOK DEF Redeliver, IInv, TypeOK
<1>2. CASE TransientError(w)
  BY <1>2, StopsOK DEF TransientError, IInv, TypeOK
<1>3. CASE AnswerLost(w)
  BY <1>3, LastCallOK DEF AnswerLost, IInv, TypeOK
<1>4. CASE Restart(w)
  <2>1. GoIdle(w) /\ cursor' \in [Worker -> Nat] /\ token' \in Nat /\ faults' \in Nat
    BY <1>4 DEF Restart, IInv, TypeOK
  <2>2. StoreInv' /\ Grows
    BY <1>4, StoreStutters DEF Restart, IInv
  <2> QED BY <2>1, <2>2, Ends
<1> QED BY <1>1, <1>2, <1>3, <1>4 DEF Fault

\* What a step of a worker can do to the store: one of four calls stores an event.
LEMMA StoreCalls ==
  ASSUME NEW w \in Worker, Work(w) \/ Fault(w)
  PROVE  \/ SaveAccount(w) \/ StoreRefusal(w) \/ Settle(w) \/ Refund(w)
         \/ UNCHANGED storeVars
<1>1. CASE AccountStep(w)
  BY <1>1 DEF AccountStep, LegDone, LegOpen, RetrieveAccount, UnknownAccount,
              AccountConflict
<1>2. CASE FailureStep(w)
  BY <1>2 DEF FailureStep, FailureRecorded, FailureOpen, RetrieveTransaction,
              AlreadySettled, SaveFailure, FailureConflict
<1>3. CASE Fault(w)
  BY <1>3 DEF Fault, Redeliver, Begin, TransientError, AnswerLost, Restart
<1> QED BY <1>1, <1>2, <1>3 DEF Work, Skip, Deliver, Begin, Complete, Rollback,
                                RollbackRefused

-------------------------------------------------------------------------------
(***************************************************************************)
(* The commands.                                                           *)
(***************************************************************************)
\* A command that stores something leaves what the workers know true.
LEMMA CommandKeepsWorkers ==
  ASSUME IInv, UNCHANGED <<token, workerVars, faults>>, StoreInv', Grows
  PROVE  IInv'
<1>1. WorkerTypeOK' /\ \A u \in Worker : SameWorker(u)
  BY DEF workerVars, IInv, TypeOK, WorkerTypeOK, SameWorker
<1>2. TypeOK'
  BY <1>1 DEF TypeOK, WorkerTypeOK, StoreInv
<1>3. ASSUME NEW u \in Worker PROVE WorkerOK(u)'
  BY <1>1, WorkerFrame DEF IInv
<1> QED BY <1>2, <1>3 DEF IInv

\* The first event of an account is stored under version 1.
LEMMA CreateAccountOK ==
  ASSUME IInv, NEW a \in Account, CreateAccount(a)
  PROVE  IInv' /\ Grows
<1> DEFINE e == AccountEvent("AccountCreated", a, 1, Nobody, "none", 0)
<1>1. e \in Event
  BY EventTypes DEF AccountKind
<1>2. e.agg = a /\ e.kind = "AccountCreated" /\ e.version = acc[a].version + 1
  BY DEF AccountEvent, CreateAccount
<1>3. StoreAccountEvent(e) /\ StoreInv
  BY DEF CreateAccount, IInv
<1> HIDE DEF e
<1>4. StoreInv' /\ Grows
  BY <1>1, <1>2, <1>3, StoreAccount DEF AccountKind
<1> QED BY <1>4, CommandKeepsWorkers DEF CreateAccount

\* An account that leaves OPEN does so in its next version.
LEMMA FreezeOK ==
  ASSUME IInv, NEW a \in Account, Freeze(a)
  PROVE  IInv' /\ Grows
<1> DEFINE e == AccountEvent("AccountFrozen", a, acc[a].version + 1, Nobody, "none", 0)
<1>1. e \in Event
  <2>1. acc[a].version + 1 \in Nat \ {0}
    BY DEF IInv, StoreInv, StoreTypeOK, AccountState
  <2> QED BY <2>1, EventTypes DEF AccountKind
<1>2. e.agg = a /\ e.kind = "AccountFrozen" /\ e.version = acc[a].version + 1
  BY DEF AccountEvent
<1>3. StoreAccountEvent(e) /\ StoreInv
  BY DEF Freeze, IInv
<1> HIDE DEF e
<1>4. StoreInv' /\ Grows
  BY <1>1, <1>2, <1>3, StoreAccount DEF AccountKind
<1> QED BY <1>4, CommandKeepsWorkers DEF Freeze

\* The first event of a transaction is stored under version 1.
LEMMA CreateTransactionOK ==
  ASSUME IInv, NEW t \in Tx, NEW from \in Party, NEW to \in Party, NEW money \in Amount,
         CreateTransaction(t, from, to, money)
  PROVE  IInv' /\ Grows
<1> DEFINE e == TransactionCreated(t, from, to, money)
<1>1. e \in Event
  BY EventTypes
<1>2. /\ e.agg = t /\ e.tx = t /\ e.kind = "TransactionCreated" /\ tx[t].version = 0
      /\ e.version = tx[t].version + 1
  BY DEF TransactionCreated, CreateTransaction
<1>3. StoreTransactionEvent(e) /\ StoreInv
  BY DEF CreateTransaction, IInv
<1> HIDE DEF e
<1>4. StoreInv' /\ Grows
  BY <1>1, <1>2, <1>3, StoreTransaction DEF TransactionKind
<1> QED BY <1>4, CommandKeepsWorkers DEF CreateTransaction

-------------------------------------------------------------------------------
(***************************************************************************)
(* The inductive invariant.                                                *)
(***************************************************************************)
\* Nothing is stored and every worker is idle.
LEMMA InitIInv == Init => IInv
<1> SUFFICES ASSUME Init PROVE IInv
  OBVIOUS
<1>1. NewAccount \in AccountState /\ NewTransaction \in TransactionState
  <2>1. 0 \in Int64
    BY DomainAssumption DEF Int64
  <2> QED BY <2>1 DEF NewAccount, NewTransaction, AccountState, TransactionState, Party
<1>2. StoreTypeOK /\ DOMAIN log = {}
  BY <1>1, EmptySeq DEF Init, StoreInit, StoreTypeOK
<1>3. TypeOK
  BY <1>2 DEF TypeOK, Init, PC
<1>4. LogOK
  BY <1>2 DEF LogOK
<1>5. Covered
  BY DEF Covered, VersionOf, Init, StoreInit, NewAccount, NewTransaction
<1>6. Unborn
  BY DEF Unborn, Init, StoreInit, NewTransaction
<1>7. ASSUME NEW w \in Worker PROVE WorkerOK(w)
  BY DEF WorkerOK, Init, AskedPC
<1> QED BY <1>2, <1>3, <1>4, <1>5, <1>6, <1>7 DEF IInv, StoreInv

\* Whatever a worker does by itself preserves the invariant.
LEMMA WorkOK ==
  ASSUME IInv, NEW w \in Worker, Work(w)
  PROVE  IInv' /\ Grows
<1>1. CASE Skip(w)
  BY <1>1, SkipOK
<1>2. CASE Deliver(w)
  BY <1>2, DeliverOK, StepPreserves
<1>3. CASE AccountStep(w)
  <2>1. CASE UnknownAccount(w) \/ AccountConflict(w)
    BY <2>1, StopsOK, StepPreserves DEF UnknownAccount, AccountConflict, IInv, TypeOK
  <2> QED BY <2>1, <1>3, StepPreserves, LegDoneOK, LegOpenOK, RetrieveAccountOK,
             SaveAccountOK DEF AccountStep
<1>4. CASE FailureStep(w)
  <2>1. CASE FailureRecorded(w) \/ AlreadySettled(w) \/ FailureConflict(w)
    BY <2>1, StopsOK, StepPreserves
       DEF FailureRecorded, AlreadySettled, FailureConflict, IInv, TypeOK
  <2>2. CASE SaveFailure(w)
    BY <2>2, LastCallOK, StepPreserves DEF SaveFailure, IInv, TypeOK
  <2> QED BY <2>1, <2>2, <1>4, StepPreserves, FailureOpenOK, RetrieveTransactionOK
          DEF FailureStep
<1>5. CASE Complete(w) \/ Rollback(w)
  BY <1>5, LastCallOK, StepPreserves DEF Complete, Rollback, IInv, TypeOK
<1>6. CASE RollbackRefused(w)
  BY <1>6, StopsOK, StepPreserves DEF RollbackRefused, IInv, TypeOK
<1> QED BY <1>1, <1>2, <1>3, <1>4, <1>5, <1>6 DEF Work

\* The invariant is inductive, and the store only grows.
LEMMA NextIInv == IInv /\ [Next]_vars => IInv' /\ Grows
<1> SUFFICES ASSUME IInv, [Next]_vars PROVE IInv' /\ Grows
  OBVIOUS
<1>1. CASE Command
  BY <1>1, CreateAccountOK, FreezeOK, CreateTransactionOK DEF Command
<1>2. ASSUME NEW w \in Worker, Work(w) PROVE IInv' /\ Grows
  BY <1>2, WorkOK
<1>3. ASSUME NEW w \in Worker, Fault(w) PROVE IInv' /\ Grows
  BY <1>3, FaultOK, StepPreserves
<1>4. CASE UNCHANGED vars
  BY <1>4, StoreStutters, CommandKeepsWorkers DEF vars, IInv
<1> QED BY <1>1, <1>2, <1>3, <1>4 DEF Next

\* The inductive invariant holds: stored versions are exactly 1..n, and a worker
\* about to store decided on a version that is not newer than the aggregate's.
THEOREM Invariance == Spec => []IInv
  BY InitIInv, NextIInv, PTL DEF Spec

\* Type correctness of the write side, for every value of the constants.
THEOREM TypeCorrect == Spec => []TypeOK
<1>1. IInv => TypeOK
  BY DEF IInv
<1> QED BY <1>1, Invariance, PTL

-------------------------------------------------------------------------------
(***************************************************************************)
(* No overdraft.                                                           *)
(***************************************************************************)
\* A sum within int64 is not wrapped.
LEMMA WrapIdentity ==
  \A n \in Int : -(MaxInt64 + 1) <= n /\ n <= MaxInt64 => Wrap(n) = n
BY DomainAssumption DEF Wrap

\* With headroom a deposit of a command's sum stays within int64.
LEMMA HeadroomBalance ==
  ASSUME Amount \subseteq Nat, Headroom, NEW a \in Account, NEW money \in Amount \cup {0},
         acc[a].balance \in Int64, acc[a].balance >= 0
  PROVE  /\ money \in Nat
         /\ Wrap(acc[a].balance + money) >= 0
<1>1. money \in Nat /\ acc[a].balance \in Int /\ acc[a].balance <= MaxInt64
  BY DomainAssumption DEF Int64
<1>2. acc[a].balance + money <= MaxInt64
  BY <1>1 DEF Headroom
<1>3. Wrap(acc[a].balance + money) = acc[a].balance + money
  BY <1>1, <1>2, WrapIdentity, DomainAssumption
<1> QED BY <1>1, <1>3

\* Storing an event overdraws no account if the event itself does not.
LEMMA StoredBalance ==
  ASSUME StoreInv, NoOverdraft, NEW e, e.agg \in Account, StoreAccountEvent(e),
         HandleAccountEvent(acc[e.agg], e).balance >= 0
  PROVE  NoOverdraft'
  BY DEF NoOverdraft, StoreAccountEvent, StoreInv, StoreTypeOK

\* A withdrawal is stored only on the balance it was decided on.
LEMMA SaveAccountBalance ==
  ASSUME Amount \subseteq Nat, IInv, NoOverdraft, Headroom, NEW w \in Worker,
         SaveAccount(w)
  PROVE  NoOverdraft'
<1> DEFINE a == AccountOf(w)
           money == tx[Current(w)].money
           e == MoneyEvent(w)
<1>1. a \in Account /\ Accepts(acc[a], side[w], money)
  BY SaveAccountDecided
<1>2. acc[a].balance \in Int64 /\ acc[a].balance >= 0
  BY <1>1 DEF IInv, StoreInv, StoreTypeOK, AccountState, NoOverdraft
<1>3. money \in Amount \cup {0}
  BY Busy DEF SaveAccount, TransactionState
<1>4. /\ e.agg = a /\ e.money = money
      /\ e.kind = IF side[w] = "withdraw" THEN "MoneyWithdrawn" ELSE "MoneyDeposited"
  BY DEF MoneyEvent, AccountEvent
<1>5. StoreAccountEvent(e) /\ StoreInv
  BY DEF SaveAccount, IInv
<1> HIDE DEF a, money, e
<1>6. money \in Nat /\ Wrap(acc[a].balance + money) >= 0
  BY <1>1, <1>2, <1>3, HeadroomBalance
<1>7. HandleAccountEvent(acc[a], e).balance >= 0
  <2>1. CASE side[w] = "withdraw"
    <3>1. acc[a].balance - money >= 0 /\ acc[a].balance - money <= MaxInt64
      BY <2>1, <1>1, <1>2, <1>6, DomainAssumption DEF Accepts, CanWithdraw, Int64
    <3>2. Wrap(acc[a].balance - money) >= 0
      BY <3>1, <1>2, <1>6, WrapIdentity, DomainAssumption DEF Int64
    <3> QED BY <2>1, <3>2, <1>4 DEF HandleAccountEvent
  <2>2. CASE side[w] # "withdraw"
    BY <2>2, <1>4, <1>6 DEF HandleAccountEvent
  <2> QED BY <2>1, <2>2
<1> QED BY <1>1, <1>4, <1>5, <1>7, StoredBalance

\* Giving back a sum that is not negative overdraws nobody.
LEMMA RefundBalance ==
  ASSUME Amount \subseteq Nat, IInv, NoOverdraft, Headroom, NEW w \in Worker,
         Refund(w)
  PROVE  NoOverdraft'
<1> DEFINE e == RefundEvent(w)
<1>1. /\ e.agg \in Account /\ e.kind = "MoneyDeposited" /\ e.money \in Amount \cup {0}
  BY RefundEventOK, Busy DEF Refund, TransactionState
<1>2. acc[e.agg].balance \in Int64 /\ acc[e.agg].balance >= 0
  BY <1>1 DEF IInv, StoreInv, StoreTypeOK, AccountState, NoOverdraft
<1>3. CASE HasIdempotencyKey(Current(w), "rollback")
  BY <1>3 DEF Refund, NoOverdraft, storeVars
<1>4. CASE ~HasIdempotencyKey(Current(w), "rollback")
  <2>1. StoreAccountEvent(e) /\ StoreInv
    BY <1>4 DEF Refund, IInv
  <2> HIDE DEF e
  <2>2. HandleAccountEvent(acc[e.agg], e).balance >= 0
    BY <1>1, <1>2, HeadroomBalance DEF HandleAccountEvent
  <2> QED BY <2>1, <2>2, <1>1, StoredBalance
<1> QED BY <1>3, <1>4

\* No command changes the balance of an account that exists.
LEMMA CommandBalance ==
  ASSUME IInv, NoOverdraft, Command
  PROVE  NoOverdraft'
<1>1. ASSUME NEW a \in Account, CreateAccount(a)
      PROVE  NoOverdraft'
  <2> DEFINE e == AccountEvent("AccountCreated", a, 1, Nobody, "none", 0)
  <2>1. StoreAccountEvent(e) /\ StoreInv /\ e.agg = a
    BY <1>1 DEF CreateAccount, IInv, AccountEvent
  <2>2. HandleAccountEvent(acc[a], e).balance >= 0
    BY DEF HandleAccountEvent, AccountEvent
  <2> QED BY <2>1, <2>2, StoredBalance
<1>2. ASSUME NEW a \in Account, Freeze(a)
      PROVE  NoOverdraft'
  <2> DEFINE e == AccountEvent("AccountFrozen", a, acc[a].version + 1, Nobody, "none", 0)
  <2>1. StoreAccountEvent(e) /\ StoreInv /\ e.agg = a
    BY <1>2 DEF Freeze, IInv, AccountEvent
  <2>2. HandleAccountEvent(acc[a], e).balance >= 0
    BY DEF HandleAccountEvent, AccountEvent, NoOverdraft
  <2> QED BY <2>1, <2>2, StoredBalance
<1>3. ASSUME NEW t \in Tx, NEW from \in Party, NEW to \in Party, NEW money \in Amount,
             CreateTransaction(t, from, to, money)
      PROVE  NoOverdraft'
  BY <1>3 DEF CreateTransaction, StoreTransactionEvent, NoOverdraft
<1> QED BY <1>1, <1>2, <1>3 DEF Command

\* No step of a worker overdraws an account.
LEMMA WorkerBalance ==
  ASSUME Amount \subseteq Nat, IInv, NoOverdraft, Headroom, NEW w \in Worker,
         Work(w) \/ Fault(w)
  PROVE  NoOverdraft'
<1>1. CASE StoreRefusal(w) \/ Settle(w) \/ UNCHANGED storeVars
  BY <1>1 DEF StoreRefusal, Settle, StoreTransactionEvent, storeVars, NoOverdraft
<1> QED BY <1>1, StoreCalls, SaveAccountBalance, RefundBalance

\* When commands move sums that are not negative and no deposit overflows, no
\* interleaving of any number of workers, redeliveries, errors and restarts
\* overdraws an account.
THEOREM NeverOverdrawn ==
  ASSUME Amount \subseteq Nat
  PROVE  Spec /\ []Headroom => []NoOverdraft
<1>1. Init => NoOverdraft
  <2>1. ASSUME Init, NEW a \in Account PROVE acc[a].balance >= 0
    BY <2>1 DEF Init, StoreInit, NewAccount
  <2> QED BY <2>1 DEF NoOverdraft
<1>2. IInv /\ Headroom /\ NoOverdraft /\ [Next]_vars => NoOverdraft'
  <2> SUFFICES ASSUME IInv, Headroom, NoOverdraft, [Next]_vars PROVE NoOverdraft'
    OBVIOUS
  <2>1. CASE UNCHANGED vars
    BY <2>1 DEF vars, storeVars, NoOverdraft
  <2> QED BY <2>1, CommandBalance, WorkerBalance DEF Next
<1> QED BY <1>1, <1>2, Invariance, PTL DEF Spec

\* Every step stores at most one event, and only a worker that stores its leg
\* stores a withdrawal.
LEMMA WithdrawalStep ==
  ASSUME IInv, [Next]_vars, NEW i \in DOMAIN log' \ DOMAIN log,
         log'[i].kind = "MoneyWithdrawn"
  PROVE  \E w \in Worker :
           SaveAccount(w) /\ side[w] = "withdraw" /\ log'[i] = MoneyEvent(w)
<1>1. ASSUME NEW e, log' = Append(log, e)
      PROVE  log'[i] = e
  BY <1>1, AppendProperties DEF IInv, StoreInv, StoreTypeOK
<1>2. ASSUME UNCHANGED log
      PROVE  FALSE
  BY <1>2
<1>3. ASSUME NEW a \in Account, CreateAccount(a) \/ Freeze(a)
      PROVE  FALSE
  BY <1>1, <1>3 DEF CreateAccount, Freeze, StoreAccountEvent, AccountEvent
<1>4. ASSUME NEW t \in Tx, NEW from \in Party, NEW to \in Party, NEW money \in Amount,
             CreateTransaction(t, from, to, money)
      PROVE  FALSE
  BY <1>1, <1>4 DEF CreateTransaction, StoreTransactionEvent, TransactionCreated
<1>5. ASSUME NEW w \in Worker, Work(w) \/ Fault(w), ~SaveAccount(w)
      PROVE  FALSE
  <2>1. CASE Refund(w)
    BY <2>1, <1>1, <1>2 DEF Refund, RefundEvent, StoreAccountEvent, AccountEvent, storeVars
  <2>2. CASE Settle(w)
    BY <2>2, <1>1, <1>2 DEF Settle, StoreTransactionEvent, TransactionEvent, storeVars
  <2>3. CASE StoreRefusal(w)
    BY <2>3, <1>1 DEF StoreRefusal, FailureEvent, StoreTransactionEvent, TransactionEvent
  <2> QED BY <1>5, <1>2, <2>1, <2>2, <2>3, StoreCalls DEF storeVars
<1>6. ASSUME NEW w \in Worker, SaveAccount(w)
      PROVE  side[w] = "withdraw" /\ log'[i] = MoneyEvent(w)
  BY <1>1, <1>6 DEF SaveAccount, StoreAccountEvent, MoneyEvent, AccountEvent
<1>7. ~UNCHANGED vars
  BY <1>2 DEF vars, storeVars
<1> QED BY <1>3, <1>4, <1>5, <1>6, <1>7 DEF Next, Command

\* Whatever the signs and sizes of the sums and whatever interleaves, a withdrawal
\* is stored only on a balance that covers it.
THEOREM NoUncoveredWithdrawal == Spec => WithdrawalsCovered
<1>1. ASSUME IInv, [Next]_vars, NEW i \in DOMAIN log' \ DOMAIN log,
             log'[i].kind = "MoneyWithdrawn"
      PROVE  \/ acc'[log'[i].agg].balance >= 0
             \/ acc[log'[i].agg].balance - log'[i].money > MaxInt64
  <2>1. PICK w \in Worker :
          SaveAccount(w) /\ side[w] = "withdraw" /\ log'[i] = MoneyEvent(w)
    BY <1>1, WithdrawalStep
  <2> DEFINE a == AccountOf(w)
             money == tx[Current(w)].money
             e == MoneyEvent(w)
  <2>2. a \in Account /\ CanWithdraw(acc[a], money)
    BY <1>1, <2>1, SaveAccountDecided DEF Accepts
  <2>3. acc[a].balance \in Int64 /\ money \in Int64
    <3>1. 0 \in Int64 /\ Amount \subseteq Int64
      BY DomainAssumption DEF Int64
    <3> QED BY <1>1, <2>1, <2>2, <3>1, Busy
            DEF SaveAccount, TransactionState, IInv, StoreInv, StoreTypeOK, AccountState
  <2>4. e.agg = a /\ e.money = money /\ e.kind = "MoneyWithdrawn"
    BY <2>1 DEF MoneyEvent, AccountEvent
  <2>5. StoreAccountEvent(e) /\ acc \in [Account -> AccountState]
    BY <1>1, <2>1 DEF SaveAccount, IInv, StoreInv, StoreTypeOK
  <2> HIDE DEF a, money, e
  <2>6. acc'[a].balance = Wrap(acc[a].balance - money)
    BY <2>2, <2>4, <2>5 DEF StoreAccountEvent, HandleAccountEvent
  <2>7. acc[a].balance - money >= 0 /\ acc[a].balance - money \in Int
    BY <2>2, <2>3, DomainAssumption DEF CanWithdraw, Int64
  <2>8. CASE acc[a].balance - money <= MaxInt64
    <3>1. Wrap(acc[a].balance - money) = acc[a].balance - money
      BY <2>7, <2>8, WrapIdentity, DomainAssumption
    <3> QED BY <2>1, <2>4, <2>6, <2>7, <3>1 DEF e
  <2>9. CASE acc[a].balance - money > MaxInt64
    BY <2>1, <2>4, <2>9 DEF e
  <2> QED BY <2>7, <2>8, <2>9, DomainAssumption
<1>2. IInv /\ [Next]_vars =>
        [\A i \in DOMAIN log' \ DOMAIN log : log'[i].kind = "MoneyWithdrawn" =>
           LET a == log'[i].agg IN
           \/ acc'[a].balance >= 0
           \/ acc[a].balance - log'[i].money > MaxInt64]_vars
  BY <1>1
<1> QED BY <1>2, Invariance, PTL DEF Spec, WithdrawalsCovered

-------------------------------------------------------------------------------
(***************************************************************************)
(* Outcomes are final.                                                     *)
(***************************************************************************)
Settled(t) == tx[t].status \in {"FAILED", "SUCCEEDED"}

\* No step changes the outcome of a transaction that has one.
LEMMA StepKeepsOutcome ==
  ASSUME IInv, [Next]_vars, NEW t \in Tx, Settled(t)
  PROVE  tx'[t].status = tx[t].status
<1> USE DEF Settled
<1>1. ASSUME NEW u \in Tx, NEW e, e.agg = u, StoreTransactionEvent(e), u # t
      PROVE  tx'[t] = tx[t]
  BY <1>1 DEF StoreTransactionEvent, IInv, StoreInv, StoreTypeOK
<1>2. ASSUME NEW u \in Tx, NEW from \in Party, NEW to \in Party, NEW money \in Amount,
             CreateTransaction(u, from, to, money)
      PROVE  tx'[t] = tx[t]
  <2>1. u # t
    BY <1>2 DEF CreateTransaction, IInv, StoreInv, Unborn
  <2> QED BY <2>1, <1>1, <1>2 DEF CreateTransaction, TransactionCreated
<1>3. ASSUME NEW w \in Worker, StoreRefusal(w)
      PROVE  tx'[t] = tx[t]
  <2>1. Current(w) \in Tx /\ Current(w) # t
    BY <1>3, StoreRefusalDecided DEF IsPending
  <2>2. FailureEvent(w).agg = Current(w)
    BY DEF FailureEvent, TransactionEvent
  <2> QED BY <2>1, <2>2, <1>1, <1>3 DEF StoreRefusal
<1>4. ASSUME NEW w \in Worker, Settle(w)
      PROVE  tx'[t] = tx[t]
  <2> DEFINE e == TransactionEvent("TransactionSucceeded", Current(w),
                                   tx[Current(w)].version + 1, "none", FALSE)
  <2>1. CASE IsPending(tx[Current(w)])
    <3>1. Current(w) \in Tx /\ Current(w) # t
      BY <2>1, <1>4, Busy DEF IsPending, Settle
    <3>2. e.agg = Current(w)
      BY DEF TransactionEvent
    <3>3. StoreTransactionEvent(e)
      BY <2>1, <1>4 DEF Settle
    <3> QED BY <3>1, <3>2, <3>3, <1>1
  <2>2. CASE ~IsPending(tx[Current(w)])
    BY <2>2, <1>4 DEF Settle, storeVars
  <2> QED BY <2>1, <2>2
<1>5. CASE Command
  BY <1>2, <1>5 DEF Command, CreateAccount, Freeze, StoreAccountEvent
<1>6. ASSUME NEW w \in Worker, Work(w) \/ Fault(w)
      PROVE  tx'[t] = tx[t]
  <2>1. CASE SaveAccount(w) \/ Refund(w)
    BY <2>1 DEF SaveAccount, Refund, StoreAccountEvent, storeVars
  <2> QED BY <2>1, <1>3, <1>4, <1>6, StoreCalls DEF storeVars
<1>7. CASE UNCHANGED vars
  BY <1>7 DEF vars, storeVars
<1> QED BY <1>5, <1>6, <1>7 DEF Next

\* Once a transaction has failed or succeeded, no late, duplicated or concurrent
\* handling of its events changes that.
THEOREM OutcomesAreFinal == Spec => OutcomeFinal
<1>1. IInv /\ [Next]_vars =>
        [\A t \in Tx : tx[t].status \in {"FAILED", "SUCCEEDED"} =>
           tx'[t].status = tx[t].status]_vars
  BY StepKeepsOutcome DEF Settled
<1> QED BY <1>1, Invariance, PTL DEF Spec, OutcomeFinal
===============================================================================
