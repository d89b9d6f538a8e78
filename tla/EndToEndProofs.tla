---------------------------- MODULE EndToEndProofs ----------------------------
(***************************************************************************)
(* The two sides together: the account service publishes what the          *)
(* projection was proved against, so what holds of the projection alone    *)
(* holds of the whole system, and the two services agree on every balance. *)
(*                                                                         *)
(* Events enter the log when an account accepts them and reach the bus     *)
(* later.  What was true of the account at the time is therefore kept as a *)
(* fact about the log (LogInv): each withdrawal is covered by the balance  *)
(* that the events before it add up to.                                    *)
(***************************************************************************)
EXTENDS EndToEnd, SequenceTheorems, TLAPS

\* The two sides again, with what was proved about them.
WP == INSTANCE VersionProofs

PP == INSTANCE ProjectionProofs WITH
  feed <- [i \in 1..sent |-> View(log[i])],
  Worker <- Projector, cursor <- place, pc <- step, at <- task,
  faults <- mishaps

-------------------------------------------------------------------------------
(***************************************************************************)
(* One specification under two names: EndToEnd is built from W and P, and  *)
(* what was proved is about WP and PP.                                     *)
(***************************************************************************)
\* The assumptions of the two sides are those of the system.
LEMMA WriteSideAssumptions == WP!DomainAssumption /\ WP!TransfersAssumption
BY EndToEndAssumption
   DEF WP!DomainAssumption, WP!TransfersAssumption, WP!Int64

\* Likewise for the read side.
LEMMA ReadSideAssumptions == PP!DomainAssumption /\ PP!ProjectionAssumption
BY EndToEndAssumption
   DEF PP!DomainAssumption, PP!ProjectionAssumption, PP!Int64

\* Both names of the write side's specification mean the same: expanded to the end,
\* they are the same formula.
LEMMA WriteSide == (W!Init <=> WP!Init) /\ (W!Next <=> WP!Next)
BY DEF
  W!Int64, WP!Int64, W!Width, WP!Width, W!Wrap, WP!Wrap, W!Party, WP!Party,
  W!AccountEvent, WP!AccountEvent, W!TransactionEvent, WP!TransactionEvent,
  W!TransactionCreated, WP!TransactionCreated, W!NewAccount, WP!NewAccount,
  W!HandleAccountEvent, WP!HandleAccountEvent, W!CanWithdraw, WP!CanWithdraw,
  W!CanDeposit, WP!CanDeposit, W!NewTransaction, WP!NewTransaction,
  W!HandleTransactionEvent, WP!HandleTransactionEvent, W!IsPending, WP!IsPending,
  W!NeedsRollback, WP!NeedsRollback, W!storeVars, WP!storeVars, W!StoreInit,
  WP!StoreInit, W!HasIdempotencyKey, WP!HasIdempotencyKey, W!VersionTaken,
  WP!VersionTaken, W!Conflicts, WP!Conflicts, W!StoreAccountEvent, WP!StoreAccountEvent,
  W!StoreTransactionEvent, WP!StoreTransactionEvent, W!workerVars, WP!workerVars,
  W!Init, WP!Init, W!CreateAccount, WP!CreateAccount, W!CreateTransaction,
  WP!CreateTransaction, W!Freeze, WP!Freeze, W!Handled, WP!Handled, W!Begin, WP!Begin,
  W!GoIdle, WP!GoIdle, W!Advance, WP!Advance, W!Return, WP!Return, W!ReturnError,
  WP!ReturnError, W!Skip, WP!Skip, W!Deliver, WP!Deliver, W!Redeliver, WP!Redeliver,
  W!Current, WP!Current, W!AccountOf, WP!AccountOf, W!NextLeg, WP!NextLeg, W!GoTo,
  WP!GoTo, W!LegDone, WP!LegDone, W!LegOpen, WP!LegOpen, W!Accepts, WP!Accepts,
  W!RetrieveAccount, WP!RetrieveAccount, W!UnknownAccount, WP!UnknownAccount,
  W!MoneyEvent, WP!MoneyEvent, W!SaveAccount, WP!SaveAccount, W!AccountConflict,
  WP!AccountConflict, W!FailureRecorded, WP!FailureRecorded, W!FailureOpen,
  WP!FailureOpen, W!RetrieveTransaction, WP!RetrieveTransaction, W!AlreadySettled,
  WP!AlreadySettled, W!FailureEvent, WP!FailureEvent, W!StoreRefusal, WP!StoreRefusal,
  W!SaveFailure, WP!SaveFailure, W!FailureConflict, WP!FailureConflict, W!Settle,
  WP!Settle, W!Complete, WP!Complete, W!Refundable, WP!Refundable, W!RefundEvent,
  WP!RefundEvent, W!Refund, WP!Refund, W!Rollback, WP!Rollback, W!RollbackRefused,
  WP!RollbackRefused, W!TransientError, WP!TransientError, W!AnswerLost, WP!AnswerLost,
  W!Restart, WP!Restart, W!Command, WP!Command,
  W!AccountStep, WP!AccountStep, W!FailureStep, WP!FailureStep, W!Work, WP!Work,
  W!Fault, WP!Fault, W!Next, WP!Next

\* Both names of what the read side computes mean the same.
LEMMA ReadSideData ==
  /\ P!Message = PP!Message
  /\ P!MaxSequence = PP!MaxSequence
  /\ \A a, n : P!Replay(a, n) = PP!Replay(a, n)
<1>1. P!Message = PP!Message
  BY DEF P!Message, PP!Message, P!Other, PP!Other
<1>2. P!MaxSequence = PP!MaxSequence
  BY DEF P!MaxSequence, PP!MaxSequence, P!Max, PP!Max
<1>3. ASSUME NEW a, NEW n PROVE P!Replay(a, n) = PP!Replay(a, n)
  BY DEF P!Replay, PP!Replay, P!Delta, PP!Delta, P!Wrap, PP!Wrap, P!Width, PP!Width
<1> QED BY <1>1, <1>2, <1>3

\* A message can follow the others under one name if it can under the other.
LEMMA ReadSidePublish == ASSUME NEW e PROVE P!Publish(e) <=> PP!Publish(e)
<1>1. P!CanFollow(e) <=> PP!CanFollow(e)
  BY ReadSideData DEF P!CanFollow, PP!CanFollow, P!EventsOf, PP!EventsOf
<1> QED BY <1>1 DEF P!Publish, PP!Publish, P!workerVars, PP!workerVars

\* The actions of the projection, one by one.
LEMMA ReadSideActions ==
  ASSUME NEW w
  PROVE  (P!Work(w) <=> PP!Work(w)) /\ (P!Fault(w) <=> PP!Fault(w))
           /\ (P!CleanIndex <=> PP!CleanIndex)
<1>1. P!Skip(w) <=> PP!Skip(w)
  BY ReadSideData
     DEF P!Skip, PP!Skip, P!IsAccountEvent, PP!IsAccountEvent
<1>2. P!Deliver(w) <=> PP!Deliver(w)
  BY ReadSideData
     DEF P!Deliver, PP!Deliver, P!Begin, PP!Begin, P!GoTo, PP!GoTo, P!IsAccountEvent,
         PP!IsAccountEvent
<1>3. P!IgnoreEvent(w) <=> PP!IgnoreEvent(w)
  BY ReadSideData
     DEF P!IgnoreEvent, PP!IgnoreEvent, P!Return, PP!Return, P!GoIdle, PP!GoIdle, P!Advance,
         PP!Advance
<1>4. P!AcceptEvent(w) <=> PP!AcceptEvent(w)
  BY ReadSideData
     DEF P!AcceptEvent, PP!AcceptEvent, P!GoTo, PP!GoTo
<1>5. P!CreateAccount(w) <=> PP!CreateAccount(w)
  BY ReadSideData
     DEF P!CreateAccount, PP!CreateAccount, P!GoTo, PP!GoTo, P!Subject, PP!Subject
<1>6. P!GetByID(w) <=> PP!GetByID(w)
  BY ReadSideData
     DEF P!GetByID, PP!GetByID, P!GoTo, PP!GoTo, P!Subject, PP!Subject, P!Known, PP!Known
<1>7. P!UnknownAggregate(w) <=> PP!UnknownAggregate(w)
  BY ReadSideData
     DEF P!UnknownAggregate, PP!UnknownAggregate, P!ReturnError, PP!ReturnError, P!GoIdle,
         PP!GoIdle, P!Advance, PP!Advance, P!Subject, PP!Subject, P!Known, PP!Known
<1>8. P!Update(w) <=> PP!Update(w)
  BY ReadSideData
     DEF P!Update, PP!Update, P!GoTo, PP!GoTo, P!Subject, PP!Subject, P!Merge, PP!Merge,
         P!Delta, PP!Delta, P!Wrap, PP!Wrap, P!Width, PP!Width
<1>9. P!SetStreamResumeToken(w) <=> PP!SetStreamResumeToken(w)
  BY ReadSideData
     DEF P!SetStreamResumeToken, PP!SetStreamResumeToken, P!Return, PP!Return, P!GoIdle,
         PP!GoIdle, P!Advance, PP!Advance
<1>10. P!TransientError(w) <=> PP!TransientError(w)
  BY ReadSideData
     DEF P!TransientError, PP!TransientError, P!ReturnError, PP!ReturnError, P!GoIdle,
         PP!GoIdle, P!Advance, PP!Advance
<1>11. P!Restart(w) <=> PP!Restart(w)
  BY ReadSideData
     DEF P!Restart, PP!Restart, P!GoIdle, PP!GoIdle
<1>12. P!CleanIndex <=> PP!CleanIndex
  BY ReadSideData
     DEF P!CleanIndex, PP!CleanIndex, P!NoDocument, PP!NoDocument
<1>13. ASSUME NEW n PROVE P!Redeliver(w, n) <=> PP!Redeliver(w, n)
  BY DEF P!Redeliver, PP!Redeliver, P!Begin, PP!Begin, P!GoTo, PP!GoTo, P!IsAccountEvent,
         PP!IsAccountEvent
<1> QED
  BY <1>1, <1>2, <1>3, <1>4, <1>5, <1>6, <1>7, <1>8, <1>9, <1>10, <1>11, <1>12, <1>13
     DEF P!Work, PP!Work, P!Handle, PP!Handle, P!Fault, PP!Fault

\* The specifications.
LEMMA ReadSide == (P!Init <=> PP!Init) /\ (P!Next <=> PP!Next)
<1>1. P!Init <=> PP!Init
  BY DEF P!Init, PP!Init, P!NoDocument, PP!NoDocument
<1>2. P!Next <=> PP!Next
  BY ReadSideData, ReadSidePublish, ReadSideActions
     DEF P!Next, PP!Next, P!PublishAny, PP!PublishAny
<1> QED BY <1>1, <1>2

-------------------------------------------------------------------------------
(***************************************************************************)
(* The log adds up to the balances of the accounts.                        *)
(***************************************************************************)
\* A log as the projection would see it, published or not.
Seen(events) == [i \in DOMAIN events |-> View(events[i])]

\* Account a's balance after the first n events of a log.
BalanceAt(events, a, n) == PP!BalanceOf(Seen(events), a, n)

\* A withdrawal is covered by the events before it.
IsCovered(events, i) ==
  events[i].agg \in Account /\ events[i].kind = "MoneyWithdrawn"
    => ~(BalanceAt(events, events[i].agg, i - 1) < events[i].money)

LogInv ==
  /\ sent \in Nat /\ sent <= Len(log)
  /\ \A a \in Account : acc[a].balance = BalanceAt(log, a, Len(log))
  /\ \A i \in DOMAIN log : IsCovered(log, i)

\* The balances of a log to which an event is added.
LEMMA BalancesAppended ==
  ASSUME NEW events \in Seq(WP!Event), NEW e \in WP!Event, NEW a \in Account
  PROVE  /\ \A n \in 0..Len(events) :
              BalanceAt(Append(events, e), a, n) = BalanceAt(events, a, n)
         /\ BalanceAt(Append(events, e), a, Len(events) + 1) =
              IF e.agg = a THEN PP!Wrap(BalanceAt(events, a, Len(events)) + PP!Delta(View(e)))
                           ELSE BalanceAt(events, a, Len(events))
<1> DEFINE longer == Append(events, e)
<1>1. /\ Len(events) \in Nat /\ DOMAIN events = 1..Len(events)
      /\ DOMAIN longer = 1..(Len(events) + 1) /\ longer[Len(events) + 1] = e
      /\ \A i \in 1..Len(events) : longer[i] = events[i]
  BY AppendProperties, LenProperties
<1> HIDE DEF longer
<1>2. ASSUME NEW n \in 0..Len(events)
      PROVE  BalanceAt(longer, a, n) = BalanceAt(events, a, n)
  <2>1. PP!Agree(Seen(longer), Seen(events), n)
    BY <1>1 DEF PP!Agree, Seen
  <2>2. n \in Nat
    BY <1>1
  <2> QED BY <2>1, <2>2, PP!BalancePrefix, ReadSideAssumptions DEF BalanceAt
<1>3. BalanceAt(longer, a, Len(events) + 1) =
        IF Seen(longer)[Len(events) + 1].agg = a
        THEN PP!Wrap(BalanceAt(longer, a, Len(events))
                       + PP!Delta(Seen(longer)[Len(events) + 1]))
        ELSE BalanceAt(longer, a, Len(events))
  <2>1. Len(events) + 1 \in Nat /\ Len(events) + 1 # 0 /\ (Len(events) + 1) - 1 = Len(events)
    BY <1>1
  <2> QED BY <2>1, PP!BalanceStep, ReadSideAssumptions DEF BalanceAt
<1>4. Seen(longer)[Len(events) + 1] = View(e)
  BY <1>1 DEF Seen
<1>5. View(e).agg = a <=> e.agg = a
  BY EndToEndAssumption DEF View
<1>6. Len(events) \in 0..Len(events)
  BY <1>1
<1> QED BY <1>2, <1>3, <1>4, <1>5, <1>6 DEF longer

\* The types of the store, from the write side's invariant.
LEMMA StoreTypes ==
  ASSUME WP!IInv
  PROVE  /\ log \in Seq(WP!Event) /\ Len(log) \in Nat /\ DOMAIN log = 1..Len(log)
         /\ acc \in [Account -> WP!AccountState]
         /\ \A a \in Account : acc[a].balance \in WP!Int64 /\ acc[a].version \in Nat
<1>1. log \in Seq(WP!Event) /\ acc \in [Account -> WP!AccountState]
  BY DEF WP!IInv, WP!StoreInv, WP!StoreTypeOK
<1>2. \A a \in Account : acc[a] \in WP!AccountState
  BY <1>1
<1> QED BY <1>1, <1>2, LenProperties DEF WP!AccountState

\* An event changes the balance of its account as it changes the projection's.
LEMMA SameSum ==
  ASSUME WP!IInv, WP!Stream, NEW e \in WP!Event, WP!StoresFor(e)
  PROVE  acc'[e.agg].balance = PP!Wrap(acc[e.agg].balance + PP!Delta(View(e)))
<1> DEFINE a == e.agg
<1>1. /\ a \in Account /\ e.kind \in WP!AccountKind
      /\ acc' = [acc EXCEPT ![a] = WP!HandleAccountEvent(acc[a], e)]
      /\ e.kind = "AccountCreated" => acc[a].version = 0 /\ e.money = 0
      /\ e.kind \in {"MoneyDeposited", "MoneyWithdrawn"} => e.money \in Amount
  BY DEF WP!StoresFor
<1>2. acc[a].balance \in WP!Int64 /\ acc'[a] = WP!HandleAccountEvent(acc[a], e)
  BY <1>1, StoreTypes
<1>3. acc[a].version = 0 => acc[a].balance = 0
  BY <1>1 DEF WP!Stream, WP!AccountKnown
<1>4. View(e).kind = e.kind /\ View(e).money = e.money
  BY <1>1 DEF View
<1>5. CASE e.kind = "AccountCreated"
  BY <1>1, <1>2, <1>3, <1>4, <1>5, EndToEndAssumption
     DEF WP!HandleAccountEvent, PP!Wrap, PP!Delta
<1>6. CASE e.kind = "MoneyDeposited"
  BY <1>1, <1>2, <1>4, <1>6
     DEF WP!HandleAccountEvent, WP!Wrap, WP!Width, PP!Wrap, PP!Width, PP!Delta
<1>7. CASE e.kind = "MoneyWithdrawn"
  <2>1. acc[a].balance - e.money = acc[a].balance + (-e.money)
    BY <1>1, <1>2, <1>7, EndToEndAssumption DEF WP!Int64
  <2> QED
    BY <1>1, <1>2, <1>4, <1>7, <2>1
       DEF WP!HandleAccountEvent, WP!Wrap, WP!Width, PP!Wrap, PP!Width, PP!Delta
<1>8. CASE e.kind = "AccountFrozen"
  BY <1>1, <1>2, <1>4, <1>8, EndToEndAssumption
     DEF WP!HandleAccountEvent, PP!Wrap, PP!Delta, WP!Int64
<1>9. e.kind \in {"AccountCreated", "MoneyDeposited", "MoneyWithdrawn", "AccountFrozen"}
  BY <1>1 DEF WP!AccountKind
<1> QED BY <1>5, <1>6, <1>7, <1>8, <1>9

\* The position of the forwarder.
SentStep == sent' = sent \/ (sent < Len(log) /\ sent' = sent + 1)

\* A log that grows by one event, accepted by its account, adds up as before.
LEMMA NextLogInv ==
  ASSUME WP!IInv, WP!Stream, LogInv, WP!StoresOne, SentStep
  PROVE  LogInv'
<1>0. sent \in Nat /\ sent <= Len(log) /\ Len(log) \in Nat /\ DOMAIN log = 1..Len(log)
  BY StoreTypes DEF LogInv
<1>1. CASE UNCHANGED <<acc, log>>
  <2>1. sent' \in Nat /\ sent' <= Len(log)
    BY <1>0 DEF SentStep
  <2> QED BY <1>1, <2>1 DEF LogInv, IsCovered, BalanceAt, Seen
<1>2. ASSUME NEW e \in WP!Event, log' = Append(log, e),
             \A a \in Account :
               acc'[a].balance = IF e.agg = a THEN PP!Wrap(acc[a].balance + PP!Delta(View(e)))
                                              ELSE acc[a].balance,
             e.agg \in Account /\ e.kind = "MoneyWithdrawn" => ~(acc[e.agg].balance < e.money)
      PROVE  LogInv'
  <2> DEFINE n == Len(log)
  <2>0. log \in Seq(WP!Event)
    BY StoreTypes
  <2>1. /\ Len(log') = n + 1 /\ DOMAIN log' = 1..(n + 1) /\ log'[n + 1] = e
        /\ \A i \in 1..n : log'[i] = log[i]
    BY <1>0, <1>2, <2>0, AppendProperties
  <2>2. \A a \in Account :
          /\ \A i \in 0..n : BalanceAt(log', a, i) = BalanceAt(log, a, i)
          /\ BalanceAt(log', a, n + 1) =
               IF e.agg = a THEN PP!Wrap(BalanceAt(log, a, n) + PP!Delta(View(e)))
                            ELSE BalanceAt(log, a, n)
    BY <1>2, <2>0, BalancesAppended, Zenon
  <2>3. sent' \in Nat /\ sent' <= n + 1
    BY <1>0 DEF SentStep
  <2>4. ASSUME NEW a \in Account PROVE acc'[a].balance = BalanceAt(log', a, n + 1)
    <3>1. acc[a].balance = BalanceAt(log, a, n)
      BY DEF LogInv
    <3> QED BY <1>2, <2>2, <3>1
  <2>5. ASSUME NEW i \in DOMAIN log' PROVE IsCovered(log', i)
    <3> SUFFICES ASSUME log'[i].agg \in Account, log'[i].kind = "MoneyWithdrawn"
                 PROVE  ~(BalanceAt(log', log'[i].agg, i - 1) < log'[i].money)
      BY DEF IsCovered
    <3>1. i - 1 \in 0..n
      BY <1>0, <2>1
    <3>2. CASE i \in 1..n
      <4>1. IsCovered(log, i)
        BY <1>0, <3>2 DEF LogInv
      <4> QED BY <2>1, <2>2, <3>1, <3>2, <4>1 DEF IsCovered
    <3>3. CASE i = n + 1
      <4>1. acc[e.agg].balance = BalanceAt(log, e.agg, n)
        BY <2>1, <3>3 DEF LogInv
      <4> QED BY <1>0, <1>2, <2>1, <2>2, <3>1, <3>3, <4>1
    <3> QED BY <1>0, <2>1, <3>2, <3>3
  <2> HIDE DEF n
  <2> QED BY <2>1, <2>3, <2>4, <2>5 DEF LogInv, IsCovered, BalanceAt, Seen
<1>3. ASSUME NEW e \in WP!Event, log' = Append(log, e), e.agg \in Tx, acc' = acc
      PROVE  LogInv'
  <2>1. e.agg \notin Account
    BY <1>3, EndToEndAssumption
  <2> QED BY <1>2, <1>3, <2>1
<1>4. ASSUME NEW e \in WP!Event, WP!StoresFor(e) PROVE LogInv'
  <2>1. \A a \in Account : a # e.agg => acc'[a].balance = acc[a].balance
    BY <1>4, StoreTypes DEF WP!StoresFor
  <2>2. acc'[e.agg].balance = PP!Wrap(acc[e.agg].balance + PP!Delta(View(e)))
    BY <1>4, SameSum
  <2> QED BY <1>2, <1>4, <2>1, <2>2 DEF WP!StoresFor
<1> QED BY <1>1, <1>3, <1>4 DEF WP!StoresOne, WP!StoresElse

-------------------------------------------------------------------------------
(***************************************************************************)
(* The whole system, step by step.                                         *)
(***************************************************************************)
\* A step of the system is one of the write side, or leaves it alone, and publishes
\* at most one event.
LEMMA WriteStep == [Next]_vars => [WP!Next]_(WP!vars) /\ SentStep
<1> SUFFICES ASSUME [Next]_vars PROVE [WP!Next]_(WP!vars) /\ SentStep
  OBVIOUS
<1>1. ASSUME UNCHANGED writeVars PROVE [WP!Next]_(WP!vars)
  <2>1. UNCHANGED WP!vars
    BY <1>1 DEF writeVars, WP!vars, WP!storeVars, WP!workerVars
  <2> QED BY <2>1
<1>2. CASE Request
  <2>1. W!Next /\ sent' = sent
    BY <1>2 DEF Request, W!Next
  <2> QED BY <2>1, WriteSide DEF SentStep
<1>3. CASE Forward
  <2>1. UNCHANGED writeVars /\ SentStep
    BY <1>3 DEF Forward, SentStep
  <2> QED BY <1>1, <2>1
<1>4. ASSUME NEW w \in Worker, ReactorStep(w) \/ ReactorFault(w)
      PROVE  [WP!Next]_(WP!vars) /\ SentStep
  <2>1. W!Next /\ sent' = sent
    BY <1>4 DEF ReactorStep, ReactorFault, W!Next
  <2> QED BY <2>1, WriteSide DEF SentStep
<1>5. CASE BalanceService
  <2>1. UNCHANGED writeVars /\ sent' = sent
    BY <1>5 DEF BalanceService, ProjectorFault, ProjectorStep
  <2> QED BY <1>1, <2>1 DEF SentStep
<1>6. CASE UNCHANGED vars
  <2>1. UNCHANGED writeVars /\ sent' = sent
    BY <1>6 DEF vars
  <2> QED BY <1>1, <2>1 DEF SentStep
<1> QED BY <1>2, <1>3, <1>4, <1>5, <1>6 DEF Next, AccountService

\* Whatever interleaves, the log adds up to the balances.
LEMMA LogInvariance == Spec => [](WP!IInv /\ WP!Stream /\ LogInv)
<1>1. Init => LogInv
  <2> SUFFICES ASSUME Init PROVE LogInv
    OBVIOUS
  <2>1. log = << >> /\ sent = 0 /\ \A a \in Account : acc[a].balance = 0
    BY WriteSide DEF Init, WP!Init, WP!StoreInit, WP!NewAccount
  <2>2. \A a \in Account : BalanceAt(log, a, 0) = 0
    BY PP!BalanceStep, ReadSideAssumptions DEF BalanceAt
  <2> QED BY <2>1, <2>2, EmptySeq DEF LogInv
<1>2. Spec => WP!Spec
  <2>1. Init => WP!Init
    BY WriteSide DEF Init
  <2>2. [Next]_vars => [WP!Next]_(WP!vars)
    BY WriteStep
  <2> QED BY <2>1, <2>2, PTL DEF Spec, WP!Spec
<1>3. WP!Spec => [](WP!IInv /\ WP!Stream)
  BY WP!StreamInvariance, WriteSideAssumptions
<1>4. WP!IInv /\ WP!Stream /\ LogInv /\ [Next]_vars => LogInv'
  <2> SUFFICES ASSUME WP!IInv, WP!Stream, LogInv, [Next]_vars PROVE LogInv'
    OBVIOUS
  <2>1. WP!StoresOne
    BY WriteStep, WP!NextStores, WriteSideAssumptions DEF WP!Stream
  <2> QED BY <2>1, WriteStep, NextLogInv
<1> QED BY <1>1, <1>2, <1>3, <1>4, PTL DEF Spec

-------------------------------------------------------------------------------
(***************************************************************************)
(* The account service publishes what the projection was proved against.   *)
(***************************************************************************)
Feed == [i \in 1..sent |-> View(log[i])]

\* What has been published is the beginning of the log.
LEMMA FeedIsPrefix ==
  ASSUME WP!IInv, LogInv
  PROVE  /\ sent \in Nat /\ sent <= Len(log) /\ Len(log) \in Nat
         /\ DOMAIN log = 1..Len(log) /\ DOMAIN Feed = 1..sent
         /\ Feed \in Seq({View(log[i]) : i \in 1..sent}) /\ Len(Feed) = sent
         /\ \A i \in 1..sent : Feed[i] = View(log[i]) /\ i \in DOMAIN log
         /\ \A a, n : n \in 0..sent => PP!BalanceOf(Feed, a, n) = BalanceAt(log, a, n)
<1>1. sent \in Nat /\ sent <= Len(log) /\ Len(log) \in Nat /\ DOMAIN log = 1..Len(log)
  BY StoreTypes DEF LogInv
<1>2. /\ DOMAIN Feed = 1..sent /\ \A i \in 1..sent : Feed[i] = View(log[i])
      /\ Feed \in Seq({View(log[i]) : i \in 1..sent})
  BY <1>1, IsASeq DEF Feed
<1>3. Len(Feed) = sent
  BY <1>1, <1>2, LenProperties
<1>4. ASSUME NEW a, NEW n \in 0..sent
      PROVE  PP!BalanceOf(Feed, a, n) = BalanceAt(log, a, n)
  <2>1. PP!Agree(Feed, Seen(log), n) /\ n \in Nat
    BY <1>1, <1>2 DEF PP!Agree, Seen
  <2> QED BY <2>1, PP!BalancePrefix, ReadSideAssumptions DEF BalanceAt
<1> QED BY <1>1, <1>2, <1>3, <1>4

\* The next event to be published is one that the projection may receive next.
LEMMA ForwardPublishes ==
  ASSUME Freezable = {}, WP!IInv, WP!Stream, LogInv, Len(log) <= FeedBound, Forward
  PROVE  P!Next
<1> DEFINE e == View(log[sent + 1])
           a == log[sent + 1].agg
<1>0. /\ sent \in Nat /\ sent < Len(log) /\ Len(log) \in Nat /\ sent + 1 \in DOMAIN log
      /\ DOMAIN log = 1..Len(log) /\ log \in Seq(WP!Event) /\ log[sent + 1] \in WP!Event
  <2>1. sent \in Nat /\ sent < Len(log) /\ Len(log) \in Nat /\ DOMAIN log = 1..Len(log)
        /\ log \in Seq(WP!Event)
    BY FeedIsPrefix, StoreTypes DEF Forward
  <2>2. sent + 1 \in DOMAIN log
    BY <2>1
  <2> QED BY <2>1, <2>2, ElementOfSeq
<1>1. WP!InOrder(log, sent + 1) /\ IsCovered(log, sent + 1)
  BY <1>0 DEF WP!Stream, LogInv
<1>2. e \in PP!Message
  <2>1. CASE a \notin Account
    BY <2>1 DEF View, PP!Message, PP!Other
  <2>2. CASE a \in Account
    <3>1. /\ log[sent + 1].kind \in {"AccountCreated", "MoneyDeposited", "MoneyWithdrawn"}
          /\ log[sent + 1].kind = "AccountCreated" => log[sent + 1].money = 0
          /\ log[sent + 1].kind # "AccountCreated" => log[sent + 1].money \in Amount
      BY <1>1, <2>2 DEF WP!InOrder, WP!AccountKind
    <3> QED BY <2>2, <3>1 DEF View, PP!Message
  <2> QED BY <2>1, <2>2
<1>3. PP!CanFollow(e)
  <2>1. CASE a \notin Account
    BY <2>1 DEF View, PP!CanFollow
  <2>2. CASE a \in Account
    <3>1. e.agg = a /\ e.kind = log[sent + 1].kind /\ e.money = log[sent + 1].money
      BY <2>2 DEF View
    <3>2. \A j \in 1..sent : Feed[j].agg = a <=> log[j].agg = a
      BY <2>2, FeedIsPrefix, EndToEndAssumption DEF View
    <3>3. PP!EventsOf(a, Len(Feed)) = {j \in 1..sent : log[j].agg = a}
      BY <3>2, FeedIsPrefix DEF PP!EventsOf, Feed
    <3>4. PP!Replay(a, Len(Feed)) = BalanceAt(log, a, sent)
      <4>1. PP!Replay(a, Len(Feed)) = PP!BalanceOf(Feed, a, sent)
        BY PP!ReplayIsBalance, ReadSideAssumptions, FeedIsPrefix DEF Feed
      <4>2. sent \in 0..sent
        BY <1>0
      <4> QED BY <4>1, <4>2, FeedIsPrefix
    <3>5. (sent + 1) - 1 = sent
      BY <1>0
    <3> HIDE DEF e, a
    <3>6. e.kind = "AccountCreated" => PP!EventsOf(a, Len(Feed)) = {}
      BY <1>1, <2>2, <3>1, <3>3, <3>5 DEF WP!InOrder, a
    <3>7. e.kind # "AccountCreated" => PP!EventsOf(a, Len(Feed)) # {}
      BY <1>1, <2>2, <3>1, <3>3, <3>5 DEF WP!InOrder, a
    <3>8. e.kind = "MoneyWithdrawn" => ~(PP!Replay(a, Len(Feed)) < e.money)
      BY <1>1, <2>2, <3>1, <3>4, <3>5 DEF IsCovered, a
    <3> QED BY <3>1, <3>6, <3>7, <3>8 DEF PP!CanFollow, Feed
  <2> QED BY <2>1, <2>2
<1>4. Len(Feed) < FeedBound /\ Feed' = Append(Feed, e)
  <2>1. Len(Feed) = sent /\ FeedBound \in Nat
    BY FeedIsPrefix, EndToEndAssumption
  <2>2. Feed' = [i \in 1..(sent + 1) |-> View(log[i])]
    BY DEF Forward, Feed, writeVars, View
  <2>3. Append(Feed, e) = [i \in 1..(sent + 1) |-> View(log[i])]
    BY <1>0, FeedIsPrefix, AppendProperties
  <2> QED BY <1>0, <2>1, <2>2, <2>3
<1>5. PP!Publish(e)
  BY <1>3, <1>4 DEF PP!Publish, PP!workerVars, Forward, readVars, Feed
<1>6. P!Publish(e) /\ e \in P!Message
  BY <1>2, <1>5, ReadSidePublish, ReadSideData
<1> QED BY <1>6 DEF P!Next, P!PublishAny

\* What the write side stores is not published yet.
LEMMA StoringIsUnseen ==
  ASSUME WP!IInv, LogInv, WP!StoresOne, UNCHANGED <<sent, readVars>>
  PROVE  UNCHANGED P!vars
<1>1. ASSUME NEW i \in 1..sent PROVE log'[i] = log[i]
  <2>1. log \in Seq(WP!Event) /\ i \in 1..Len(log)
    BY FeedIsPrefix, StoreTypes
  <2>2. ASSUME NEW e \in WP!Event, log' = Append(log, e) PROVE log'[i] = log[i]
    BY <2>1, <2>2, AppendProperties
  <2>3. log' = log \/ \E e \in WP!Event : log' = Append(log, e)
    BY DEF WP!StoresOne, WP!StoresElse, WP!StoresFor
  <2> QED BY <2>2, <2>3
<1>2. Feed' = Feed
  BY <1>1 DEF Feed, View
<1> QED BY <1>2 DEF Feed, P!vars, P!workerVars, readVars

\* Every step of the system is one of the read side, or unseen by it.
LEMMA ReadStep ==
  ASSUME Freezable = {}, WP!IInv, WP!Stream, LogInv, Len(log) <= FeedBound, [Next]_vars
  PROVE  [P!Next]_(P!vars)
<1>1. WP!StoresOne
  BY WriteStep, WP!NextStores, WriteSideAssumptions DEF WP!Stream
<1>2. CASE Request
  BY <1>1, <1>2, StoringIsUnseen DEF Request
<1>3. CASE Forward
  BY <1>3, ForwardPublishes
<1>4. ASSUME NEW w \in Worker, ReactorStep(w) \/ ReactorFault(w) PROVE UNCHANGED P!vars
  BY <1>1, <1>4, StoringIsUnseen DEF ReactorStep, ReactorFault
<1>5. CASE BalanceService
  BY <1>5 DEF BalanceService, ProjectorFault, ProjectorStep, P!Next
<1>6. CASE UNCHANGED vars
  BY <1>1, <1>6, StoringIsUnseen DEF vars
<1> QED BY <1>2, <1>3, <1>4, <1>5, <1>6 DEF Next, AccountService

\* With accounts that stay open, the whole system implements the projection's
\* specification: what the forwarder puts on the bus is a stream of messages such as
\* PublishAny invents there, in every execution that stores no more than FeedBound
\* events.
THEOREM SystemImplementsProjection ==
  ASSUME Freezable = {}
  PROVE  Spec /\ [](Len(log) <= FeedBound) => ImplementsProjection
<1>1. Init => P!Init
  BY DEF Init
<1>2. /\ WP!IInv /\ WP!Stream /\ LogInv /\ Len(log) <= FeedBound /\ [Next]_vars
      => [P!Next]_(P!vars)
  BY ReadStep
<1>3. Spec => [](WP!IInv /\ WP!Stream /\ LogInv)
  BY LogInvariance
<1> QED BY <1>1, <1>2, <1>3, PTL DEF Spec, ImplementsProjection, P!Spec

-------------------------------------------------------------------------------
(***************************************************************************)
(* The two services agree.                                                 *)
(***************************************************************************)
\* The last event of an account has the greatest position.
LEMMA LastEventIsLast ==
  ASSUME WP!IInv, NEW a \in Account
  PROVE  /\ LastEvent(a) \in 0..Len(log)
         /\ LastEvent(a) # 0 => LastEvent(a) \in DOMAIN log /\ log[LastEvent(a)].agg = a
         /\ \A i \in DOMAIN log : log[i].agg = a => i <= LastEvent(a)
<1> DEFINE S == {0} \cup {i \in DOMAIN log : log[i].agg = a}
<1>1. DOMAIN log = 1..Len(log) /\ Len(log) \in Nat
  BY StoreTypes
<1>2. S \in SUBSET Nat /\ S # {} /\ \A x \in S : x <= Len(log)
  BY <1>1
<1>3. PP!Max(S) \in S /\ \A x \in S : x <= PP!Max(S)
  <2> HIDE DEF S
  <2> QED BY <1>1, <1>2, PP!Greatest, ReadSideAssumptions
<1>4. LastEvent(a) = PP!Max(S)
  BY DEF LastEvent, Max, PP!Max
<1> QED BY <1>1, <1>3, <1>4

\* An account whose last event is in its document shows its balance there.
LEMMA DocumentsAgree ==
  ASSUME WP!IInv, WP!Stream, LogInv, PP!TypeInv, PP!AppliedOnce
  PROVE  AnswersAgree
<1> SUFFICES ASSUME NEW a \in Account, doc[a].sequence = LastEvent(a), ~P!Emptied(a, sent)
             PROVE  GetOne(a) = Balance(a)
  BY DEF AnswersAgree
<1> DEFINE n == LastEvent(a)
<1>0. DOMAIN log = 1..Len(log) /\ Len(log) \in Nat /\ acc[a].version \in Nat
  BY StoreTypes
<1>1. WP!AccountKnown(a)
  BY DEF WP!Stream
<1>2. CASE n = 0
  <2>1. acc[a].version = 0
    BY <1>0, <1>1, <1>2, LastEventIsLast DEF WP!AccountKnown
  <2> QED BY <1>2, <2>1 DEF GetOne, Balance, P!Known
<1>3. CASE n # 0
  <2>1. n \in DOMAIN log /\ log[n].agg = a
    BY <1>3, LastEventIsLast
  <2>2. acc[a].version # 0
    BY <1>0, <1>1, <2>1 DEF WP!AccountKnown
  <2>3. doc[a].balance = acc[a].balance
    <3>0. sent \in Nat /\ n \in Nat
      BY <1>0, <2>1 DEF LogInv
    <3>1. n <= sent
      BY <3>0, FeedIsPrefix DEF PP!TypeInv, Feed
    <3>2. ~PP!Emptied(a, n)
      <4>1. ~PP!Emptied(a, sent)
        BY ReadSideData DEF P!Emptied, PP!Emptied, P!EventsOf, PP!EventsOf
      <4> QED BY <3>0, <3>1, <4>1, PP!EmptiedStays, ReadSideAssumptions
    <3>3. doc[a].balance = PP!BalanceOf(Feed, a, n)
      <4>1. doc[a].balance = PP!Replay(a, n)
        BY <3>2 DEF PP!AppliedOnce
      <4> QED BY <4>1, PP!ReplayIsBalance, ReadSideAssumptions DEF Feed
    <3>4. BalanceAt(log, a, n) = BalanceAt(log, a, Len(log))
      <4>1. ASSUME NEW i \in (n + 1)..Len(log) PROVE Seen(log)[i].agg # a
        <5>1. i \in DOMAIN log /\ ~(i <= n)
          BY <1>0, <3>0
        <5>2. log[i].agg # a
          BY <5>1, LastEventIsLast
        <5> QED BY <5>1, <5>2, EndToEndAssumption DEF Seen, View
      <4>2. n <= Len(log)
        BY <1>0, <2>1
      <4> HIDE DEF n
      <4> QED BY <1>0, <3>0, <4>1, <4>2, PP!BalanceStays, ReadSideAssumptions DEF BalanceAt
    <3>5. n \in 0..sent
      BY <3>0, <3>1
    <3> QED BY <3>3, <3>4, <3>5, FeedIsPrefix DEF LogInv
  <2> QED BY <1>3, <2>2, <2>3 DEF GetOne, Balance, P!Known
<1> QED BY <1>2, <1>3

\* With accounts that stay open and one projection worker that retries in order, both
\* services give the same answer about an account once its last event is in its
\* document, unless its balance has been zero: whatever the reactor's workers, the
\* forwarder, the projection and their faults do in between.
THEOREM ServicesAgree ==
  ASSUME Freezable = {}, \A u, v \in Projector : u = v, OrderedRetry
  PROVE  Spec /\ [](Len(log) <= FeedBound) => []AnswersAgree
<1>1. P!Spec => PP!Spec
  <2>1. P!Init => PP!Init
    BY ReadSide
  <2>2. [P!Next]_(P!vars) => [PP!Next]_(PP!vars)
    BY ReadSide DEF P!vars, PP!vars, P!workerVars, PP!workerVars
  <2> QED BY <2>1, <2>2, PTL DEF P!Spec, PP!Spec
<1>2. PP!Spec => []PP!TypeInv
  BY PP!TypeInvariance, ReadSideAssumptions
<1>3. PP!Spec => []PP!AppliedOnce
  BY PP!EventsAreAppliedOnce, ReadSideAssumptions DEF PP!OneWorker
<1>4. Spec => [](WP!IInv /\ WP!Stream /\ LogInv)
  BY LogInvariance
<1>5. Spec /\ [](Len(log) <= FeedBound) => P!Spec
  BY SystemImplementsProjection DEF ImplementsProjection
<1>6. WP!IInv /\ WP!Stream /\ LogInv /\ PP!TypeInv /\ PP!AppliedOnce => AnswersAgree
  BY DocumentsAgree
<1> QED BY <1>1, <1>2, <1>3, <1>4, <1>5, <1>6, PTL
===============================================================================
