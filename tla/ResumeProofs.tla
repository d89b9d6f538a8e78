------------------------------ MODULE ResumeProofs -----------------------------
(***************************************************************************)
(* The resume token misses nothing: with one worker and ordered retries,   *)
(* everything up to the token is done.  With two workers it is false: the  *)
(* one that stores the token does not wait for the other.                  *)
(*                                                                         *)
(* The argument is that the cursor of the worker moves past an event only  *)
(* when the event is done or nothing has to be done for it.  The one       *)
(* return that could break this is FailureRecorded, which acknowledges an  *)
(* event because the key of its leg exists: alone, the worker has just     *)
(* seen that it does not.                                                  *)
(***************************************************************************)
EXTENDS LegProofs

USE DomainAssumption, TransfersAssumption

\* Everything up to position n is done.
AllDone(n) ==
  /\ n <= Len(log)
  /\ \A i \in DOMAIN log : i <= n /\ Handled(log[i]) => Done(log[i])

ResumeOK(w) ==
  /\ AllDone(cursor[w])
  /\ pc[w] # "idle" => at[w] <= cursor[w] + 1
  /\ pc[w] \notin {"idle", "rollback"} => log[at[w]].kind = "TransactionCreated"
  /\ pc[w] \in AskedPC => ~Keyed(Current(w), side[w])

ResumeInv == AllDone(token) /\ \A w \in Worker : ResumeOK(w)

-------------------------------------------------------------------------------
(***************************************************************************)
(* What is done stays done.                                                *)
(***************************************************************************)
\* An event of a placed transaction is done when the transaction has an outcome.
LEMMA DoneMeans ==
  ASSUME IInv, LegInv, NEW i \in DOMAIN log, Handled(log[i]), NEW t, t = log[i].tx
  PROVE  /\ t \in Tx
         /\ log[i].kind = "TransactionCreated" => (Done(log[i]) <=> Settled(t))
         /\ log[i].kind # "TransactionCreated" => (Done(log[i]) <=> AppliedLeg(t, "rollback"))
<1>1. t \in Tx /\ tx[t] \in TransactionState /\ tx[t].version > 0
  BY HandledEvent DEF IInv
<1>2. tx[t].status \in {"PENDING", "FAILED", "SUCCEEDED"}
  BY <1>1 DEF LegInv, TransactionOK, TransactionState
<1> QED BY <1>1, <1>2 DEF Done, Settled, IsPending

\* An outcome is final and an event that is stored stays stored.
LEMMA DoneStays ==
  ASSUME IInv, LegInv, [Next]_vars, NEW i \in DOMAIN log, Handled(log[i]), Done(log[i])
  PROVE  Done(log[i])'
<1>1. PICK t : t = log[i].tx
  OBVIOUS
<1>2. log'[i] = log[i]
  BY NextIInv DEF Grows
<1>3. CASE log[i].kind = "TransactionCreated"
  <2>1. t \in Tx /\ Settled(t)
    BY <1>1, <1>3, DoneMeans
  <2>2. tx'[t].status = tx[t].status
    BY <2>1, StepKeepsOutcome
  <2> QED BY <1>1, <1>2, <1>3, <2>1, <2>2 DEF Done, Settled, IsPending
<1>4. CASE log[i].kind # "TransactionCreated"
  <2>1. AppliedLeg(t, "rollback")
    BY <1>1, <1>4, DoneMeans
  <2>2. AppliedLeg(t, "rollback")'
    BY <2>1, NextIInv DEF Grows, AppliedLeg
  <2> QED BY <1>1, <1>2, <1>4, <2>2 DEF Done
<1> QED BY <1>3, <1>4

\* Whatever is stored next comes after position n.
LEMMA AllDoneStays ==
  ASSUME IInv, LegInv, [Next]_vars, NEW n \in Nat, AllDone(n)
  PROVE  AllDone(n)'
<1>1. /\ DOMAIN log = 1..Len(log) /\ Len(log) \in Nat
      /\ DOMAIN log' = 1..Len(log') /\ Len(log') \in Nat
  BY NextIInv, LenProperties DEF IInv, StoreInv, StoreTypeOK
<1>2. \A i \in DOMAIN log : i \in DOMAIN log' /\ log'[i] = log[i]
  BY NextIInv DEF Grows
<1>3. Len(log) <= Len(log')
  BY <1>1, <1>2
<1>4. ASSUME NEW i \in DOMAIN log', i <= n, Handled(log'[i])
      PROVE  Done(log[i])'
  <2>1. i \in DOMAIN log /\ Handled(log[i])
    BY <1>1, <1>2, <1>4 DEF AllDone
  <2> QED BY <1>4, <2>1, DoneStays DEF AllDone
<1> QED BY <1>1, <1>3, <1>4 DEF AllDone, Handled

\* One more event that is done.
LEMMA AllDoneExtends ==
  ASSUME IInv, [Next]_vars, NEW n \in Nat, AllDone(n)', NEW m \in DOMAIN log, m <= n + 1,
         Handled(log'[m]) => Done(log[m])'
  PROVE  AllDone(m)'
<1>1. DOMAIN log' = 1..Len(log') /\ Len(log') \in Nat
  BY NextIInv, LenProperties DEF IInv, StoreInv, StoreTypeOK
<1>2. m \in DOMAIN log'
  BY NextIInv DEF Grows
<1>3. ASSUME NEW i \in DOMAIN log', i <= m, Handled(log'[i])
      PROVE  Done(log[i])'
  <2>1. CASE i = m
    BY <1>3, <2>1
  <2>2. CASE i # m
    <3>1. i <= n
      BY <1>1, <1>2, <1>3, <2>2
    <3> QED BY <1>3, <3>1 DEF AllDone, Handled
  <2> QED BY <2>1, <2>2
<1> QED BY <1>1, <1>2, <1>3 DEF AllDone, Handled

-------------------------------------------------------------------------------
(***************************************************************************)
(* What a worker acknowledges is done.                                     *)
(***************************************************************************)
\* The steps that acknowledge an event.
LEMMA AcknowledgedDone ==
  ASSUME IInv, LegInv, NEW w \in Worker, ResumeOK(w), [Next]_vars,
         FailureRecorded(w) \/ AlreadySettled(w) \/ StoreRefusal(w) \/ Settle(w) \/ Refund(w),
         NEW i, i = at[w]
  PROVE  Done(log[i])'
<1>1. PICK t, l : t = Current(w) /\ l = side[w]
  OBVIOUS
<1>2. /\ i \in DOMAIN log /\ Handled(log[i]) /\ t \in Tx /\ log[i].tx = t
      /\ tx[t] \in TransactionState /\ tx[t].version > 0
  BY <1>1, Busy DEF FailureRecorded, AlreadySettled, StoreRefusal, Settle, Refund, Current
<1>3. log'[i] = log[i]
  BY <1>2, NextIInv DEF Grows
<1>4. CASE FailureRecorded(w)
  <2>1. ~Keyed(t, l)
    BY <1>1, <1>4 DEF FailureRecorded, ResumeOK, AskedPC
  <2>2. Keyed(t, l)
    BY <1>1, <1>4, KeyStored DEF FailureRecorded, IInv, StoreInv
  <2> QED BY <2>1, <2>2
<1>5. CASE AlreadySettled(w)
  <2>1. log[i].kind = "TransactionCreated" /\ Done(log[i])
    BY <1>1, <1>2, <1>5 DEF AlreadySettled, ResumeOK, Done
  <2> QED BY <1>1, <1>2, <2>1, DoneStays DEF AlreadySettled
<1>6. CASE StoreRefusal(w)
  <2>1. log[i].kind = "TransactionCreated"
    BY <1>1, <1>6 DEF StoreRefusal, ResumeOK
  <2>2. tx'[t].status = "FAILED"
    <3>1. LegRefused(t, l)
      BY <1>1, <1>6, StoreRefusalLegs
    <3> QED BY <3>1, <1>2 DEF LegRefused, TransactionState
  <2> QED BY <1>1, <1>2, <1>3, <2>1, <2>2 DEF Done, IsPending
<1>7. CASE Settle(w)
  <2>1. log[i].kind = "TransactionCreated"
    BY <1>1, <1>7 DEF Settle, ResumeOK
  <2>2. tx'[t].status # "PENDING"
    <3>1. CASE IsPending(tx[t])
      <4>1. tx' = [tx EXCEPT ![t] = [tx[t] EXCEPT !.version = tx[t].version + 1,
                                                  !.status = "SUCCEEDED"]]
        BY <1>1, <1>7, <3>1, SettleLegs
      <4> QED BY <4>1, <1>2 DEF IInv, StoreInv, StoreTypeOK, TransactionState
    <3>2. CASE ~IsPending(tx[t])
      BY <1>1, <1>7, <3>2 DEF Settle, storeVars, IsPending
    <3> QED BY <3>1, <3>2
  <2> QED BY <1>1, <1>2, <1>3, <2>1, <2>2 DEF Done, IsPending
<1>8. CASE Refund(w)
  <2>1. log[i].kind = "TransactionFailed"
    BY <1>1, <1>8 DEF Refund, IInv, WorkerOK
  <2>2. AppliedLeg(t, "rollback")'
    <3>1. CASE ~HasIdempotencyKey(t, "rollback")
      <4>1. LegApplied(t, "rollback")
        BY <1>1, <1>8, <3>1, RefundLegs
      <4> QED BY <4>1 DEF LegApplied, Leg
    <3>2. CASE HasIdempotencyKey(t, "rollback")
      <4>1. AppliedLeg(t, "rollback")
        BY <1>2, <3>2, KeyStored DEF IInv, StoreInv, Keyed, LegInv, TransactionOK
      <4> QED BY <1>1, <1>8, <3>2, <4>1 DEF Refund, storeVars, AppliedLeg
    <3> QED BY <3>1, <3>2
  <2> QED BY <1>1, <1>2, <1>3, <2>1, <2>2 DEF Done
<1> QED BY <1>4, <1>5, <1>6, <1>7, <1>8

\* The position a worker comes to by returning, with or without an error, and the
\* token it may store, are done.
LEMMA ReturnAllDone ==
  ASSUME IInv, LegInv, [Next]_vars, NEW w \in Worker, ResumeOK(w), pc[w] # "idle",
         Advance(w) \/ UNCHANGED cursor, NEW i, i = at[w], Done(log[i])'
  PROVE  AllDone(cursor[w])' /\ AllDone(i)'
<1>1. PICK c : c = cursor[w]
  OBVIOUS
<1>2. c \in Nat /\ i \in DOMAIN log /\ i \in Nat /\ i <= c + 1
  BY <1>1, Busy DEF IInv, TypeOK, ResumeOK
<1>3. AllDone(c)'
  BY <1>1, <1>2, AllDoneStays DEF ResumeOK
<1>4. AllDone(i)'
  BY <1>2, <1>3, AllDoneExtends
<1>5. cursor'[w] = c \/ cursor'[w] = i
  BY <1>1 DEF Advance, IInv, TypeOK
<1> QED BY <1>3, <1>4, <1>5 DEF AllDone

\* A worker that ends its handler has nothing to show but its cursor.
LEMMA IdleResume ==
  ASSUME IInv, NEW w \in Worker, GoIdle(w), AllDone(cursor[w])'
  PROVE  ResumeOK(w)'
<1>1. pc'[w] = "idle"
  BY DEF GoIdle, IInv, TypeOK
<1> QED BY <1>1 DEF ResumeOK, AskedPC

\* A worker that goes on within the handler of TransactionCreated: what it knows of
\* the key stays true when nothing is stored.
LEMMA MoveResume ==
  ASSUME IInv, LegInv, [Next]_vars, NEW w \in Worker, ResumeOK(w), pc[w] # "idle",
         at'[w] = at[w], cursor'[w] = cursor[w], pc[w] # "rollback",
         pc'[w] \in AskedPC => ~Keyed(Current(w), side[w])'
  PROVE  ResumeOK(w)'
<1>1. PICK c, i : c = cursor[w] /\ i = at[w]
  OBVIOUS
<1>2. c \in Nat /\ i \in DOMAIN log /\ log'[i] = log[i] /\ i <= c + 1
  BY <1>1, Busy, NextIInv DEF IInv, TypeOK, ResumeOK, Grows
<1>3. AllDone(c)'
  BY <1>1, <1>2, AllDoneStays DEF ResumeOK
<1>4. AllDone(cursor[w])' /\ (log[at[w]].kind = "TransactionCreated")'
  BY <1>1, <1>2, <1>3 DEF AllDone, ResumeOK
<1> QED BY <1>1, <1>2, <1>4 DEF ResumeOK

\* The steps that take up an event, or go past one that needs no handling.
LEMMA DeliveryResume ==
  ASSUME IInv, LegInv, [Next]_vars, NEW w \in Worker, ResumeOK(w),
         Skip(w) \/ Deliver(w) \/ \E n \in DOMAIN log : Redeliver(w, n)
  PROVE  ResumeOK(w)'
<1>1. PICK c : c = cursor[w]
  OBVIOUS
<1>2. c \in Nat /\ DOMAIN log = 1..Len(log) /\ Len(log) \in Nat
  BY <1>1, LenProperties DEF IInv, TypeOK, StoreInv, StoreTypeOK
<1>3. AllDone(c)'
  BY <1>1, <1>2, AllDoneStays DEF ResumeOK
<1>4. CASE Skip(w)
  <2>1. c + 1 \in DOMAIN log /\ ~Handled(log[c + 1]) /\ log' = log
    BY <1>1, <1>2, <1>4 DEF Skip, storeVars
  <2>2. AllDone(c + 1)'
    BY <1>2, <1>3, <2>1, AllDoneExtends
  <2>3. cursor'[w] = c + 1 /\ pc'[w] = "idle"
    BY <1>1, <1>4 DEF Skip, IInv, TypeOK
  <2> QED BY <2>2, <2>3 DEF ResumeOK, AllDone, AskedPC
<1>5. ASSUME NEW n \in DOMAIN log, n <= c + 1, Handled(log[n]), Begin(w, n)
      PROVE  ResumeOK(w)'
  <2>1. /\ at'[w] = n /\ cursor'[w] = c /\ log' = log
        /\ pc'[w] = IF log[n].kind = "TransactionCreated" THEN "accHas" ELSE "rollback"
    BY <1>1, <1>5 DEF Begin, IInv, TypeOK, storeVars
  <2>2. AllDone(cursor[w])'
    BY <1>3, <2>1 DEF AllDone
  <2> QED BY <1>5, <2>1, <2>2 DEF ResumeOK, AskedPC
<1>6. CASE Deliver(w)
  BY <1>1, <1>2, <1>5, <1>6 DEF Deliver
<1>7. CASE \E n \in DOMAIN log : Redeliver(w, n)
  BY <1>1, <1>2, <1>5, <1>7 DEF Redeliver
<1> QED BY <1>4, <1>6, <1>7

\* The token stays where it is, or moves to an event that is done.
LEMMA TokenStays ==
  ASSUME IInv, LegInv, [Next]_vars, AllDone(token), token' = token
  PROVE  AllDone(token)'
<1>1. PICK k : k = token
  OBVIOUS
<1>2. AllDone(k)'
  BY <1>1, AllDoneStays DEF IInv, TypeOK
<1> QED BY <1>1, <1>2 DEF AllDone

\* Every step of the worker leaves the token and its cursor behind what is done.
LEMMA WorkerResume ==
  ASSUME OrderedRetry, IInv, LegInv, [Next]_vars, NEW w \in Worker, ResumeOK(w),
         AllDone(token), Work(w) \/ Fault(w)
  PROVE  ResumeOK(w)' /\ AllDone(token)'
<1>1. CASE Skip(w) \/ Deliver(w) \/ \E n \in DOMAIN log : Redeliver(w, n)
  <2>1. token' = token
    BY <1>1 DEF Skip, Deliver, Redeliver, Begin
  <2> QED BY <1>1, <2>1, DeliveryResume, TokenStays
<1>2. CASE LegDone(w) \/ SaveAccount(w)
  <2>1. /\ token' = token /\ at'[w] = at[w] /\ cursor'[w] = cursor[w]
        /\ pc[w] \in {"accHas", "accSave"} /\ pc'[w] \in {"accHas", "complete"}
    BY <1>2 DEF LegDone, SaveAccount, NextLeg, IInv, TypeOK
  <2> QED BY <2>1, MoveResume, TokenStays DEF AskedPC
<1>3. CASE LegOpen(w) \/ RetrieveAccount(w) \/ FailureOpen(w) \/ RetrieveTransaction(w)
  <2>1. /\ token' = token /\ at' = at /\ side' = side /\ cursor' = cursor /\ log' = log
        /\ pc[w] \in {"accHas", "accGet", "txHas", "txGet"}
    BY <1>3 DEF LegOpen, RetrieveAccount, FailureOpen, RetrieveTransaction, storeVars
  <2>2. ~Keyed(Current(w), side[w])
    <3>1. CASE LegOpen(w)
      BY <3>1, KeyStored DEF LegOpen, IInv, StoreInv
    <3>2. CASE ~LegOpen(w)
      BY <1>3, <3>2 DEF RetrieveAccount, FailureOpen, RetrieveTransaction, ResumeOK, AskedPC
    <3> QED BY <3>1, <3>2
  <2>3. ~Keyed(Current(w), side[w])'
    BY <2>1, <2>2 DEF Keyed, AppliedLeg, RefusedLeg, Current
  <2> QED BY <2>1, <2>3, MoveResume, TokenStays
<1>4. CASE \/ FailureRecorded(w) \/ AlreadySettled(w) \/ SaveFailure(w)
           \/ Complete(w) \/ Rollback(w) \/ AnswerLost(w)
  <2>1. PICK i : i = at[w]
    OBVIOUS
  <2>2. FailureRecorded(w) \/ AlreadySettled(w) \/ StoreRefusal(w) \/ Settle(w) \/ Refund(w)
    BY <1>4 DEF SaveFailure, Complete, Rollback, AnswerLost
  <2>3. Done(log[i])'
    BY <2>1, <2>2, AcknowledgedDone
  <2>4. /\ pc[w] # "idle" /\ GoIdle(w)
        /\ Advance(w) \/ UNCHANGED cursor
        /\ token' = token \/ token' = i
    <3>1. /\ pc[w] # "idle"
          /\ token' = token \/ token' = i
      BY <1>4, <2>1
         DEF FailureRecorded, AlreadySettled, SaveFailure, Complete, Rollback, AnswerLost,
             StoreRefusal, Settle, Refund
    <3>2. GoIdle(w) /\ (Advance(w) \/ UNCHANGED cursor)
      BY <1>4
         DEF FailureRecorded, AlreadySettled, SaveFailure, Complete, Rollback, AnswerLost,
             Return, ReturnError
    <3> QED BY <3>1, <3>2
  <2>5. AllDone(cursor[w])' /\ AllDone(i)'
    BY <2>1, <2>3, <2>4, ReturnAllDone
  <2>6. AllDone(token)'
    BY <2>4, <2>5, TokenStays DEF AllDone
  <2> QED BY <2>4, <2>5, <2>6, IdleResume
<1>5. CASE \/ UnknownAccount(w) \/ AccountConflict(w) \/ FailureConflict(w)
           \/ RollbackRefused(w) \/ TransientError(w) \/ Restart(w)
  <2>1. GoIdle(w) /\ token' = token /\ (cursor' = cursor \/ cursor'[w] = token)
    BY <1>5 DEF UnknownAccount, AccountConflict, FailureConflict, RollbackRefused,
                TransientError, Restart, ReturnError, IInv, TypeOK
  <2>2. AllDone(token)'
    BY <2>1, TokenStays
  <2>3. PICK c : c = cursor[w]
    OBVIOUS
  <2>4. AllDone(c)'
    BY <2>3, AllDoneStays DEF ResumeOK, IInv, TypeOK
  <2>5. AllDone(cursor[w])'
    BY <2>1, <2>2, <2>3, <2>4 DEF AllDone
  <2> QED BY <2>1, <2>2, <2>5, IdleResume
<1> QED BY <1>1, <1>2, <1>3, <1>4, <1>5 DEF Work, Fault, AccountStep, FailureStep

\* A command stores no key, and moves neither the token nor a worker.
LEMMA CommandResume ==
  ASSUME IInv, LegInv, [Next]_vars, Command \/ UNCHANGED vars, NEW w \in Worker, ResumeOK(w)
  PROVE  ResumeOK(w)'
<1>1. /\ cursor' = cursor /\ at' = at /\ pc' = pc /\ side' = side
  BY DEF Command, CreateAccount, Freeze, CreateTransaction, vars, workerVars
<1>2. \A t : SameLegs(t)
  <2>1. ASSUME NEW a \in Account, CreateAccount(a) \/ Freeze(a)
        PROVE  \A t : SameLegs(t)
    BY <2>1, AccountCommandLegs
  <2>2. ASSUME NEW t \in Tx, NEW from \in Party, NEW to \in Party, NEW money \in Amount,
               CreateTransaction(t, from, to, money)
        PROVE  \A u : SameLegs(u)
    BY <2>2, CreateTransactionLegs
  <2>3. CASE UNCHANGED vars
    BY <2>3, SameLog DEF vars, storeVars
  <2> QED BY <2>1, <2>2, <2>3 DEF Command
<1>3. PICK t, l, c, i : t = Current(w) /\ l = side[w] /\ c = cursor[w] /\ i = at[w]
  OBVIOUS
<1>4. AllDone(c)'
  BY <1>3, AllDoneStays DEF ResumeOK, IInv, TypeOK
<1>5. AllDone(cursor[w])'
  BY <1>1, <1>3, <1>4 DEF AllDone
<1>6. ASSUME pc[w] # "idle"
      PROVE  log'[i] = log[i] /\ Current(w)' = t
  <2>1. i \in DOMAIN log
    BY <1>3, <1>6, Busy
  <2>2. log'[i] = log[i]
    BY <2>1, NextIInv DEF Grows
  <2> QED BY <1>1, <1>3, <2>2 DEF Current
<1>7. ASSUME pc[w] \in AskedPC
      PROVE  ~Keyed(Current(w), side[w])'
  <2>1. ~Keyed(t, l) /\ l \in Leg
    BY <1>3, <1>7 DEF ResumeOK, IInv, TypeOK, Leg
  <2>2. ~Keyed(t, l)'
    BY <2>1, <1>2 DEF SameLegs, Keyed
  <2>3. Current(w)' = t
    BY <1>6, <1>7 DEF AskedPC
  <2> QED BY <1>1, <1>3, <2>2, <2>3 DEF Keyed, AppliedLeg, RefusedLeg
<1> QED BY <1>1, <1>3, <1>5, <1>6, <1>7 DEF ResumeOK, AskedPC

-------------------------------------------------------------------------------
(***************************************************************************)
(* The theorem.                                                            *)
(***************************************************************************)
\* At the start the token is before the log.
LEMMA InitResumeInv == Init => ResumeInv
<1> SUFFICES ASSUME Init PROVE ResumeInv
  OBVIOUS
<1>1. log = << >> /\ Len(log) = 0 /\ DOMAIN log = {}
  BY EmptySeq DEF Init, StoreInit
<1>2. AllDone(0)
  BY <1>1 DEF AllDone
<1> QED BY <1>2 DEF Init, ResumeInv, ResumeOK, AskedPC

\* With one worker the invariant is inductive.
LEMMA NextResumeInv ==
  ASSUME OrderedRetry, \A u, v \in Worker : u = v
  PROVE  IInv /\ LegInv /\ ResumeInv /\ [Next]_vars => ResumeInv'
<1> SUFFICES ASSUME IInv, LegInv, ResumeInv, [Next]_vars PROVE ResumeInv'
  OBVIOUS
<1>1. CASE Command \/ UNCHANGED vars
  <2>1. token' = token
    BY <1>1 DEF Command, CreateAccount, Freeze, CreateTransaction, vars
  <2> QED BY <1>1, <2>1, CommandResume, TokenStays DEF ResumeInv
<1>2. ASSUME NEW w \in Worker, Work(w) \/ Fault(w)
      PROVE  ResumeInv'
  <2>1. ResumeOK(w)' /\ AllDone(token)'
    BY <1>2, WorkerResume DEF ResumeInv
  <2>2. \A u \in Worker : u = w
    OBVIOUS
  <2> QED BY <2>1, <2>2 DEF ResumeInv
<1> QED BY <1>1, <1>2 DEF Next

\* One worker that retries in order misses no event that still needs handling when it
\* restarts after the resume token, however often it crashed or was delivered an event
\* again.  The first hypothesis is what the retry of the bus has to keep; without the
\* second the token is not safe (see the instance MCTransfersLost).
THEOREM TokenIsSafe ==
  ASSUME OrderedRetry, \A u, v \in Worker : u = v
  PROVE  Spec => []TokenSafe
<1>1. Init => IInv /\ LegInv /\ ResumeInv
  BY InitIInv, InitLegInv, InitResumeInv
<1>2. (IInv /\ LegInv /\ ResumeInv) /\ [Next]_vars => (IInv /\ LegInv /\ ResumeInv)'
  BY NextIInv, NextLegInv, NextResumeInv
<1>3. ResumeInv => TokenSafe
  BY DEF ResumeInv, AllDone, TokenSafe
<1> QED BY <1>1, <1>2, <1>3, PTL DEF Spec
===============================================================================
