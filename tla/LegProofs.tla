------------------------------- MODULE LegProofs -------------------------------
(***************************************************************************)
(* Proofs about the legs of the transactions: what a transaction that      *)
(* succeeded, failed or was given its money back has in the log, and that  *)
(* the write side implements the ledger.                                   *)
(*                                                                         *)
(* The argument is the key of a leg, which the account stores when it      *)
(* applies the leg and the transaction stores when it refuses it: it is    *)
(* stored once (so a leg has one fate), and a worker goes on to the next   *)
(* leg, or to the end, only when the one before has its key.  That it was  *)
(* applied and not refused follows when the transaction is still pending.  *)
(***************************************************************************)
EXTENDS TransferProofs

USE DomainAssumption, TransfersAssumption

Keyed(t, l) == AppliedLeg(t, l) \/ RefusedLeg(t, l)

\* What the log holds for transaction t, by its status.
TransactionOK(t) ==
  /\ tx[t].version = 0 <=> tx[t].status = "NONE"
  /\ tx[t].version = 0 => \A l \in Leg : ~Keyed(t, l)
  /\ \A l \in Leg : ~(AppliedLeg(t, l) /\ RefusedLeg(t, l))
  /\ ~RefusedLeg(t, "rollback")
  /\ Keyed(t, "withdraw") => tx[t].from # Nobody
  /\ tx[t].status = "FAILED" <=> RefusedLeg(t, "withdraw") \/ RefusedLeg(t, "deposit")
  /\ tx[t].status = "SUCCEEDED" =>
       /\ tx[t].from # Nobody => AppliedLeg(t, "withdraw")
       /\ tx[t].to # Nobody => AppliedLeg(t, "deposit")
  /\ RefundAsked(t) <=> RefusedLeg(t, "deposit") /\ tx[t].from # Nobody
  /\ RefundAsked(t) => AppliedLeg(t, "withdraw")
  /\ AppliedLeg(t, "rollback") => RefundAsked(t)

LegPassed(t, l) ==
  (IF l = "withdraw" THEN tx[t].from ELSE tx[t].to) = Nobody \/ Keyed(t, l)

\* What worker w has behind it.
LegsOK(w) ==
  /\ pc[w] \notin {"idle", "rollback"} /\ side[w] = "deposit" =>
       LegPassed(Current(w), "withdraw")
  /\ pc[w] = "complete" => side[w] = "deposit" /\ LegPassed(Current(w), "deposit")
  /\ pc[w] = "rollback" => RefundAsked(Current(w))

UnbornAccounts == \A a \in Account : acc[a].version = 0 => acc[a] = NewAccount

LegInv ==
  /\ \A t \in Tx : TransactionOK(t)
  /\ \A w \in Worker : LegsOK(w)
  /\ UnbornAccounts

-------------------------------------------------------------------------------
(***************************************************************************)
(* What storing an event does to the legs.                                 *)
(***************************************************************************)
\* Both records of a key are found by the key.
LEMMA KeyStored ==
  ASSUME StoreTypeOK, NEW t, NEW l
  PROVE  HasIdempotencyKey(t, l) <=> Keyed(t, l)
<1>1. \A i \in DOMAIN log : log[i] \in Event
  BY DEF StoreTypeOK
<1>2. \A i \in DOMAIN log : log[i].agg \in Account \cup Tx
  BY <1>1 DEF Event
<1> QED BY <1>2 DEF HasIdempotencyKey, Keyed, AppliedLeg, RefusedLeg

\* No leg of transaction t changes.
SameLegs(t) ==
  /\ \A l \in Leg : /\ AppliedLeg(t, l)' <=> AppliedLeg(t, l)
                    /\ RefusedLeg(t, l)' <=> RefusedLeg(t, l)
  /\ RefundAsked(t)' <=> RefundAsked(t)

\* The legs of the log with one more event.
LEMMA AppendLegs ==
  ASSUME StoreTypeOK, NEW e \in Event, log' = Append(log, e), NEW t, NEW l
  PROVE  /\ AppliedLeg(t, l)' <=>
              AppliedLeg(t, l) \/ (e.agg \in Account /\ e.tx = t /\ e.leg = l)
         /\ RefusedLeg(t, l)' <=>
              RefusedLeg(t, l) \/ (e.agg \in Tx /\ e.tx = t /\ e.leg = l)
         /\ RefundAsked(t)' <=>
              RefundAsked(t) \/ (e.kind = "TransactionFailed" /\ e.tx = t /\ e.rollback)
<1>1. /\ DOMAIN log' = DOMAIN log \cup {Len(log) + 1} /\ Len(log) + 1 \notin DOMAIN log
      /\ \A i \in DOMAIN log : log'[i] = log[i]
      /\ log'[Len(log) + 1] = e
  BY AppendProperties, LenProperties DEF StoreTypeOK
<1>2. AppliedLeg(t, l)' <=>
        AppliedLeg(t, l) \/ (e.agg \in Account /\ e.tx = t /\ e.leg = l)
  BY <1>1 DEF AppliedLeg
<1>3. RefusedLeg(t, l)' <=>
        RefusedLeg(t, l) \/ (e.agg \in Tx /\ e.tx = t /\ e.leg = l)
  BY <1>1 DEF RefusedLeg
<1>4. RefundAsked(t)' <=>
        RefundAsked(t) \/ (e.kind = "TransactionFailed" /\ e.tx = t /\ e.rollback)
  BY <1>1 DEF RefundAsked
<1> QED BY <1>2, <1>3, <1>4

\* An event without a key that does not ask for a refund leaves all legs alone.
LEMMA AppendNoLeg ==
  ASSUME StoreTypeOK, NEW e \in Event, log' = Append(log, e), e.leg = "none",
         ~e.rollback
  PROVE  \A t : SameLegs(t)
<1>1. "none" \notin Leg
  BY DEF Leg
<1> QED BY <1>1, AppendLegs DEF SameLegs

\* Nor does a step that stores nothing.
LEMMA SameLog ==
  ASSUME UNCHANGED log
  PROVE  \A t : SameLegs(t)
BY DEF SameLegs, AppliedLeg, RefusedLeg, RefundAsked

\* The account applies leg l of t; nothing else changes.
LegApplied(t, l) ==
  /\ UNCHANGED tx
  /\ ~Keyed(t, l)
  /\ \A u \in Tx \ {t} : SameLegs(u)
  /\ \A m \in Leg : /\ AppliedLeg(t, m)' <=> AppliedLeg(t, m) \/ m = l
                    /\ RefusedLeg(t, m)' <=> RefusedLeg(t, m)
  /\ RefundAsked(t)' <=> RefundAsked(t)

\* Transaction t fails and takes the key of leg l; nothing else changes.
LegRefused(t, l) ==
  /\ UNCHANGED acc
  /\ IsPending(tx[t]) /\ ~Keyed(t, l)
  /\ \A u \in Tx \ {t} : tx'[u] = tx[u] /\ SameLegs(u)
  /\ tx'[t] = [tx[t] EXCEPT !.version = tx[t].version + 1, !.status = "FAILED"]
  /\ \A m \in Leg : /\ AppliedLeg(t, m)' <=> AppliedLeg(t, m)
                    /\ RefusedLeg(t, m)' <=> RefusedLeg(t, m) \/ m = l
  /\ RefundAsked(t)' <=> RefundAsked(t) \/ NeedsRollback(tx[t], l)

\* Saving the money event of a leg.
LEMMA SaveAccountLegs ==
  ASSUME IInv, NEW w \in Worker, SaveAccount(w),
         NEW t, t = Current(w), NEW l, l = side[w]
  PROVE  LegApplied(t, l)
<1> DEFINE e == MoneyEvent(w)
<1>1. /\ e \in Event /\ e.agg \in Account /\ e.tx = t /\ e.leg = l
      /\ e.kind # "TransactionFailed"
  BY SaveAccountDecided DEF MoneyEvent, AccountEvent
<1>2. /\ log' = Append(log, e) /\ tx' = tx /\ ~HasIdempotencyKey(t, l)
      /\ l \in Leg
  BY <1>1 DEF SaveAccount, StoreAccountEvent, Conflicts, IInv, TypeOK, Leg
<1>3. StoreTypeOK /\ e.agg \notin Tx
  BY <1>1 DEF IInv, StoreInv
<1> HIDE DEF e
<1>4. ~Keyed(t, l)
  BY <1>2, <1>3, KeyStored
<1>5. ASSUME NEW u, NEW m
      PROVE  /\ AppliedLeg(u, m)' <=> AppliedLeg(u, m) \/ (u = t /\ m = l)
             /\ RefusedLeg(u, m)' <=> RefusedLeg(u, m)
             /\ RefundAsked(u)' <=> RefundAsked(u)
  BY <1>1, <1>2, <1>3, AppendLegs
<1> QED BY <1>2, <1>4, <1>5 DEF LegApplied, SameLegs

\* Giving the money back is a leg as well.
LEMMA RefundLegs ==
  ASSUME IInv, NEW w \in Worker, Refund(w), NEW t, t = Current(w),
         ~HasIdempotencyKey(t, "rollback")
  PROVE  LegApplied(t, "rollback")
<1> DEFINE e == RefundEvent(w)
<1>1. e \in Event /\ e.agg \in Account
  BY RefundEventOK
<1>2. e.tx = t /\ e.leg = "rollback" /\ e.kind # "TransactionFailed" /\ t \in Tx
  BY Busy DEF Refund, RefundEvent, AccountEvent
<1>3. log' = Append(log, e) /\ tx' = tx
  BY DEF Refund, StoreAccountEvent
<1>4. StoreTypeOK /\ e.agg \notin Tx
  BY <1>1 DEF IInv, StoreInv
<1>5. ~Keyed(t, "rollback")
  BY <1>4, KeyStored
<1> HIDE DEF e
<1>6. ASSUME NEW u, NEW m
      PROVE  /\ AppliedLeg(u, m)' <=> AppliedLeg(u, m) \/ (u = t /\ m = "rollback")
             /\ RefusedLeg(u, m)' <=> RefusedLeg(u, m)
             /\ RefundAsked(u)' <=> RefundAsked(u)
  BY <1>1, <1>2, <1>3, <1>4, AppendLegs
<1> QED BY <1>3, <1>5, <1>6 DEF LegApplied, SameLegs

\* Recording that the account refused a leg.
LEMMA StoreRefusalLegs ==
  ASSUME IInv, NEW w \in Worker, StoreRefusal(w),
         NEW t, t = Current(w), NEW l, l = side[w]
  PROVE  LegRefused(t, l)
<1> DEFINE e == FailureEvent(w)
<1>1. /\ t \in Tx /\ IsPending(tx[t]) /\ e \in Event /\ e.version = tx[t].version + 1
      /\ e.agg = t /\ e.tx = t /\ e.leg = l /\ e.kind = "TransactionFailed"
      /\ e.rollback = NeedsRollback(tx[t], l)
  BY StoreRefusalDecided DEF FailureEvent, TransactionEvent
<1>2. /\ log' = Append(log, e) /\ acc' = acc /\ ~HasIdempotencyKey(t, l)
      /\ l \in Leg
      /\ tx' = [tx EXCEPT ![e.agg] = HandleTransactionEvent(tx[e.agg], e)]
  BY <1>1 DEF StoreRefusal, StoreTransactionEvent, Conflicts, IInv, TypeOK, Leg
<1>3. StoreTypeOK /\ e.agg \notin Account /\ tx \in [Tx -> TransactionState]
  BY <1>1 DEF IInv, StoreInv, StoreTypeOK
<1> HIDE DEF e
<1>4. ~Keyed(t, l)
  BY <1>2, <1>3, KeyStored
<1>5. /\ tx'[t] = [tx[t] EXCEPT !.version = tx[t].version + 1, !.status = "FAILED"]
      /\ \A u \in Tx \ {t} : tx'[u] = tx[u]
  BY <1>1, <1>2, <1>3 DEF HandleTransactionEvent
<1>6. ASSUME NEW u, NEW m
      PROVE  /\ AppliedLeg(u, m)' <=> AppliedLeg(u, m)
             /\ RefusedLeg(u, m)' <=> RefusedLeg(u, m) \/ (u = t /\ m = l)
             /\ RefundAsked(u)' <=>
                  RefundAsked(u) \/ (u = t /\ NeedsRollback(tx[t], l))
  BY <1>1, <1>2, <1>3, AppendLegs
<1> QED BY <1>1, <1>2, <1>4, <1>5, <1>6 DEF LegRefused, SameLegs

\* Completing a pending transaction, and placing a new one.
LEMMA SettleLegs ==
  ASSUME IInv, NEW w \in Worker, Settle(w), NEW t, t = Current(w), IsPending(tx[t])
  PROVE  /\ UNCHANGED acc
         /\ tx' = [tx EXCEPT ![t] = [tx[t] EXCEPT !.version = tx[t].version + 1,
                                                  !.status = "SUCCEEDED"]]
         /\ \A u : SameLegs(u)
<1> DEFINE e == TransactionEvent("TransactionSucceeded", t, tx[t].version + 1, "none", FALSE)
<1>1. t \in Tx /\ tx[t] \in TransactionState
  BY Busy DEF Settle
<1>2. /\ e.agg = t /\ e.kind = "TransactionSucceeded" /\ e.version = tx[t].version + 1
      /\ e.leg = "none" /\ e.rollback = FALSE
  BY DEF TransactionEvent
<1>3. e \in Event
  <2>1. tx[t].version + 1 \in Nat \ {0}
    BY <1>1 DEF TransactionState
  <2> QED BY <2>1, <1>1, EventTypes DEF TransactionKind
<1>4. /\ log' = Append(log, e) /\ acc' = acc
      /\ tx' = [tx EXCEPT ![e.agg] = HandleTransactionEvent(tx[e.agg], e)]
  BY DEF Settle, StoreTransactionEvent
<1> HIDE DEF e
<1>5. \A u : SameLegs(u)
  BY <1>2, <1>3, <1>4, AppendNoLeg DEF IInv, StoreInv
<1> QED BY <1>2, <1>4, <1>5 DEF HandleTransactionEvent

\* A new transaction has no legs yet.
LEMMA CreateTransactionLegs ==
  ASSUME IInv, NEW t \in Tx, NEW from \in Party, NEW to \in Party, NEW money \in Amount,
         CreateTransaction(t, from, to, money)
  PROVE  /\ UNCHANGED acc
         /\ tx' = [tx EXCEPT ![t] = [version |-> 1, status |-> "PENDING",
                                     from |-> from, to |-> to, money |-> money]]
         /\ \A u : SameLegs(u)
<1> DEFINE e == TransactionCreated(t, from, to, money)
<1>1. e \in Event
  BY EventTypes
<1>2. /\ e.agg = t /\ e.kind = "TransactionCreated" /\ e.version = 1 /\ e.leg = "none"
      /\ e.rollback = FALSE /\ e.from = from /\ e.to = to /\ e.money = money
  BY DEF TransactionCreated
<1>3. /\ log' = Append(log, e) /\ acc' = acc
      /\ tx' = [tx EXCEPT ![e.agg] = HandleTransactionEvent(tx[e.agg], e)]
  BY DEF CreateTransaction, StoreTransactionEvent
<1> HIDE DEF e
<1>4. \A u : SameLegs(u)
  BY <1>1, <1>2, <1>3, AppendNoLeg DEF IInv, StoreInv
<1> QED BY <1>2, <1>3, <1>4 DEF HandleTransactionEvent

\* The commands on accounts store no leg.
LEMMA AccountCommandLegs ==
  ASSUME IInv, NEW a \in Account, CreateAccount(a) \/ Freeze(a)
  PROVE  UNCHANGED tx /\ \A u : SameLegs(u)
<1>1. acc[a].version + 1 \in Nat \ {0}
  BY DEF IInv, StoreInv, StoreTypeOK, AccountState
<1>2. PICK kind \in AccountKind, version \in Nat \ {0} :
        StoreAccountEvent(AccountEvent(kind, a, version, Nobody, "none", 0))
  BY <1>1 DEF CreateAccount, Freeze, AccountKind
<1> DEFINE e == AccountEvent(kind, a, version, Nobody, "none", 0)
<1>3. e \in Event
  BY EventTypes
<1>4. e.leg = "none" /\ e.rollback = FALSE
  BY DEF AccountEvent
<1>5. log' = Append(log, e) /\ tx' = tx
  BY <1>2 DEF StoreAccountEvent
<1> HIDE DEF e
<1> QED BY <1>3, <1>4, <1>5, AppendNoLeg DEF IInv, StoreInv

\* The steps that store something.
StoreStep(w) ==
  \/ SaveAccount(w) \/ StoreRefusal(w)
  \/ Settle(w) /\ IsPending(tx[Current(w)])
  \/ Refund(w) /\ ~HasIdempotencyKey(Current(w), "rollback")

\* Steps that store no event of a leg.
LEMMA OtherSteps ==
  ASSUME NEW w \in Worker, Work(w) \/ Fault(w)
  PROVE  StoreStep(w) \/ UNCHANGED storeVars
  BY StoreCalls DEF StoreStep, Settle, Refund

-------------------------------------------------------------------------------
(***************************************************************************)
(* The transactions.                                                       *)
(***************************************************************************)
\* What is stored stays stored.
LEMMA KeysStay ==
  ASSUME Grows
  PROVE  \A t, l : /\ Keyed(t, l) => Keyed(t, l)'
                   /\ RefundAsked(t) => RefundAsked(t)'
<1>1. \A i \in DOMAIN log : i \in DOMAIN log' /\ log'[i] = log[i]
  BY DEF Grows
<1>2. ASSUME NEW t, NEW l
      PROVE  /\ AppliedLeg(t, l) => AppliedLeg(t, l)'
             /\ RefusedLeg(t, l) => RefusedLeg(t, l)'
             /\ RefundAsked(t) => RefundAsked(t)'
  BY <1>1 DEF AppliedLeg, RefusedLeg, RefundAsked
<1> QED BY <1>2 DEF Keyed

\* A transaction that no event is about stays as it is.
LEMMA SameTransaction ==
  ASSUME NEW t \in Tx, TransactionOK(t), tx'[t] = tx[t], SameLegs(t)
  PROVE  TransactionOK(t)'
<1>1. "withdraw" \in Leg /\ "deposit" \in Leg /\ "rollback" \in Leg
  BY DEF Leg
<1> QED BY <1>1 DEF TransactionOK, SameLegs, Keyed

\* A leg is still open, and its account is asked, only in a pending transaction,
\* and the deposit of a transfer only after the withdrawal.
LEMMA LegDue ==
  ASSUME IInv, LegInv, NEW w \in Worker, SaveAccount(w) \/ StoreRefusal(w),
         NEW t, t = Current(w), NEW l, l = side[w], ~Keyed(t, l)
  PROVE  /\ t \in Tx /\ l \in {"withdraw", "deposit"} /\ TransactionOK(t)
         /\ tx[t] \in TransactionState /\ tx[t].version > 0
         /\ AccountOf(w) \in Account
         /\ AccountOf(w) = IF l = "withdraw" THEN tx[t].from ELSE tx[t].to
         /\ l = "withdraw" => IsPending(tx[t])
         /\ l = "deposit" => tx[t].from = Nobody \/ Keyed(t, "withdraw")
<1>1. pc[w] \in {"accSave", "txSave"}
  BY DEF SaveAccount, StoreRefusal
<1>2. /\ t \in Tx /\ tx[t] \in TransactionState /\ tx[t].version > 0
      /\ AccountOf(w) \in Account
      /\ AccountOf(w) = IF l = "withdraw" THEN tx[t].from ELSE tx[t].to
  BY <1>1, Busy DEF IInv, WorkerOK, AskedPC, AccountOf
<1>3. l \in {"withdraw", "deposit"} /\ TransactionOK(t)
  BY <1>2 DEF IInv, TypeOK, LegInv
<1>4. l = "withdraw" => IsPending(tx[t])
  <2> SUFFICES ASSUME l = "withdraw" PROVE IsPending(tx[t])
    OBVIOUS
  <2>1. tx[t].version # 0 /\ tx[t].from # Nobody
    BY <1>2 DEF TransactionState
  <2>2. tx[t].status \notin {"NONE", "FAILED", "SUCCEEDED"}
    BY <1>3, <2>1 DEF TransactionOK, Keyed
  <2> QED BY <2>2, <1>2 DEF TransactionState, IsPending
<1>5. l = "deposit" => tx[t].from = Nobody \/ Keyed(t, "withdraw")
  BY <1>1 DEF LegInv, LegsOK, LegPassed
<1> QED BY <1>2, <1>3, <1>4, <1>5

\* Applying a leg keeps the books of the transaction.
LEMMA SaveAccountTransaction ==
  ASSUME IInv, LegInv, NEW w \in Worker, SaveAccount(w), NEW u \in Tx
  PROVE  TransactionOK(u)'
<1>1. PICK t, l : t = Current(w) /\ l = side[w]
  OBVIOUS
<1>2. LegApplied(t, l)
  BY <1>1, SaveAccountLegs
<1>3. CASE u # t
  BY <1>2, <1>3, SameTransaction DEF LegApplied, LegInv
<1>4. CASE u = t
  <2>1. /\ t \in Tx /\ TransactionOK(t) /\ tx' = tx /\ l \in {"withdraw", "deposit"}
        /\ tx[t].version # 0
        /\ l = "withdraw" => tx[t].from # Nobody
    BY <1>1, <1>2, LegDue DEF LegApplied, TransactionState
  <2>2. /\ \A m \in Leg : /\ AppliedLeg(t, m)' <=> AppliedLeg(t, m) \/ m = l
                          /\ RefusedLeg(t, m)' <=> RefusedLeg(t, m)
        /\ RefundAsked(t)' <=> RefundAsked(t)
        /\ ~Keyed(t, l)
    BY <1>2 DEF LegApplied
  <2>3. "withdraw" \in Leg /\ "deposit" \in Leg /\ "rollback" \in Leg
    BY DEF Leg
  <2> QED BY <1>4, <2>1, <2>2, <2>3 DEF TransactionOK, Keyed
<1> QED BY <1>3, <1>4

\* So does refusing one: the transaction was pending, so its withdrawal, if it has
\* one and this is the deposit, was applied.
LEMMA StoreRefusalTransaction ==
  ASSUME IInv, LegInv, NEW w \in Worker, StoreRefusal(w), NEW u \in Tx
  PROVE  TransactionOK(u)'
<1>1. PICK t, l : t = Current(w) /\ l = side[w]
  OBVIOUS
<1>2. LegRefused(t, l)
  BY <1>1, StoreRefusalLegs
<1>3. CASE u # t
  BY <1>2, <1>3, SameTransaction DEF LegRefused, LegInv
<1>4. CASE u = t
  <2>1. /\ t \in Tx /\ TransactionOK(t) /\ l \in {"withdraw", "deposit"}
        /\ tx[t] \in TransactionState /\ tx[t].version > 0
        /\ l = "withdraw" => tx[t].from # Nobody
        /\ l = "deposit" => tx[t].from = Nobody \/ Keyed(t, "withdraw")
    BY <1>1, <1>2, LegDue DEF LegRefused
  <2>2. /\ \A m \in Leg : /\ AppliedLeg(t, m)' <=> AppliedLeg(t, m)
                          /\ RefusedLeg(t, m)' <=> RefusedLeg(t, m) \/ m = l
        /\ RefundAsked(t)' <=> RefundAsked(t) \/ (l = "deposit" /\ tx[t].from # Nobody)
        /\ ~Keyed(t, l) /\ tx[t].status = "PENDING"
    BY <1>2 DEF LegRefused, IsPending, NeedsRollback
  <2>3. /\ tx'[t].status = "FAILED" /\ tx'[t].version # 0 /\ tx[t].version # 0
        /\ tx'[t].from = tx[t].from /\ tx'[t].to = tx[t].to
    BY <1>2, <2>1 DEF LegRefused, TransactionState
  <2>4. "withdraw" \in Leg /\ "deposit" \in Leg /\ "rollback" \in Leg
    BY DEF Leg
  <2>5. l = "deposit" /\ tx[t].from # Nobody => AppliedLeg(t, "withdraw")
    BY <2>1, <2>2 DEF TransactionOK, Keyed
  <2> QED BY <1>4, <2>1, <2>2, <2>3, <2>4, <2>5 DEF TransactionOK, Keyed
<1> QED BY <1>3, <1>4

\* A pending transaction that passed both its legs applied them.
LEMMA SettleApplied ==
  ASSUME IInv, LegInv, NEW w \in Worker, Settle(w), NEW t, t = Current(w),
         IsPending(tx[t])
  PROVE  /\ t \in Tx /\ TransactionOK(t) /\ tx[t] \in TransactionState
         /\ tx[t].from # Nobody => AppliedLeg(t, "withdraw")
         /\ tx[t].to # Nobody => AppliedLeg(t, "deposit")
<1>1. t \in Tx /\ TransactionOK(t) /\ tx[t] \in TransactionState
  BY Busy DEF Settle, LegInv
<1>2. LegPassed(t, "withdraw") /\ LegPassed(t, "deposit")
  BY DEF Settle, LegInv, LegsOK
<1>3. ~RefusedLeg(t, "withdraw") /\ ~RefusedLeg(t, "deposit")
  BY <1>1 DEF TransactionOK, IsPending
<1> QED BY <1>1, <1>2, <1>3 DEF LegPassed, Keyed

\* The transaction gets its outcome.
LEMMA SettleTransaction ==
  ASSUME IInv, LegInv, NEW w \in Worker, Settle(w), IsPending(tx[Current(w)]),
         NEW u \in Tx
  PROVE  TransactionOK(u)'
<1>1. PICK t : t = Current(w)
  OBVIOUS
<1>2. /\ t \in Tx /\ TransactionOK(t) /\ tx[t] \in TransactionState
      /\ tx[t].from # Nobody => AppliedLeg(t, "withdraw")
      /\ tx[t].to # Nobody => AppliedLeg(t, "deposit")
  BY <1>1, SettleApplied
<1>3. /\ tx \in [Tx -> TransactionState]
      /\ tx' = [tx EXCEPT ![t] = [tx[t] EXCEPT !.version = tx[t].version + 1,
                                               !.status = "SUCCEEDED"]]
      /\ SameLegs(u)
  BY <1>1, SettleLegs DEF IInv, StoreInv, StoreTypeOK
<1>4. CASE u # t
  BY <1>3, <1>4, SameTransaction DEF LegInv
<1>5. CASE u = t
  <2>1. /\ tx'[t].status = "SUCCEEDED" /\ tx'[t].version # 0 /\ tx[t].version # 0
        /\ tx'[t].from = tx[t].from /\ tx'[t].to = tx[t].to /\ tx[t].status = "PENDING"
    <3>1. tx[t].status = "PENDING" /\ tx[t].version \in Nat /\ tx[t].version # 0
      BY <1>1, <1>2, Busy DEF Settle, IsPending, TransactionState
    <3> QED BY <1>2, <1>3, <3>1 DEF TransactionState
  <2>2. "withdraw" \in Leg /\ "deposit" \in Leg /\ "rollback" \in Leg
    BY DEF Leg
  <2> QED BY <1>2, <1>3, <1>5, <2>1, <2>2 DEF TransactionOK, Keyed, SameLegs
<1> QED BY <1>4, <1>5

\* Money is given back where that was asked.
LEMMA RefundTransaction ==
  ASSUME IInv, LegInv, NEW w \in Worker, Refund(w),
         ~HasIdempotencyKey(Current(w), "rollback"), NEW u \in Tx
  PROVE  TransactionOK(u)'
<1>1. PICK t : t = Current(w)
  OBVIOUS
<1>2. LegApplied(t, "rollback")
  BY <1>1, RefundLegs
<1>3. CASE u # t
  BY <1>2, <1>3, SameTransaction DEF LegApplied, LegInv
<1>4. CASE u = t
  <2>1. t \in Tx /\ TransactionOK(t) /\ RefundAsked(t) /\ tx[t].version > 0
        /\ tx[t].version \in Nat /\ tx' = tx
    BY <1>1, <1>2, Busy DEF Refund, LegInv, LegsOK, LegApplied, TransactionState
  <2>2. /\ \A m \in Leg : /\ AppliedLeg(t, m)' <=> AppliedLeg(t, m) \/ m = "rollback"
                          /\ RefusedLeg(t, m)' <=> RefusedLeg(t, m)
        /\ RefundAsked(t)' <=> RefundAsked(t)
    BY <1>2 DEF LegApplied
  <2>3. "withdraw" \in Leg /\ "deposit" \in Leg /\ "rollback" \in Leg
    BY DEF Leg
  <2> QED BY <1>4, <2>1, <2>2, <2>3 DEF TransactionOK, Keyed
<1> QED BY <1>3, <1>4

\* A new transaction has no legs yet.
LEMMA CreateTransactionTransaction ==
  ASSUME IInv, LegInv, NEW t \in Tx, NEW from \in Party, NEW to \in Party,
         NEW money \in Amount, CreateTransaction(t, from, to, money), NEW u \in Tx
  PROVE  TransactionOK(u)'
<1>1. /\ tx \in [Tx -> TransactionState]
      /\ tx' = [tx EXCEPT ![t] = [version |-> 1, status |-> "PENDING",
                                  from |-> from, to |-> to, money |-> money]]
      /\ SameLegs(u)
  BY CreateTransactionLegs DEF IInv, StoreInv, StoreTypeOK
<1>2. CASE u # t
  BY <1>1, <1>2, SameTransaction DEF LegInv
<1>3. CASE u = t
  <2>1. tx[t].version = 0 /\ TransactionOK(t)
    BY DEF CreateTransaction, LegInv
  <2>2. "withdraw" \in Leg /\ "deposit" \in Leg /\ "rollback" \in Leg
    BY DEF Leg
  <2>3. tx'[t].version = 1 /\ tx'[t].status = "PENDING"
    BY <1>1
  <2> QED BY <1>1, <1>3, <2>1, <2>2, <2>3 DEF TransactionOK, Keyed, SameLegs
<1> QED BY <1>2, <1>3

-------------------------------------------------------------------------------
(***************************************************************************)
(* The workers.                                                            *)
(***************************************************************************)
\* The transaction a worker is busy with stays the same, and so do its parties.
LEMMA CurrentStays ==
  ASSUME IInv, Grows, NEW u \in Worker, pc[u] # "idle", at'[u] = at[u],
         NEW t, t = Current(u)
  PROVE  /\ t \in Tx /\ Current(u)' = t
         /\ tx'[t].from = tx[t].from /\ tx'[t].to = tx[t].to
         /\ \A l : LegPassed(t, l) => LegPassed(t, l)'
         /\ RefundAsked(t) => RefundAsked(t)'
<1>1. /\ at[u] \in DOMAIN log /\ t \in Tx
      /\ tx[t].version > 0
  BY Busy
<1>2. Current(u)' = t /\ tx'[t].from = tx[t].from /\ tx'[t].to = tx[t].to
  BY <1>1 DEF Grows, Current
<1> QED BY <1>1, <1>2, KeysStay DEF LegPassed

\* A worker that stands still, or moves on within a leg.
LEMMA LegsFrame ==
  ASSUME IInv, LegInv, Grows, NEW u \in Worker, at'[u] = at[u], side'[u] = side[u],
         \/ pc'[u] = pc[u]
         \/ pc[u] \notin {"idle", "rollback"} /\ pc'[u] \notin {"complete", "rollback"}
  PROVE  LegsOK(u)'
<1>1. CASE pc[u] = "idle"
  BY <1>1 DEF LegsOK
<1>2. CASE pc[u] # "idle"
  <2>1. PICK t : t = Current(u)
    OBVIOUS
  <2>2. /\ Current(u)' = t
        /\ LegPassed(t, "withdraw") => LegPassed(t, "withdraw")'
        /\ LegPassed(t, "deposit") => LegPassed(t, "deposit")'
        /\ RefundAsked(t) => RefundAsked(t)'
    BY <1>2, <2>1, CurrentStays
  <2>3. LegsOK(u)
    BY DEF LegInv
  <2> QED BY <1>2, <2>1, <2>2, <2>3 DEF LegsOK
<1> QED BY <1>1, <1>2

\* A worker that goes idle has nothing behind it.
LEMMA LegsIdle ==
  ASSUME IInv, NEW w \in Worker, GoIdle(w)
  PROVE  LegsOK(w)'
BY DEF GoIdle, LegsOK, IInv, TypeOK

\* A worker that takes up an event is on the first leg, or has a refund to pay.
LEMMA LegsBegin ==
  ASSUME IInv, NEW w \in Worker, NEW n \in DOMAIN log, Handled(log[n]), Begin(w, n)
  PROVE  LegsOK(w)'
<1>1. /\ at'[w] = n /\ log' = log /\ side'[w] = "withdraw"
      /\ pc'[w] = IF log[n].kind = "TransactionCreated" THEN "accHas" ELSE "rollback"
  BY DEF Begin, IInv, TypeOK, storeVars
<1>2. pc'[w] = "rollback" => RefundAsked(log[n].tx)
  BY <1>1 DEF Handled, RefundAsked
<1>3. pc'[w] = "rollback" => RefundAsked(Current(w))'
  BY <1>1, <1>2 DEF RefundAsked, Current
<1> QED BY <1>1, <1>3 DEF LegsOK

\* A worker that goes on to the next leg has passed this one.
LEMMA LegsNext ==
  ASSUME IInv, LegInv, Grows, NEW w \in Worker, pc[w] \in {"accHas", "accSave"},
         NextLeg(w), UNCHANGED at, NEW t, t = Current(w), NEW l, l = side[w],
         LegPassed(t, l)'
  PROVE  LegsOK(w)'
<1>1. /\ pc'[w] = IF l = "withdraw" THEN "accHas" ELSE "complete"
      /\ side'[w] = "deposit" /\ l \in {"withdraw", "deposit"}
  BY DEF NextLeg, IInv, TypeOK
<1>2. Current(w)' = t /\ (LegPassed(t, "withdraw") => LegPassed(t, "withdraw")')
  BY CurrentStays
<1>3. l = "deposit" => LegPassed(t, "withdraw")
  BY DEF LegInv, LegsOK
<1> QED BY <1>1, <1>2, <1>3 DEF LegsOK

\* The other workers do not move.
LEMMA OthersStand ==
  ASSUME IInv, NEW w \in Worker, Work(w) \/ Fault(w), NEW u \in Worker \ {w}
  PROVE  pc'[u] = pc[u] /\ at'[u] = at[u] /\ side'[u] = side[u]
<1> USE DEF GoTo, Return, ReturnError, GoIdle, NextLeg, IInv, TypeOK
<1>1. CASE AccountStep(w)
  BY <1>1 DEF AccountStep, LegDone, LegOpen, RetrieveAccount, UnknownAccount,
              SaveAccount, AccountConflict
<1>2. CASE FailureStep(w)
  BY <1>2 DEF FailureStep, FailureRecorded, FailureOpen, RetrieveTransaction,
              AlreadySettled, SaveFailure, FailureConflict
<1>3. CASE Fault(w)
  BY <1>3 DEF Fault, Redeliver, Begin, TransientError, AnswerLost, Restart
<1>4. CASE Skip(w) \/ Deliver(w)
  BY <1>4 DEF Skip, Deliver, Begin
<1> QED BY <1>1, <1>2, <1>3, <1>4 DEF Work, Complete, Rollback, RollbackRefused

\* Every step of a worker leaves it knowing what is behind it.
LEMMA WorkerLegs ==
  ASSUME IInv, LegInv, Grows, NEW w \in Worker, Work(w) \/ Fault(w)
  PROVE  LegsOK(w)'
<1>1. CASE Skip(w)
  BY <1>1, LegsFrame DEF Skip
<1>2. CASE Deliver(w)
  <2>1. cursor[w] + 1 \in DOMAIN log
    BY <1>2 DEF Deliver, IInv, TypeOK, StoreTypeOK
  <2> QED BY <1>2, <2>1, LegsBegin DEF Deliver
<1>3. CASE LegDone(w)
  <2>1. PICK t, l : t = Current(w) /\ l = side[w]
    OBVIOUS
  <2>2. LegPassed(t, l)
    BY <1>3, <2>1, KeyStored DEF LegDone, LegPassed, AccountOf, IInv, StoreInv
  <2>3. LegPassed(t, l)'
    BY <1>3, <2>1, <2>2, CurrentStays DEF LegDone
  <2> QED BY <1>3, <2>1, <2>3, LegsNext DEF LegDone
<1>4. CASE SaveAccount(w)
  <2>1. PICK t, l : t = Current(w) /\ l = side[w]
    OBVIOUS
  <2>2. LegApplied(t, l) /\ l \in Leg
    BY <1>4, <2>1, SaveAccountLegs DEF IInv, TypeOK, Leg
  <2>3. Keyed(t, l)'
    BY <2>2 DEF LegApplied, Keyed
  <2>4. LegPassed(t, l)'
    BY <2>3 DEF LegPassed
  <2> QED BY <1>4, <2>1, <2>4, LegsNext DEF SaveAccount
<1>5. CASE LegOpen(w) \/ RetrieveAccount(w) \/ FailureOpen(w) \/ RetrieveTransaction(w)
  <2>1. /\ pc[w] \notin {"idle", "rollback"} /\ pc'[w] \notin {"complete", "rollback"}
        /\ at'[w] = at[w] /\ side'[w] = side[w]
    BY <1>5 DEF LegOpen, RetrieveAccount, FailureOpen, RetrieveTransaction, GoTo,
                IInv, TypeOK
  <2> QED BY <2>1, LegsFrame
<1>6. CASE \E n \in DOMAIN log : Redeliver(w, n)
  BY <1>6, LegsBegin DEF Redeliver
<1>7. CASE \/ UnknownAccount(w) \/ AccountConflict(w) \/ FailureRecorded(w)
           \/ AlreadySettled(w) \/ SaveFailure(w) \/ FailureConflict(w)
           \/ Complete(w) \/ Rollback(w) \/ RollbackRefused(w)
           \/ TransientError(w) \/ AnswerLost(w) \/ Restart(w)
  <2>1. GoIdle(w)
    BY <1>7 DEF UnknownAccount, AccountConflict, FailureRecorded, AlreadySettled,
       SaveFailure, FailureConflict, Complete, Rollback, RollbackRefused,
       TransientError, AnswerLost, Restart, Return, ReturnError
  <2> QED BY <2>1, LegsIdle
<1> QED BY <1>1, <1>2, <1>3, <1>4, <1>5, <1>6, <1>7
        DEF Work, Fault, AccountStep, FailureStep

-------------------------------------------------------------------------------
(***************************************************************************)
(* The invariant about the legs, and what follows from it.                 *)
(***************************************************************************)
\* No transaction has a leg and every worker is idle.
LEMMA InitLegInv == Init => LegInv
<1> SUFFICES ASSUME Init PROVE LegInv
  OBVIOUS
<1>1. DOMAIN log = {}
  BY EmptySeq DEF Init, StoreInit
<1>2. ASSUME NEW t \in Tx PROVE TransactionOK(t)
  <2>1. tx[t].version = 0 /\ tx[t].status = "NONE"
    BY DEF Init, StoreInit, NewTransaction
  <2>2. /\ \A l : ~AppliedLeg(t, l) /\ ~RefusedLeg(t, l)
        /\ ~RefundAsked(t)
    BY <1>1 DEF AppliedLeg, RefusedLeg, RefundAsked
  <2> QED BY <2>1, <2>2 DEF TransactionOK, Keyed
<1>3. ASSUME NEW w \in Worker PROVE LegsOK(w)
  BY DEF LegsOK, Init
<1>4. UnbornAccounts
  BY DEF UnbornAccounts, Init, StoreInit
<1> QED BY <1>2, <1>3, <1>4 DEF LegInv

\* Every step keeps the books of every transaction.
LEMMA NextTransactions ==
  ASSUME IInv, LegInv, [Next]_vars, NEW u \in Tx
  PROVE  TransactionOK(u)'
<1>1. CASE UNCHANGED storeVars
  <2>1. tx'[u] = tx[u] /\ SameLegs(u)
    BY <1>1, SameLog DEF storeVars
  <2> QED BY <2>1, SameTransaction DEF LegInv
<1>2. ASSUME NEW a \in Account, CreateAccount(a) \/ Freeze(a)
      PROVE  TransactionOK(u)'
  BY <1>2, AccountCommandLegs, SameTransaction DEF LegInv
<1>3. ASSUME NEW t \in Tx, NEW from \in Party, NEW to \in Party, NEW money \in Amount,
             CreateTransaction(t, from, to, money)
      PROVE  TransactionOK(u)'
  BY <1>3, CreateTransactionTransaction
<1>4. ASSUME NEW w \in Worker, StoreStep(w)
      PROVE  TransactionOK(u)'
  BY <1>4, SaveAccountTransaction, StoreRefusalTransaction, SettleTransaction,
     RefundTransaction DEF StoreStep
<1>5. ASSUME NEW w \in Worker, Work(w) \/ Fault(w)
      PROVE  TransactionOK(u)'
  BY <1>1, <1>4, <1>5, OtherSteps
<1>6. CASE UNCHANGED vars
  BY <1>1, <1>6 DEF vars
<1> QED BY <1>2, <1>3, <1>5, <1>6 DEF Next, Command

\* The invariant is inductive.
LEMMA NextLegInv == IInv /\ LegInv /\ [Next]_vars => LegInv'
<1> SUFFICES ASSUME IInv, LegInv, [Next]_vars PROVE LegInv'
  OBVIOUS
<1>1. IInv' /\ Grows
  BY NextIInv
<1>2. ASSUME NEW t \in Tx PROVE TransactionOK(t)'
  BY NextTransactions
<1>3. ASSUME NEW u \in Worker PROVE LegsOK(u)'
  <2>1. CASE Command \/ UNCHANGED vars
    <3>1. pc' = pc /\ at' = at /\ side' = side
      BY <2>1 DEF Command, CreateAccount, Freeze, CreateTransaction, vars, workerVars
    <3> QED BY <3>1, <1>1, LegsFrame
  <2>2. ASSUME NEW w \in Worker, Work(w) \/ Fault(w), w # u
        PROVE  LegsOK(u)'
    <3>1. pc'[u] = pc[u] /\ at'[u] = at[u] /\ side'[u] = side[u]
      BY <2>2, OthersStand
    <3> QED BY <3>1, <1>1, LegsFrame
  <2>3. CASE Work(u) \/ Fault(u)
    BY <2>3, <1>1, WorkerLegs
  <2> QED BY <2>1, <2>2, <2>3 DEF Next
<1>4. UnbornAccounts'
  <2> SUFFICES ASSUME NEW a \in Account, acc'[a].version = 0 PROVE acc'[a] = NewAccount
    BY DEF UnbornAccounts
  <2>1. acc'[a] = acc[a] \/ acc'[a].version > acc[a].version
    BY <1>1 DEF Grows
  <2>2. acc[a].version \in Nat
    BY DEF IInv, StoreInv, StoreTypeOK, AccountState
  <2> QED BY <2>1, <2>2 DEF LegInv, UnbornAccounts
<1> QED BY <1>2, <1>3, <1>4 DEF LegInv

\* The books of every transaction are kept and every worker knows what is behind it.
THEOREM LegsInvariance == Spec => [](IInv /\ LegInv)
<1>1. Init => IInv /\ LegInv
  BY InitIInv, InitLegInv
<1>2. (IInv /\ LegInv) /\ [Next]_vars => (IInv /\ LegInv)'
  BY NextIInv, NextLegInv
<1> QED BY <1>1, <1>2, PTL DEF Spec

\* A transaction ends SUCCEEDED only when every leg it has was applied, however
\* often its events were delivered and whichever leg was refused in between.
THEOREM SuccessIsComplete == Spec => []SucceededIsComplete
<1>1. LegInv => SucceededIsComplete
  BY DEF LegInv, TransactionOK, SucceededIsComplete
<1> QED BY <1>1, LegsInvariance, PTL

\* A transaction that FAILED after its withdrawal has asked for the money back.
THEOREM FailureOwesRefund == Spec => []WithdrawnMoneyIsOwed
<1>1. LegInv => WithdrawnMoneyIsOwed
  <2> SUFFICES ASSUME LegInv, NEW t \in Tx, tx[t].status = "FAILED",
                      AppliedLeg(t, "withdraw")
               PROVE  RefundAsked(t)
    BY DEF WithdrawnMoneyIsOwed
  <2>1. TransactionOK(t) /\ "withdraw" \in Leg
    BY DEF LegInv, Leg
  <2> QED BY <2>1 DEF TransactionOK, Keyed
<1> QED BY <1>1, LegsInvariance, PTL

\* Money is given back only for a failed transaction that took it and did not
\* deliver it, whenever and however often its failure is handled.
THEOREM RefundIsJustified == Spec => []RefundJustified
<1>1. LegInv => RefundJustified
  <2> SUFFICES ASSUME LegInv, NEW t \in Tx, AppliedLeg(t, "rollback")
               PROVE  /\ tx[t].status = "FAILED" /\ AppliedLeg(t, "withdraw")
                      /\ ~AppliedLeg(t, "deposit")
    BY DEF RefundJustified
  <2>1. TransactionOK(t) /\ "deposit" \in Leg
    BY DEF LegInv, Leg
  <2> QED BY <2>1 DEF TransactionOK
<1> QED BY <1>1, LegsInvariance, PTL
===============================================================================
