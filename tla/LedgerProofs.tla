----------------------------- MODULE LedgerProofs -----------------------------
(***************************************************************************)
(* The write side implements the ledger, for any number of accounts,       *)
(* transactions, workers and faults: each of the seven steps that store    *)
(* something is a step of Ledger, all others change nothing of it.         *)
(***************************************************************************)
EXTENDS LegProofs

USE DomainAssumption, TransfersAssumption

(***************************************************************************)
(* The variables of the ledger, as TransferProperties!L reads them off.    *)
(***************************************************************************)
LStatus  == [a \in Account |-> acc[a].status]
LBalance == [a \in Account |-> acc[a].balance]
LOrder   == [t \in Tx |-> [from |-> tx[t].from, to |-> tx[t].to, money |-> tx[t].money]]
LOutcome == [t \in Tx |-> tx[t].status]
LLeg     == [t \in Tx |-> [l \in {"withdraw", "deposit"} |-> LegState(t, l)]]
LRefund  == [t \in Tx |-> RefundState(t)]

\* The ledger wraps sums around as the accounts do.
LEMMA LedgerWrap == \A n : L!Wrap(n) = Wrap(n)
BY DEF L!Wrap, Wrap, L!Width, Width

\* Where no leg changes, the ledger's legs and refunds do not.
LEMMA SameLegStates ==
  ASSUME NEW t \in Tx, SameLegs(t)
  PROVE  /\ \A l \in {"withdraw", "deposit"} : LegState(t, l)' = LegState(t, l)
         /\ RefundState(t)' = RefundState(t)
BY DEF SameLegs, LegState, RefundState, Leg

\* Where the legs are the same, so is what the ledger reads of them.
LEMMA SameLedgerLegs ==
  ASSUME \A t \in Tx : SameLegs(t)
  PROVE  LLeg' = LLeg /\ LRefund' = LRefund
BY SameLegStates DEF LLeg, LRefund

\* The account applies one of the two legs.
LEMMA AppliedLedgerLeg ==
  ASSUME NEW t \in Tx, NEW l \in {"withdraw", "deposit"}, LegApplied(t, l)
  PROVE  /\ LLeg[t][l] = "due"
         /\ LLeg' = [LLeg EXCEPT ![t] = [LLeg[t] EXCEPT ![l] = "done"]]
         /\ LRefund' = LRefund
<1>1. /\ \A m \in Leg : /\ AppliedLeg(t, m)' <=> AppliedLeg(t, m) \/ m = l
                        /\ RefusedLeg(t, m)' <=> RefusedLeg(t, m)
      /\ RefundAsked(t)' <=> RefundAsked(t)
      /\ ~Keyed(t, l)
      /\ \A u \in Tx \ {t} : SameLegs(u)
  BY DEF LegApplied
<1>2. "rollback" \in Leg /\ \A m \in {"withdraw", "deposit"} : m \in Leg
  BY DEF Leg
<1>3. \A m \in {"withdraw", "deposit"} :
        LegState(t, m)' = IF m = l THEN "done" ELSE LegState(t, m)
  BY <1>1, <1>2 DEF LegState
<1>4. RefundState(t)' = RefundState(t)
  BY <1>1, <1>2 DEF RefundState
<1>5. LLeg[t][l] = "due"
  BY <1>1 DEF LLeg, LegState, Keyed
<1>6. LLeg' = [LLeg EXCEPT ![t] = [LLeg[t] EXCEPT ![l] = "done"]]
  BY <1>1, <1>3, SameLegStates DEF LLeg
<1>7. LRefund' = LRefund
  BY <1>1, <1>4, SameLegStates DEF LRefund
<1> QED BY <1>5, <1>6, <1>7

\* The account takes its money back.
LEMMA RolledBackLedgerLeg ==
  ASSUME NEW t \in Tx, LegApplied(t, "rollback"), RefundAsked(t)
  PROVE  /\ LRefund[t] = "owed"
         /\ LRefund' = [LRefund EXCEPT ![t] = "paid"]
         /\ LLeg' = LLeg
<1>1. /\ \A m \in Leg : /\ AppliedLeg(t, m)' <=> AppliedLeg(t, m) \/ m = "rollback"
                        /\ RefusedLeg(t, m)' <=> RefusedLeg(t, m)
      /\ ~Keyed(t, "rollback")
      /\ \A u \in Tx \ {t} : SameLegs(u)
  BY DEF LegApplied
<1>2. "rollback" \in Leg /\ \A m \in {"withdraw", "deposit"} : m \in Leg /\ m # "rollback"
  BY DEF Leg
<1>3. \A m \in {"withdraw", "deposit"} : LegState(t, m)' = LegState(t, m)
  BY <1>1, <1>2 DEF LegState
<1>4. RefundState(t)' = "paid" /\ RefundState(t) = "owed"
  BY <1>1, <1>2 DEF RefundState, Keyed
<1>5. LLeg' = LLeg
  BY <1>1, <1>3, SameLegStates DEF LLeg
<1>6. LRefund' = [LRefund EXCEPT ![t] = "paid"]
  BY <1>1, <1>4, SameLegStates DEF LRefund
<1> QED BY <1>4, <1>5, <1>6 DEF LRefund

\* The transaction takes the key of a leg that the account refused.
LEMMA RefusedLedgerLeg ==
  ASSUME IInv, LegInv, NEW t \in Tx, NEW l \in {"withdraw", "deposit"}, LegRefused(t, l)
  PROVE  /\ LLeg[t][l] = "due" /\ LOutcome[t] = "PENDING" /\ LRefund[t] = "none"
         /\ LLeg' = [LLeg EXCEPT ![t] = [LLeg[t] EXCEPT ![l] = "refused"]]
         /\ LRefund' = [LRefund EXCEPT ![t] =
                          IF l = "withdraw" \/ LOrder[t].from = Nobody THEN "none" ELSE "owed"]
         /\ LOutcome' = [LOutcome EXCEPT ![t] = "FAILED"]
         /\ UNCHANGED <<LStatus, LBalance, LOrder>>
<1>1. /\ \A m \in Leg : /\ AppliedLeg(t, m)' <=> AppliedLeg(t, m)
                        /\ RefusedLeg(t, m)' <=> RefusedLeg(t, m) \/ m = l
      /\ RefundAsked(t)' <=> RefundAsked(t) \/ (l = "deposit" /\ tx[t].from # Nobody)
      /\ ~Keyed(t, l) /\ tx[t].status = "PENDING" /\ acc' = acc
      /\ \A u \in Tx \ {t} : tx'[u] = tx[u] /\ SameLegs(u)
      /\ tx'[t] = [tx[t] EXCEPT !.version = tx[t].version + 1, !.status = "FAILED"]
  BY DEF LegRefused, IsPending, NeedsRollback
<1>2. "rollback" \in Leg /\ \A m \in {"withdraw", "deposit"} : m \in Leg
  BY DEF Leg
<1>3. \A m \in {"withdraw", "deposit"} :
        LegState(t, m)' = IF m = l THEN "refused" ELSE LegState(t, m)
  BY <1>1, <1>2 DEF LegState, Keyed
<1>4. /\ RefundState(t) = "none"
      /\ RefundState(t)' = IF l = "withdraw" \/ tx[t].from = Nobody THEN "none" ELSE "owed"
  <2>1. TransactionOK(t)
    BY DEF LegInv
  <2>2. ~RefundAsked(t) /\ ~AppliedLeg(t, "rollback")
    BY <1>1, <2>1 DEF TransactionOK
  <2> QED BY <1>1, <1>2, <2>2 DEF RefundState
<1>5. tx[t] \in TransactionState
  BY DEF IInv, StoreInv, StoreTypeOK
<1>6. /\ tx'[t].status = "FAILED" /\ tx'[t].from = tx[t].from /\ tx'[t].to = tx[t].to
      /\ tx'[t].money = tx[t].money
  BY <1>1, <1>5 DEF TransactionState
<1>7. LLeg[t][l] = "due" /\ LOutcome[t] = "PENDING" /\ LRefund[t] = "none"
  BY <1>1, <1>4 DEF LLeg, LegState, Keyed, LOutcome, LRefund
<1>8. LLeg' = [LLeg EXCEPT ![t] = [LLeg[t] EXCEPT ![l] = "refused"]]
  <2>1. \A u \in Tx \ {t} : SameLegs(u)
    BY <1>1
  <2> QED BY <2>1, <1>3, SameLegStates DEF LLeg
<1>9. LRefund' = [LRefund EXCEPT ![t] =
                    IF l = "withdraw" \/ LOrder[t].from = Nobody THEN "none" ELSE "owed"]
  BY <1>1, <1>4, SameLegStates DEF LRefund, LOrder
<1>10. LOutcome' = [LOutcome EXCEPT ![t] = "FAILED"]
  BY <1>1, <1>6 DEF LOutcome
<1>11. UNCHANGED <<LStatus, LBalance, LOrder>>
  BY <1>1, <1>6 DEF LStatus, LBalance, LOrder
<1> QED BY <1>7, <1>8, <1>9, <1>10, <1>11

\* An account accepts a deposit or a withdrawal: its status stays the same.
LEMMA MoneyMoves ==
  ASSUME IInv, NEW e, NEW a \in Account, e.agg = a, StoreAccountEvent(e),
         NEW balance, balance = HandleAccountEvent(acc[a], e).balance,
         e.kind \in {"MoneyDeposited", "MoneyWithdrawn"}
  PROVE  /\ LBalance' = [LBalance EXCEPT ![a] = balance]
         /\ UNCHANGED <<LStatus, LOrder, LOutcome>>
<1>1. /\ acc \in [Account -> AccountState] /\ tx' = tx
      /\ acc' = [acc EXCEPT ![a] = HandleAccountEvent(acc[a], e)]
  BY DEF StoreAccountEvent, IInv, StoreInv, StoreTypeOK
<1>2. HandleAccountEvent(acc[a], e).status = acc[a].status
  BY DEF HandleAccountEvent
<1>3. /\ acc'[a].status = acc[a].status /\ acc'[a].balance = balance
      /\ \A b \in Account \ {a} : acc'[b] = acc[b]
  BY <1>1, <1>2
<1>4. LBalance' = [LBalance EXCEPT ![a] = balance]
  BY <1>3 DEF LBalance
<1>5. LStatus' = LStatus
  BY <1>3 DEF LStatus
<1> QED BY <1>1, <1>4, <1>5 DEF LOrder, LOutcome

-------------------------------------------------------------------------------
(***************************************************************************)
(* The seven steps.                                                        *)
(***************************************************************************)
\* A leg that is applied is a debit or a credit: the withdrawal is covered by the
\* balance at this very moment, and the deposit comes after it.
LEMMA SaveAccountLedger ==
  ASSUME IInv, LegInv, NEW w \in Worker, SaveAccount(w)
  PROVE  \E t \in Tx : L!Debit(t) \/ L!Credit(t)
<1>1. PICK t, l, a : t = Current(w) /\ l = side[w] /\ a = AccountOf(w)
  OBVIOUS
<1>2. LegApplied(t, l)
  BY <1>1, SaveAccountLegs
<1>3. /\ t \in Tx /\ l \in {"withdraw", "deposit"} /\ TransactionOK(t)
      /\ a \in Account
      /\ a = IF l = "withdraw" THEN tx[t].from ELSE tx[t].to
      /\ l = "withdraw" => IsPending(tx[t])
      /\ l = "deposit" => tx[t].from = Nobody \/ Keyed(t, "withdraw")
  BY <1>1, <1>2, LegDue DEF LegApplied
<1>4. Accepts(acc[a], l, tx[t].money) /\ StoreAccountEvent(MoneyEvent(w))
  BY <1>1, SaveAccountDecided DEF SaveAccount
<1>5. /\ LLeg[t][l] = "due"
      /\ LLeg' = [LLeg EXCEPT ![t] = [LLeg[t] EXCEPT ![l] = "done"]]
      /\ LRefund' = LRefund
  BY <1>2, <1>3, AppliedLedgerLeg
<1>6. LOrder[t] = [from |-> tx[t].from, to |-> tx[t].to, money |-> tx[t].money]
  BY <1>3 DEF LOrder
<1>7. CASE l = "withdraw"
  <2>1. PICK e : e = MoneyEvent(w)
    OBVIOUS
  <2>2. e.agg = a /\ e.kind = "MoneyWithdrawn" /\ e.money = tx[t].money
    BY <1>1, <1>7, <2>1 DEF MoneyEvent, AccountEvent
  <2>3. HandleAccountEvent(acc[a], e).balance = Wrap(acc[a].balance - tx[t].money)
    BY <2>2 DEF HandleAccountEvent
  <2>4. /\ LBalance' = [LBalance EXCEPT ![a] = Wrap(acc[a].balance - tx[t].money)]
        /\ UNCHANGED <<LStatus, LOrder, LOutcome>>
    BY <1>3, <1>4, <2>1, <2>2, <2>3, MoneyMoves
  <2>5. /\ LBalance[a] = acc[a].balance /\ LStatus[a] = "OPEN" /\ LOutcome[t] = "PENDING"
        /\ acc[a].balance >= tx[t].money
    <3>1. acc[a].balance \in Int /\ tx[t].money \in Int
      BY <1>1, <1>3, Busy DEF SaveAccount, IInv, StoreInv, StoreTypeOK, AccountState,
                              TransactionState, Int64
    <3> QED BY <3>1, <1>3, <1>4, <1>7 DEF LBalance, LStatus, LOutcome, Accepts,
                                          CanWithdraw, IsPending
  <2>6. L!Debit(t)
    BY <1>3, <1>5, <1>6, <1>7, <2>4, <2>5, LedgerWrap
       DEF L!Debit, LStatus, LBalance, LOrder, LOutcome, LLeg, LRefund
  <2> QED BY <1>3, <2>6
<1>8. CASE l = "deposit"
  <2>1. PICK e : e = MoneyEvent(w)
    OBVIOUS
  <2>2. e.agg = a /\ e.kind = "MoneyDeposited" /\ e.money = tx[t].money
    BY <1>1, <1>8, <2>1 DEF MoneyEvent, AccountEvent
  <2>3. HandleAccountEvent(acc[a], e).balance = Wrap(acc[a].balance + tx[t].money)
    BY <2>2 DEF HandleAccountEvent
  <2>4. /\ LBalance' = [LBalance EXCEPT ![a] = Wrap(acc[a].balance + tx[t].money)]
        /\ UNCHANGED <<LStatus, LOrder, LOutcome>>
    BY <1>3, <1>4, <2>1, <2>2, <2>3, MoneyMoves
  <2>5. LBalance[a] = acc[a].balance /\ LStatus[a] = "OPEN"
    BY <1>3, <1>4, <1>8 DEF LBalance, LStatus, Accepts, CanDeposit
  <2>6. tx[t].from = Nobody \/ LLeg[t]["withdraw"] # "due"
    BY <1>3, <1>8 DEF Keyed, LLeg, LegState
  <2>7. L!Credit(t)
    BY <1>3, <1>5, <1>6, <1>8, <2>4, <2>5, <2>6, LedgerWrap
       DEF L!Credit, LStatus, LBalance, LOrder, LOutcome, LLeg, LRefund
  <2> QED BY <1>3, <2>7
<1> QED BY <1>3, <1>7, <1>8

\* A leg that the account refused: the transaction was pending, so its withdrawal, if
\* it is the deposit that is refused, was applied and is now owed.
LEMMA StoreRefusalLedger ==
  ASSUME IInv, LegInv, NEW w \in Worker, StoreRefusal(w)
  PROVE  \E t \in Tx : L!RefuseDebit(t) \/ L!RefuseCredit(t)
<1>1. PICK t, l, a : t = Current(w) /\ l = side[w] /\ a = AccountOf(w)
  OBVIOUS
<1>2. LegRefused(t, l)
  BY <1>1, StoreRefusalLegs
<1>3. /\ t \in Tx /\ l \in {"withdraw", "deposit"} /\ TransactionOK(t)
      /\ a \in Account
      /\ a = IF l = "withdraw" THEN tx[t].from ELSE tx[t].to
      /\ l = "deposit" => tx[t].from = Nobody \/ Keyed(t, "withdraw")
  BY <1>1, <1>2, LegDue DEF LegRefused
<1>4. /\ LLeg[t][l] = "due" /\ LOutcome[t] = "PENDING" /\ LRefund[t] = "none"
      /\ LLeg' = [LLeg EXCEPT ![t] = [LLeg[t] EXCEPT ![l] = "refused"]]
      /\ LRefund' = [LRefund EXCEPT ![t] =
                       IF l = "withdraw" \/ LOrder[t].from = Nobody THEN "none" ELSE "owed"]
      /\ LOutcome' = [LOutcome EXCEPT ![t] = "FAILED"]
      /\ UNCHANGED <<LStatus, LBalance, LOrder>>
  BY <1>2, <1>3, RefusedLedgerLeg
<1>5. /\ LOrder[t] = [from |-> tx[t].from, to |-> tx[t].to, money |-> tx[t].money]
      /\ a # Nobody
  BY <1>3 DEF LOrder
<1>6. CASE l = "withdraw"
  <2>1. LRefund' = LRefund
    BY <1>4, <1>6 DEF LRefund
  <2>2. L!RefuseDebit(t)
    BY <1>3, <1>4, <1>5, <1>6, <2>1
       DEF L!RefuseDebit, LStatus, LBalance, LOrder, LOutcome, LLeg, LRefund
  <2> QED BY <1>3, <2>2
<1>7. CASE l = "deposit"
  <2>1. tx[t].from = Nobody \/ LLeg[t]["withdraw"] = "done"
    <3>1. ~RefusedLeg(t, "withdraw")
      BY <1>2, <1>3 DEF LegRefused, IsPending, TransactionOK
    <3> QED BY <1>3, <1>7, <3>1 DEF Keyed, LLeg, LegState
  <2>2. LRefund' = [LRefund EXCEPT ![t] = IF tx[t].from = Nobody THEN "none" ELSE "owed"]
    BY <1>4, <1>5, <1>7
  <2>3. L!RefuseCredit(t)
    BY <1>3, <1>4, <1>5, <1>7, <2>1, <2>2
       DEF L!RefuseCredit, LStatus, LBalance, LOrder, LOutcome, LLeg, LRefund
  <2> QED BY <1>3, <2>3
<1> QED BY <1>3, <1>6, <1>7

\* A transaction completes when each of its legs was applied.
LEMMA SettleLedger ==
  ASSUME IInv, LegInv, NEW w \in Worker, Settle(w), IsPending(tx[Current(w)])
  PROVE  \E t \in Tx : L!Succeed(t)
<1>1. PICK t : t = Current(w)
  OBVIOUS
<1>2. /\ t \in Tx /\ tx[t] \in TransactionState
      /\ tx[t].from # Nobody => AppliedLeg(t, "withdraw")
      /\ tx[t].to # Nobody => AppliedLeg(t, "deposit")
  BY <1>1, SettleApplied
<1>3. /\ tx \in [Tx -> TransactionState] /\ acc' = acc /\ tx[t].status = "PENDING"
      /\ tx' = [tx EXCEPT ![t] = [tx[t] EXCEPT !.version = tx[t].version + 1,
                                               !.status = "SUCCEEDED"]]
      /\ \A u \in Tx : SameLegs(u)
  BY <1>1, SettleLegs DEF IInv, StoreInv, StoreTypeOK, IsPending
<1>4. LLeg' = LLeg /\ LRefund' = LRefund
  BY <1>3, SameLedgerLegs
<1>5. /\ tx'[t].status = "SUCCEEDED" /\ tx'[t].from = tx[t].from /\ tx'[t].to = tx[t].to
      /\ tx'[t].money = tx[t].money
      /\ \A u \in Tx \ {t} : tx'[u] = tx[u]
  BY <1>2, <1>3 DEF TransactionState
<1>6. /\ LOutcome' = [LOutcome EXCEPT ![t] = "SUCCEEDED"]
      /\ LOrder' = LOrder /\ LStatus' = LStatus /\ LBalance' = LBalance
  BY <1>3, <1>5 DEF LOutcome, LOrder, LStatus, LBalance
<1>7. /\ LOutcome[t] = "PENDING"
      /\ LOrder[t] = [from |-> tx[t].from, to |-> tx[t].to, money |-> tx[t].money]
      /\ tx[t].from = Nobody \/ LLeg[t]["withdraw"] = "done"
      /\ tx[t].to = Nobody \/ LLeg[t]["deposit"] = "done"
  BY <1>2, <1>3 DEF LOutcome, LOrder, LLeg, LegState
<1>8. L!Succeed(t)
  BY <1>2, <1>4, <1>6, <1>7
     DEF L!Succeed, LStatus, LBalance, LOrder, LOutcome, LLeg, LRefund
<1> QED BY <1>2, <1>8

\* Money goes back to an open account, for a transaction that owes it.
LEMMA RefundLedger ==
  ASSUME IInv, LegInv, NEW w \in Worker, Refund(w),
         ~HasIdempotencyKey(Current(w), "rollback")
  PROVE  \E t \in Tx : L!Refund(t)
<1>1. PICK t : t = Current(w)
  OBVIOUS
<1>2. t \in Tx /\ tx[t].from \in Account /\ RefundAsked(t)
  BY <1>1, Busy DEF Refund, LegInv, LegsOK
<1>3. PICK a \in Account : a = tx[t].from
  BY <1>2
<1>4. PICK e : e = AccountEvent("MoneyDeposited", a, acc[a].version + 1, t, "rollback",
                                tx[t].money)
  OBVIOUS
<1>5. StoreAccountEvent(e) /\ acc[a].status = "OPEN"
  BY <1>1, <1>3, <1>4 DEF Refund, RefundEvent, Refundable, CanDeposit
<1>6. e.agg = a /\ e.kind = "MoneyDeposited" /\ e.money = tx[t].money
  BY <1>4 DEF AccountEvent
<1>7. HandleAccountEvent(acc[a], e).balance = Wrap(acc[a].balance + tx[t].money)
  BY <1>6 DEF HandleAccountEvent
<1>8. /\ LBalance' = [LBalance EXCEPT ![a] = Wrap(acc[a].balance + tx[t].money)]
      /\ UNCHANGED <<LStatus, LOrder, LOutcome>>
  BY <1>5, <1>6, <1>7, MoneyMoves
<1>9. /\ LRefund[t] = "owed" /\ LLeg' = LLeg
      /\ LRefund' = [LRefund EXCEPT ![t] = "paid"]
  BY <1>1, <1>2, RefundLegs, RolledBackLedgerLeg
<1>10. /\ LBalance[a] = acc[a].balance /\ LStatus[a] = "OPEN"
       /\ LOrder[t] = [from |-> a, to |-> tx[t].to, money |-> tx[t].money]
  BY <1>2, <1>3, <1>5 DEF LBalance, LStatus, LOrder
<1>11. L!Refund(t)
  BY <1>2, <1>8, <1>9, <1>10, LedgerWrap
     DEF L!Refund, LStatus, LBalance, LOrder, LOutcome, LLeg, LRefund
<1> QED BY <1>2, <1>11

\* The commands: an account is opened or frozen, a transaction is placed.
LEMMA CreateAccountLedger ==
  ASSUME IInv, LegInv, NEW a \in Account, CreateAccount(a)
  PROVE  L!OpenAccount(a)
<1>1. PICK e : e = AccountEvent("AccountCreated", a, 1, Nobody, "none", 0)
  OBVIOUS
<1>2. e.agg = a /\ e.kind = "AccountCreated" /\ e.money = 0 /\ StoreAccountEvent(e)
  BY <1>1 DEF AccountEvent, CreateAccount
<1>3. acc[a].status = "NONE" /\ acc[a].balance = 0
  BY DEF LegInv, UnbornAccounts, CreateAccount, NewAccount
<1>4. /\ acc \in [Account -> AccountState] /\ tx' = tx
      /\ acc' = [acc EXCEPT ![a] = HandleAccountEvent(acc[a], e)]
  BY <1>2 DEF StoreAccountEvent, IInv, StoreInv, StoreTypeOK
<1>5. /\ acc'[a].status = "OPEN" /\ acc'[a].balance = acc[a].balance
      /\ \A b \in Account \ {a} : acc'[b] = acc[b]
  BY <1>2, <1>3, <1>4 DEF HandleAccountEvent
<1>6. /\ LStatus[a] = "NONE" /\ LStatus' = [LStatus EXCEPT ![a] = "OPEN"]
      /\ LBalance' = LBalance /\ LOrder' = LOrder /\ LOutcome' = LOutcome
  BY <1>3, <1>4, <1>5 DEF LStatus, LBalance, LOrder, LOutcome
<1>7. LLeg' = LLeg /\ LRefund' = LRefund
  BY AccountCommandLegs, SameLedgerLegs
<1> QED BY <1>6, <1>7 DEF L!OpenAccount, LStatus, LBalance, LOrder, LOutcome, LLeg, LRefund

\* PATCH /accounts/:id freezes the account of the ledger.
LEMMA FreezeLedger ==
  ASSUME IInv, LegInv, NEW a \in Account, Freeze(a)
  PROVE  L!Freeze(a)
<1>1. PICK e : e = AccountEvent("AccountFrozen", a, acc[a].version + 1, Nobody, "none", 0)
  OBVIOUS
<1>2. e.agg = a /\ e.kind = "AccountFrozen" /\ StoreAccountEvent(e)
  BY <1>1 DEF AccountEvent, Freeze
<1>3. /\ acc \in [Account -> AccountState] /\ tx' = tx
      /\ acc' = [acc EXCEPT ![a] = HandleAccountEvent(acc[a], e)]
  BY <1>2 DEF StoreAccountEvent, IInv, StoreInv, StoreTypeOK
<1>4. /\ acc'[a].status = "FROZEN" /\ acc'[a].balance = acc[a].balance
      /\ \A b \in Account \ {a} : acc'[b] = acc[b]
  BY <1>2, <1>3 DEF HandleAccountEvent
<1>5. /\ a \in Freezable /\ LStatus[a] = "OPEN" /\ LStatus' = [LStatus EXCEPT ![a] = "FROZEN"]
      /\ LBalance' = LBalance /\ LOrder' = LOrder /\ LOutcome' = LOutcome
  BY <1>3, <1>4 DEF Freeze, LStatus, LBalance, LOrder, LOutcome
<1>6. LLeg' = LLeg /\ LRefund' = LRefund
  BY AccountCommandLegs, SameLedgerLegs
<1> QED BY <1>5, <1>6 DEF L!Freeze, LStatus, LBalance, LOrder, LOutcome, LLeg, LRefund

\* POST /transactions registers the transfer.
LEMMA CreateTransactionLedger ==
  ASSUME IInv, LegInv, NEW t \in Tx, NEW from \in Party, NEW to \in Party,
         NEW money \in Amount, CreateTransaction(t, from, to, money)
  PROVE  L!Place(t, from, to, money)
<1>1. /\ tx \in [Tx -> TransactionState] /\ acc' = acc
      /\ tx' = [tx EXCEPT ![t] = [version |-> 1, status |-> "PENDING",
                                  from |-> from, to |-> to, money |-> money]]
      /\ \A u \in Tx : SameLegs(u)
  BY CreateTransactionLegs DEF IInv, StoreInv, StoreTypeOK
<1>2. LOutcome[t] = "NONE"
  BY DEF LegInv, TransactionOK, CreateTransaction, LOutcome
<1>3. /\ LOrder' = [LOrder EXCEPT ![t] = [from |-> from, to |-> to, money |-> money]]
      /\ LOutcome' = [LOutcome EXCEPT ![t] = "PENDING"]
      /\ LStatus' = LStatus /\ LBalance' = LBalance
  BY <1>1 DEF LOrder, LOutcome, LStatus, LBalance
<1>4. LLeg' = LLeg /\ LRefund' = LRefund
  BY <1>1, SameLedgerLegs
<1> QED BY <1>2, <1>3, <1>4 DEF L!Place, LStatus, LBalance, LOrder, LOutcome, LLeg, LRefund

-------------------------------------------------------------------------------
(***************************************************************************)
(* The refinement.                                                         *)
(***************************************************************************)
\* The empty store is the empty ledger.
LEMMA InitLedger == Init => L!Init
<1> SUFFICES ASSUME Init PROVE L!Init
  OBVIOUS
<1>1. DOMAIN log = {}
  BY EmptySeq DEF Init, StoreInit
<1>2. \A t \in Tx : RefundState(t) = "none" /\ \A l : LegState(t, l) = "due"
  BY <1>1 DEF RefundState, LegState, AppliedLeg, RefusedLeg, RefundAsked
<1>3. /\ LStatus = [a \in Account |-> "NONE"] /\ LBalance = [a \in Account |-> 0]
      /\ LOrder = [t \in Tx |-> [from |-> Nobody, to |-> Nobody, money |-> 0]]
      /\ LOutcome = [t \in Tx |-> "NONE"]
  BY DEF Init, StoreInit, NewAccount, NewTransaction, LStatus, LBalance, LOrder, LOutcome
<1>4. /\ LLeg = [t \in Tx |-> [l \in {"withdraw", "deposit"} |-> "due"]]
      /\ LRefund = [t \in Tx |-> "none"]
  BY <1>2 DEF LLeg, LRefund
<1> QED BY <1>3, <1>4 DEF L!Init, L!TwoLegs, LStatus, LBalance, LOrder, LOutcome, LLeg, LRefund

\* What leaves the store as it is leaves the ledger as it is.
LEMMA LedgerStutters == UNCHANGED storeVars => UNCHANGED L!ledgerVars
<1> SUFFICES ASSUME UNCHANGED storeVars PROVE UNCHANGED L!ledgerVars
  OBVIOUS
<1>1. log' = log /\ acc' = acc /\ tx' = tx
  BY DEF storeVars
<1>2. LLeg' = LLeg /\ LRefund' = LRefund
  BY <1>1, SameLog, SameLedgerLegs
<1>3. LStatus' = LStatus /\ LBalance' = LBalance /\ LOrder' = LOrder /\ LOutcome' = LOutcome
  BY <1>1 DEF LStatus, LBalance, LOrder, LOutcome
<1> QED BY <1>2, <1>3 DEF L!ledgerVars, LStatus, LBalance, LOrder, LOutcome, LLeg, LRefund

\* Every step either leaves the store alone or is a step of the ledger.
LEMMA LedgerStep ==
  ASSUME IInv, LegInv, [Next]_vars
  PROVE  UNCHANGED storeVars \/ L!Next
<1>1. ASSUME NEW a \in Account, CreateAccount(a) \/ Freeze(a)
      PROVE  L!Next
  BY <1>1, CreateAccountLedger, FreezeLedger DEF L!Next
<1>2. ASSUME NEW t \in Tx, NEW from \in Party, NEW to \in Party, NEW money \in Amount,
             CreateTransaction(t, from, to, money)
      PROVE  L!Next
  <2>1. L!Place(t, from, to, money)
    BY <1>2, CreateTransactionLedger
  <2> QED BY <2>1 DEF L!Next, L!Party, Party
<1>3. ASSUME NEW w \in Worker, StoreStep(w)
      PROVE  L!Next
  BY <1>3, SaveAccountLedger, StoreRefusalLedger, SettleLedger, RefundLedger
     DEF StoreStep, L!Next
<1>4. ASSUME NEW w \in Worker, Work(w) \/ Fault(w)
      PROVE  UNCHANGED storeVars \/ L!Next
  BY <1>3, <1>4, OtherSteps
<1>5. UNCHANGED vars => UNCHANGED storeVars
  BY DEF vars
<1> QED BY <1>1, <1>2, <1>4, <1>5 DEF Next, Command

\* The write side implements the ledger: legs, outcomes and refunds happen atomically
\* and at most once, although each takes several calls to the store, whatever the
\* number of workers and whatever is redelivered, retried or interrupted.
THEOREM WriteSideImplementsLedger == Spec => ImplementsLedger
<1>1. IInv /\ LegInv /\ [Next]_vars => [L!Next]_(L!ledgerVars)
  BY LedgerStep, LedgerStutters
<1>2. Init => L!Init
  BY InitLedger
<1> QED BY <1>1, <1>2, LegsInvariance, PTL DEF Spec, ImplementsLedger, L!Spec

\* Every step that changes the store is a step of the ledger.
THEOREM StoreStepsAreLedgerSteps == Spec => LedgerSteps
<1>1. IInv /\ LegInv /\ [Next]_vars => [UNCHANGED storeVars \/ L!Next]_(L!ledgerVars)
  BY LedgerStep
<1> QED BY <1>1, LegsInvariance, PTL DEF Spec, LedgerSteps
===============================================================================
