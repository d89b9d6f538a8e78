--------------------------- MODULE ProjectionProofs ---------------------------
(***************************************************************************)
(* Theorems about the read side, in layers that each build on the one      *)
(* before: the types (TypeInv); with one worker, that the event past the   *)
(* guard of the handler is newer than every document (AheadInv); with a    *)
(* worker that also retries in order, that nothing is passed over          *)
(* (OrderInv); and that every event is applied once (BalanceInv).          *)
(*                                                                         *)
(* Replay is a recursive function.  What it computes is proved by the      *)
(* least counterexample: no natural number is the first to break a         *)
(* property that 0 has and n hands on to n + 1.                            *)
(***************************************************************************)
EXTENDS Projection, SequenceTheorems, WellFoundedInduction, TLAPS

-------------------------------------------------------------------------------
(***************************************************************************)
(* Natural numbers.                                                        *)
(***************************************************************************)
\* A non-empty set of natural numbers has a least element.  What holds of 0 and is
\* passed on from n to n + 1 is proved from this, as there is no least exception.
LEMMA Least ==
  ASSUME NEW S \in SUBSET Nat, S # {}
  PROVE  \E m \in S : \A n \in S : m <= n
<1>1. PICK m \in S : \A n \in S : <<n, m>> \notin OpToRel(<, Nat)
  BY NatLessThanWellFounded, WFMin
<1>2. \A n \in S : ~(n < m)
  BY <1>1, Zenon DEF OpToRel
<1> QED BY <1>2

\* A bounded set of natural numbers has a greatest element, and Max chooses it.
LEMMA Greatest ==
  ASSUME NEW S \in SUBSET Nat, S # {}, NEW b \in Nat, \A x \in S : x <= b
  PROVE  Max(S) \in S /\ \A x \in S : x <= Max(S)
<1> DEFINE Bounds == {u \in Nat : \A x \in S : x <= u}
<1>0. Bounds \in SUBSET Nat /\ b \in Bounds
  OBVIOUS
<1>1. PICK m \in Bounds : \A u \in Bounds : m <= u
  BY <1>0, Least
<1>2. m \in S
  <2> SUFFICES ASSUME m \notin S PROVE FALSE
    OBVIOUS
  <2>1. \A x \in S : x \in Nat /\ x < m
    BY <1>1
  <2>2. m \in Nat /\ m # 0 /\ m - 1 \in Nat
    <3>1. PICK x \in S : x \in Nat /\ x < m
      BY <2>1
    <3> QED BY <1>1, <3>1
  <2>3. \A x \in S : x <= m - 1
    BY <2>1, <2>2
  <2>4. m - 1 \in Bounds
    BY <2>2, <2>3
  <2> QED BY <1>1, <2>2, <2>4
<1>3. \E x \in S : \A y \in S : x >= y
  BY <1>2
<1> QED BY <1>3 DEF Max

-------------------------------------------------------------------------------
(***************************************************************************)
(* The balance that a sequence of events adds up to.                       *)
(***************************************************************************)
\* The function that Replay defines by recursion.
IsBalance(f, s, a, n) ==
  f = [i \in 0..n |->
        IF i = 0 THEN 0
        ELSE IF s[i].agg = a THEN Wrap(f[i - 1] + Delta(s[i]))
        ELSE f[i - 1]]

BalanceOf(s, a, n) == (CHOOSE f : IsBalance(f, s, a, n))[n]

\* Replay is that balance, of what has been published.
LEMMA ReplayIsBalance ==
  ASSUME NEW a, NEW n
  PROVE  Replay(a, n) = BalanceOf(feed, a, n)
BY DEF Replay, BalanceOf, IsBalance

Agree(s, r, k) == \A i \in 1..k : s[i] = r[i]

\* Where two sequences agree, so do their balances.
LEMMA BalanceAgrees ==
  ASSUME NEW s, NEW r, NEW a, NEW k \in Nat, Agree(s, r, k),
         NEW m \in Nat, k <= m, NEW n \in Nat, k <= n,
         NEW f, IsBalance(f, s, a, m), NEW g, IsBalance(g, r, a, n)
  PROVE  \A i \in 0..k : f[i] = g[i]
<1> SUFFICES ASSUME NEW i0 \in 0..k, f[i0] # g[i0] PROVE FALSE
  OBVIOUS
<1> DEFINE Wrong == {i \in 0..k : f[i] # g[i]}
<1>0. Wrong \in SUBSET Nat /\ i0 \in Wrong
  OBVIOUS
<1>1. PICK i \in Wrong : \A j \in Wrong : i <= j
  <2> HIDE DEF Wrong
  <2> QED BY <1>0, Least
<1>2. CASE i = 0
  BY <1>1, <1>2 DEF IsBalance
<1>3. CASE i # 0
  <2>1. i - 1 \in 0..k /\ i \in 1..k /\ i - 1 \notin Wrong
    BY <1>1, <1>3
  <2>2. f[i - 1] = g[i - 1] /\ s[i] = r[i]
    BY <2>1 DEF Agree
  <2>3. /\ f[i] = IF s[i].agg = a THEN Wrap(f[i - 1] + Delta(s[i])) ELSE f[i - 1]
        /\ g[i] = IF r[i].agg = a THEN Wrap(g[i - 1] + Delta(r[i])) ELSE g[i - 1]
    BY <1>3, <2>1 DEF IsBalance
  <2> QED BY <2>2, <2>3
<1> QED BY <1>2, <1>3

\* The function exists.
LEMMA BalanceExists ==
  ASSUME NEW s, NEW a, NEW n \in Nat
  PROVE  \E f : IsBalance(f, s, a, n)
<1> SUFFICES ASSUME ~\E f : IsBalance(f, s, a, n) PROVE FALSE
  OBVIOUS
<1> DEFINE Without == {m \in Nat : ~\E f : IsBalance(f, s, a, m)}
<1>1. PICK m \in Without : \A j \in Without : m <= j
  BY Least
<1>2. CASE m = 0
  <2>1. IsBalance([i \in 0..0 |-> 0], s, a, 0)
    BY DEF IsBalance
  <2> QED BY <1>2, <2>1
<1>3. CASE m # 0
  <2>1. m - 1 \in Nat /\ m - 1 \notin Without
    BY <1>1, <1>3
  <2>2. PICK f : IsBalance(f, s, a, m - 1)
    BY <2>1
  <2> DEFINE g == [i \in 0..m |-> IF i = m THEN IF s[i].agg = a THEN Wrap(f[i - 1] + Delta(s[i]))
                                                ELSE f[i - 1]
                                  ELSE f[i]]
  <2>3. \A i \in 0..m : g[i] = IF i = 0 THEN 0
                               ELSE IF s[i].agg = a THEN Wrap(g[i - 1] + Delta(s[i]))
                               ELSE g[i - 1]
    <3> SUFFICES ASSUME NEW i \in 0..m
                 PROVE  g[i] = IF i = 0 THEN 0
                               ELSE IF s[i].agg = a THEN Wrap(g[i - 1] + Delta(s[i]))
                               ELSE g[i - 1]
      OBVIOUS
    <3>1. CASE i = m
      BY <3>1, <1>3
    <3>2. CASE i # m
      <4>1. i \in 0..(m - 1) /\ g[i] = f[i]
        BY <3>2
      <4>2. i # 0 => g[i - 1] = f[i - 1]
        BY <3>2
      <4> QED BY <2>2, <4>1, <4>2 DEF IsBalance
    <3> QED BY <3>1, <3>2
  <2>4. IsBalance(g, s, a, m)
    BY <2>3 DEF IsBalance
  <2> QED BY <2>4
<1> QED BY <1>2, <1>3

\* The recursion that the balance follows.
LEMMA BalanceStep ==
  ASSUME NEW s, NEW a, NEW n \in Nat
  PROVE  BalanceOf(s, a, n) =
           IF n = 0 THEN 0
           ELSE IF s[n].agg = a THEN Wrap(BalanceOf(s, a, n - 1) + Delta(s[n]))
           ELSE BalanceOf(s, a, n - 1)
<1>1. PICK f : IsBalance(f, s, a, n) /\ BalanceOf(s, a, n) = f[n]
  BY BalanceExists DEF BalanceOf
<1>2. CASE n = 0
  BY <1>1, <1>2 DEF IsBalance
<1>3. CASE n # 0
  <2>1. n - 1 \in Nat
    BY <1>3
  <2>2. PICK g : IsBalance(g, s, a, n - 1) /\ BalanceOf(s, a, n - 1) = g[n - 1]
    BY <2>1, BalanceExists DEF BalanceOf
  <2>3. \A i \in 0..(n - 1) : f[i] = g[i]
    <3>1. n - 1 <= n /\ n - 1 <= n - 1
      BY <2>1
    <3>2. Agree(s, s, n - 1)
      BY DEF Agree
    <3> QED BY <1>1, <2>1, <2>2, <3>1, <3>2, BalanceAgrees
  <2>3a. f[n - 1] = g[n - 1]
    BY <2>1, <2>3
  <2>4. f[n] = IF s[n].agg = a THEN Wrap(f[n - 1] + Delta(s[n])) ELSE f[n - 1]
    BY <1>1, <1>3 DEF IsBalance
  <2> QED BY <1>1, <1>3, <2>2, <2>3a, <2>4
<1> QED BY <1>2, <1>3

\* The balance depends on the events up to it.
LEMMA BalancePrefix ==
  ASSUME NEW s, NEW r, NEW a, NEW n \in Nat, Agree(s, r, n)
  PROVE  BalanceOf(s, a, n) = BalanceOf(r, a, n)
<1>1. PICK f : IsBalance(f, s, a, n) /\ BalanceOf(s, a, n) = f[n]
  BY BalanceExists DEF BalanceOf
<1>2. PICK g : IsBalance(g, r, a, n) /\ BalanceOf(r, a, n) = g[n]
  BY BalanceExists DEF BalanceOf
<1>3. \A i \in 0..n : f[i] = g[i]
  <2>1. n <= n
    OBVIOUS
  <2> QED BY <1>1, <1>2, <2>1, BalanceAgrees
<1> QED BY <1>1, <1>2, <1>3

\* And only on those of the account.
LEMMA BalanceStays ==
  ASSUME NEW s, NEW a, NEW m \in Nat, NEW n \in Nat, m <= n,
         \A i \in (m + 1)..n : s[i].agg # a
  PROVE  BalanceOf(s, a, n) = BalanceOf(s, a, m)
<1> SUFFICES ASSUME BalanceOf(s, a, n) # BalanceOf(s, a, m) PROVE FALSE
  OBVIOUS
<1> DEFINE Wrong == {i \in m..n : BalanceOf(s, a, i) # BalanceOf(s, a, m)}
<1>0. Wrong \in SUBSET Nat /\ n \in Wrong
  OBVIOUS
<1>1. PICK i \in Wrong : \A j \in Wrong : i <= j
  <2> HIDE DEF Wrong
  <2> QED BY <1>0, Least
<1>2. i \in Nat /\ i # 0 /\ i # m /\ i - 1 \in m..n /\ i \in (m + 1)..n /\ i - 1 \notin Wrong
  BY <1>1
<1>3. BalanceOf(s, a, i) = BalanceOf(s, a, i - 1)
  BY <1>2, BalanceStep
<1> QED BY <1>2, <1>3

-------------------------------------------------------------------------------
(***************************************************************************)
(* The invariants.                                                         *)
(***************************************************************************)
\* A worker that is not idle handles an account event that was published, and runs
\* the handler of its kind.
HandlesEvent(w) ==
  /\ pc[w] # "idle" => at[w] \in DOMAIN feed /\ IsAccountEvent(feed[at[w]])
  /\ pc[w] = "create" => feed[at[w]].kind = "AccountCreated"
  /\ pc[w] \in {"get", "update"} => feed[at[w]].kind # "AccountCreated"

TypeInv ==
  /\ TypeOK
  /\ \A w \in Worker : HandlesEvent(w)
  /\ \A a \in Account : doc[a].sequence <= Len(feed)

\* Past the guard against redelivery, the event is newer than every document.
Ahead(w) ==
  pc[w] \in {"create", "get", "update"} => \A a \in Account : doc[a].sequence < at[w]

\* The account events up to n have been published and are in their documents.
Passed(n) ==
  /\ n <= Len(feed)
  /\ \A i \in 1..n : IsAccountEvent(feed[i]) => doc[feed[i].agg].sequence >= i

\* A worker passes over no event, and no document is ahead of the events before it.
Follows(w) ==
  /\ Passed(cursor[w])
  /\ pc[w] # "idle" => at[w] <= cursor[w] + 1
  /\ pc[w] = "token" => doc[Subject(w)].sequence >= at[w]

OrderInv ==
  /\ \A w \in Worker : Follows(w)
  /\ \A a \in Account : Passed(doc[a].sequence)

\* An account is created by its first event.
CreatedFirst ==
  \A i, j \in DOMAIN feed :
    feed[j].kind = "AccountCreated" /\ feed[i].agg = feed[j].agg => j <= i

Fresh(w) == pc[w] = "update" => read[w] = doc[Subject(w)].balance

BalanceInv ==
  /\ CreatedFirst
  /\ \A w \in Worker : Fresh(w)
  /\ AppliedOnce

-------------------------------------------------------------------------------
(***************************************************************************)
(* Types.                                                                  *)
(***************************************************************************)
\* Sums of balances wrap around into int64.
LEMMA WrapSum == \A m, n \in Int64 : Wrap(m + n) \in Int64 /\ Wrap(m - n) \in Int64
BY DomainAssumption DEF Int64, Wrap, Width

\* What the projection reads of an event.
LEMMA MessageFields ==
  ASSUME NEW e \in Message
  PROVE  /\ IsAccountEvent(e) =>
              e.kind \in {"AccountCreated", "MoneyDeposited", "MoneyWithdrawn"}
         /\ e.kind = "AccountCreated" => e.money = 0
         /\ e.money \in Int64 /\ e.agg \in Account \cup {Nobody}
         /\ \A n \in Int64 : Wrap(n + Delta(e)) \in Int64
<1>0. 0 \in Int64 /\ \A n \in Int64 : n \in Int /\ n + 0 = n
  BY DomainAssumption DEF Int64
<1>1. CASE e \in [kind: {"AccountCreated"}, agg: Account, money: {0}]
  <2>1. e.kind = "AccountCreated" /\ e.agg \in Account /\ e.money = 0
    BY <1>1
  <2>2. Delta(e) = 0
    BY <2>1 DEF Delta
  <2> QED BY <1>0, <2>1, <2>2, WrapSum
<1>2. CASE e \in [kind: {"MoneyDeposited", "MoneyWithdrawn"}, agg: Account, money: Amount]
  <2>1. /\ e.kind \in {"MoneyDeposited", "MoneyWithdrawn"} /\ e.agg \in Account
        /\ e.money \in Amount
    BY <1>2
  <2>2. e.money \in Int64 /\ e.money \in Int
    <3>1. e.money \in Int64
      BY <2>1, DomainAssumption
    <3> QED BY <3>1 DEF Int64
  <2>3. e.kind = "MoneyDeposited" => Delta(e) = e.money
    BY DEF Delta
  <2>4. e.kind = "MoneyWithdrawn" => Delta(e) = -e.money
    BY DEF Delta
  <2>5. \A n \in Int64 : n + (-e.money) = n - e.money
    BY <1>0, <2>2
  <2> QED BY <2>1, <2>2, <2>3, <2>4, <2>5, WrapSum
<1>3. CASE e = Other
  <2>1. e.kind = "Other" /\ e.agg = Nobody /\ e.money = 0
    BY <1>3 DEF Other
  <2>2. Delta(e) = 0
    BY <2>1 DEF Delta
  <2> QED BY <1>0, <2>1, <2>2, WrapSum, DomainAssumption DEF IsAccountEvent
<1> QED BY <1>1, <1>2, <1>3 DEF Message

\* The greatest sequence of all documents is that of one of them, or 0.
LEMMA MaxSequenceIsMax ==
  ASSUME NEW b \in Nat, \A a \in Account : doc[a].sequence \in Nat /\ doc[a].sequence <= b
  PROVE  /\ MaxSequence \in Nat
         /\ MaxSequence = 0 \/ \E a \in Account : MaxSequence = doc[a].sequence
         /\ \A a \in Account : doc[a].sequence <= MaxSequence
<1> DEFINE S == {0} \cup {doc[a].sequence : a \in Account}
<1>1. S \in SUBSET Nat /\ S # {} /\ \A x \in S : x <= b
  OBVIOUS
<1>2. Max(S) \in S /\ \A x \in S : x <= Max(S)
  <2> HIDE DEF S
  <2> QED BY <1>1, Greatest
<1> QED BY <1>1, <1>2 DEF MaxSequence

\* GetMaxSequence, with the bound that the types give.
LEMMA MaxSequenceBounds ==
  ASSUME TypeInv
  PROVE  /\ MaxSequence \in Nat
         /\ MaxSequence = 0 \/ \E a \in Account : MaxSequence = doc[a].sequence
         /\ \A a \in Account : doc[a].sequence <= MaxSequence
<1>1. /\ Len(feed) \in Nat
      /\ \A a \in Account : doc[a].sequence \in Nat /\ doc[a].sequence <= Len(feed)
  BY DEF TypeInv, TypeOK, Document
<1> QED BY <1>1, MaxSequenceIsMax

\* The event of a worker that is not idle.
LEMMA Handled ==
  ASSUME TypeInv, NEW w \in Worker, pc[w] # "idle"
  PROVE  /\ at[w] \in Nat \ {0} /\ at[w] <= Len(feed) /\ at[w] \in DOMAIN feed
         /\ feed[at[w]] \in Message
         /\ Subject(w) \in Account /\ IsAccountEvent(feed[at[w]])
<1>1. feed \in Seq(Message) /\ at[w] \in DOMAIN feed /\ IsAccountEvent(feed[at[w]])
  BY DEF TypeInv, TypeOK, HandlesEvent
<1> QED BY <1>1 DEF IsAccountEvent, Subject

\* A worker becomes idle.
LEMMA GoIdleType ==
  ASSUME TypeInv, NEW w \in Worker, GoIdle(w), UNCHANGED <<feed, doc>>,
         cursor' \in [Worker -> Nat], resume' \in Nat, faults' \in Nat
  PROVE  TypeInv'
<1>1. /\ pc' \in [Worker -> PC] /\ at' \in [Worker -> Nat] /\ read' \in [Worker -> Int64]
  BY DomainAssumption DEF TypeInv, TypeOK, GoIdle, PC, Int64
<1>2. TypeOK'
  BY <1>1 DEF TypeInv, TypeOK
<1>3. ASSUME NEW v \in Worker PROVE HandlesEvent(v)'
  <2>1. HandlesEvent(v)
    BY DEF TypeInv
  <2>2. CASE v = w
    <3>1. pc'[v] = "idle"
      BY <2>2 DEF GoIdle, TypeInv, TypeOK
    <3> QED BY <3>1 DEF HandlesEvent
  <2>3. CASE v # w
    <3>1. pc'[v] = pc[v] /\ at'[v] = at[v]
      BY <2>3 DEF GoIdle, TypeInv, TypeOK
    <3> QED BY <2>1, <3>1 DEF HandlesEvent, IsAccountEvent
  <2> QED BY <2>2, <2>3
<1>4. \A a \in Account : doc'[a].sequence <= Len(feed')
  BY DEF TypeInv
<1> QED BY <1>2, <1>3, <1>4 DEF TypeInv

\* The position a worker reaches when it returns.
LEMMA AdvanceType ==
  ASSUME TypeInv, NEW w \in Worker, Advance(w)
  PROVE  cursor' \in [Worker -> Nat]
BY DEF TypeInv, TypeOK, Advance

\* A worker returns with an error, whether events are retried in order or not.
LEMMA ReturnErrorType ==
  ASSUME TypeInv, NEW w \in Worker, ReturnError(w)
  PROVE  GoIdle(w) /\ cursor' \in [Worker -> Nat]
BY AdvanceType DEF ReturnError, TypeInv, TypeOK

\* A worker takes its next step on the same event.
LEMMA GoToType ==
  ASSUME TypeInv, NEW w \in Worker, NEW label, GoTo(w, label), pc[w] # "idle",
         UNCHANGED <<feed, cursor, at, faults>>,
         label \in {"create", "get", "update", "token"},
         label = "create" => feed[at[w]].kind = "AccountCreated",
         label \in {"get", "update"} => feed[at[w]].kind # "AccountCreated",
         doc' \in [Account -> Document], resume' \in Nat, read' \in [Worker -> Int64],
         \A a \in Account : doc'[a].sequence <= Len(feed)
  PROVE  TypeInv'
<1>1. pc' \in [Worker -> PC]
  BY DEF GoTo, TypeInv, TypeOK, PC
<1>2. TypeOK'
  BY <1>1 DEF TypeInv, TypeOK
<1>3. ASSUME NEW v \in Worker PROVE HandlesEvent(v)'
  <2>1. HandlesEvent(v)
    BY DEF TypeInv
  <2>2. CASE v = w
    <3>1. pc'[v] = label
      BY <2>2 DEF GoTo, TypeInv, TypeOK
    <3> QED BY <2>1, <2>2, <3>1 DEF HandlesEvent, IsAccountEvent
  <2>3. CASE v # w
    <3>1. pc'[v] = pc[v]
      BY <2>3 DEF GoTo, TypeInv, TypeOK
    <3> QED BY <2>1, <3>1 DEF HandlesEvent, IsAccountEvent
  <2> QED BY <2>2, <2>3
<1> QED BY <1>2, <1>3 DEF TypeInv

\* A worker is delivered an event.
LEMMA BeginType ==
  ASSUME TypeInv, NEW w \in Worker, NEW n \in DOMAIN feed, IsAccountEvent(feed[n]),
         Begin(w, n), faults' \in Nat
  PROVE  TypeInv'
<1>1. n \in Nat
  BY DEF TypeInv, TypeOK
<1>2. pc' \in [Worker -> PC] /\ at' \in [Worker -> Nat]
  BY <1>1 DEF Begin, GoTo, TypeInv, TypeOK, PC
<1>3. TypeOK'
  BY <1>2 DEF Begin, TypeInv, TypeOK
<1>4. ASSUME NEW v \in Worker PROVE HandlesEvent(v)'
  <2>1. HandlesEvent(v)
    BY DEF TypeInv
  <2>2. CASE v = w
    <3>1. pc'[v] = "check" /\ at'[v] = n /\ feed' = feed
      BY <2>2 DEF Begin, GoTo, TypeInv, TypeOK
    <3> QED BY <3>1 DEF HandlesEvent, IsAccountEvent
  <2>3. CASE v # w
    <3>1. pc'[v] = pc[v] /\ at'[v] = at[v] /\ feed' = feed
      BY <2>3 DEF Begin, GoTo, TypeInv, TypeOK
    <3> QED BY <2>1, <3>1 DEF HandlesEvent, IsAccountEvent
  <2> QED BY <2>2, <2>3
<1>5. \A a \in Account : doc'[a].sequence <= Len(feed')
  BY DEF Begin, TypeInv
<1> QED BY <1>3, <1>4, <1>5 DEF TypeInv

\* What is published keeps what was published before.
LEMMA PublishKeeps ==
  ASSUME TypeInv, NEW e \in Message, Publish(e)
  PROVE  /\ feed' = Append(feed, e) /\ feed' \in Seq(Message)
         /\ Len(feed) \in Nat /\ Len(feed') = Len(feed) + 1
         /\ feed'[Len(feed) + 1] = e
         /\ \A i \in 1..Len(feed) : feed'[i] = feed[i]
         /\ DOMAIN feed = 1..Len(feed) /\ DOMAIN feed' = 1..(Len(feed) + 1)
BY DEF Publish, TypeInv, TypeOK

\* One lemma for each action: the types after it.
LEMMA PublishType ==
  ASSUME TypeInv, NEW e \in Message, Publish(e)
  PROVE  TypeInv'
<1>1. TypeOK'
  BY PublishKeeps DEF Publish, workerVars, TypeInv, TypeOK
<1>2. ASSUME NEW v \in Worker PROVE HandlesEvent(v)'
  <2>1. HandlesEvent(v) /\ pc'[v] = pc[v] /\ at'[v] = at[v]
    BY DEF TypeInv, Publish, workerVars
  <2>2. at[v] \in DOMAIN feed => at[v] \in DOMAIN feed' /\ feed'[at[v]] = feed[at[v]]
    BY PublishKeeps
  <2>3. pc[v] \in {"create", "get", "update"} => pc[v] # "idle"
    OBVIOUS
  <2> QED BY <2>1, <2>2, <2>3 DEF HandlesEvent, IsAccountEvent
<1>3. \A a \in Account : doc'[a].sequence <= Len(feed')
  <2>1. \A a \in Account : doc'[a] = doc[a] /\ doc[a].sequence \in Nat
                            /\ doc[a].sequence <= Len(feed)
    BY DEF TypeInv, TypeOK, Document, Publish
  <2> QED BY <2>1, PublishKeeps
<1> QED BY <1>1, <1>2, <1>3 DEF TypeInv

\* The document that a handler writes.
LEMMA WriteType ==
  ASSUME TypeInv, NEW w \in Worker, pc[w] # "idle", NEW balance \in Int64,
         doc' = [doc EXCEPT ![Subject(w)] = [sequence |-> at[w], balance |-> balance]]
  PROVE  /\ doc' \in [Account -> Document]
         /\ \A a \in Account : doc'[a].sequence <= Len(feed)
         /\ doc'[Subject(w)] = [sequence |-> at[w], balance |-> balance]
         /\ \A a \in Account : a # Subject(w) => doc'[a] = doc[a]
<1>1. Subject(w) \in Account /\ at[w] \in Nat /\ at[w] <= Len(feed)
  BY Handled
<1>2. doc \in [Account -> Document] /\ \A a \in Account : doc[a].sequence <= Len(feed)
  BY DEF TypeInv, TypeOK
<1>3. [sequence |-> at[w], balance |-> balance] \in Document
  BY <1>1 DEF Document
<1> HIDE DEF Subject
<1>4. doc' \in [Account -> Document]
  BY <1>1, <1>2, <1>3
<1>5. /\ doc'[Subject(w)] = [sequence |-> at[w], balance |-> balance]
      /\ \A a \in Account : a # Subject(w) => doc'[a] = doc[a]
  BY <1>1, <1>2
<1> QED BY <1>1, <1>2, <1>4, <1>5

\* What the two handlers write.
LEMMA CreateAccountWrites ==
  ASSUME TypeInv, NEW w \in Worker, CreateAccount(w)
  PROVE  /\ pc[w] # "idle" /\ feed[at[w]].kind = "AccountCreated"
         /\ doc' = [doc EXCEPT ![Subject(w)] = [sequence |-> at[w], balance |-> 0]]
         /\ 0 \in Int64
<1>1. pc[w] = "create" /\ pc[w] # "idle"
  BY DEF CreateAccount
<1>2. feed[at[w]].kind = "AccountCreated"
  BY <1>1 DEF TypeInv, HandlesEvent
<1>3. feed[at[w]].money = 0
  BY <1>1, <1>2, Handled, MessageFields
<1> QED BY <1>1, <1>2, <1>3, DomainAssumption DEF CreateAccount, Int64

\* The balance that Update leaves in the document.
Updated(w) ==
  LET new == Wrap(read[w] + Delta(feed[at[w]]))
  IN  IF new = 0 THEN doc[Subject(w)].balance ELSE new

LEMMA UpdateWrites ==
  ASSUME TypeInv, NEW w \in Worker, Update(w)
  PROVE  /\ pc[w] # "idle" /\ feed[at[w]].kind # "AccountCreated"
         /\ doc' = [doc EXCEPT ![Subject(w)] = [sequence |-> at[w], balance |-> Updated(w)]]
         /\ Updated(w) \in Int64
<1>1. pc[w] = "update" /\ pc[w] # "idle" /\ pc[w] \in {"get", "update"}
  BY DEF Update
<1>2. feed[at[w]].kind # "AccountCreated"
  BY <1>1 DEF TypeInv, HandlesEvent
<1>3. Subject(w) \in Account /\ feed[at[w]] \in Message
  BY <1>1, Handled
<1>4. read[w] \in Int64 /\ doc \in [Account -> Document]
  BY DEF TypeInv, TypeOK
<1>5. doc[Subject(w)].balance \in Int64
  BY <1>3, <1>4 DEF Document
<1>6. Wrap(read[w] + Delta(feed[at[w]])) \in Int64
  BY <1>3, <1>4, MessageFields
<1>7. doc' = [doc EXCEPT ![Subject(w)] = [sequence |-> at[w], balance |-> Updated(w)]]
  <2> DEFINE b == Subject(w)
  <2>1. doc' = [doc EXCEPT ![b] = Merge(doc[b], at[w], Wrap(read[w] + Delta(feed[at[w]])))]
    BY <1>3, <1>4 DEF Update
  <2>2. Merge(doc[b], at[w], Wrap(read[w] + Delta(feed[at[w]])))
          = [sequence |-> at[w], balance |-> Updated(w)]
    BY DEF Merge, Updated
  <2> QED BY <2>1, <2>2
<1> QED BY <1>1, <1>2, <1>5, <1>6, <1>7 DEF Updated

LEMMA CreateAccountType ==
  ASSUME TypeInv, NEW w \in Worker, CreateAccount(w)
  PROVE  TypeInv'
<1>1. pc[w] # "idle"
  BY CreateAccountWrites
<1>2. doc' \in [Account -> Document] /\ \A a \in Account : doc'[a].sequence <= Len(feed)
  BY CreateAccountWrites, WriteType
<1>3. /\ GoTo(w, "token") /\ UNCHANGED <<feed, cursor, at, faults>>
      /\ resume' \in Nat /\ read' \in [Worker -> Int64]
  BY DEF CreateAccount, TypeInv, TypeOK
<1> QED BY <1>1, <1>2, <1>3, GoToType

LEMMA UpdateType ==
  ASSUME TypeInv, NEW w \in Worker, Update(w)
  PROVE  TypeInv'
<1>1. pc[w] # "idle" /\ Updated(w) \in Int64
  BY UpdateWrites
<1>2. doc' \in [Account -> Document] /\ \A a \in Account : doc'[a].sequence <= Len(feed)
  BY <1>1, UpdateWrites, WriteType
<1>3. /\ GoTo(w, "token") /\ UNCHANGED <<feed, cursor, at, faults>>
      /\ resume' \in Nat /\ read' \in [Worker -> Int64]
  BY DEF Update, TypeInv, TypeOK
<1> QED BY <1>1, <1>2, <1>3, GoToType

LEMMA AcceptEventType ==
  ASSUME TypeInv, NEW w \in Worker, AcceptEvent(w)
  PROVE  TypeInv'
<1> DEFINE label == IF feed[at[w]].kind = "AccountCreated" THEN "create" ELSE "get"
<1>1. /\ pc[w] # "idle" /\ GoTo(w, label)
      /\ UNCHANGED <<feed, cursor, at, faults>>
      /\ doc' \in [Account -> Document] /\ resume' \in Nat /\ read' \in [Worker -> Int64]
      /\ \A a \in Account : doc'[a].sequence <= Len(feed)
  BY DEF AcceptEvent, TypeInv, TypeOK
<1>2. /\ label \in {"create", "get", "update", "token"}
      /\ label = "create" => feed[at[w]].kind = "AccountCreated"
      /\ label \in {"get", "update"} => feed[at[w]].kind # "AccountCreated"
  OBVIOUS
<1> HIDE DEF label
<1> QED BY <1>1, <1>2, GoToType

LEMMA GetByIDType ==
  ASSUME TypeInv, NEW w \in Worker, GetByID(w)
  PROVE  TypeInv'
<1>1. pc[w] = "get" /\ pc[w] # "idle"
  BY DEF GetByID
<1>2. feed[at[w]].kind # "AccountCreated"
  BY <1>1 DEF TypeInv, HandlesEvent
<1>3. Subject(w) \in Account
  BY <1>1, Handled
<1>4. read' \in [Worker -> Int64]
  <2>1. doc[Subject(w)].balance \in Int64
    BY <1>3 DEF TypeInv, TypeOK, Document
  <2> QED BY <2>1 DEF GetByID, TypeInv, TypeOK
<1>5. /\ GoTo(w, "update") /\ UNCHANGED <<feed, cursor, at, faults>>
      /\ doc' \in [Account -> Document] /\ resume' \in Nat
      /\ \A a \in Account : doc'[a].sequence <= Len(feed)
  BY DEF GetByID, TypeInv, TypeOK
<1> QED BY <1>1, <1>2, <1>4, <1>5, GoToType

LEMMA WorkType ==
  ASSUME TypeInv, NEW w \in Worker, Work(w)
  PROVE  TypeInv'
<1>1. CASE Skip(w)
  <2>1. TypeOK'
    BY <1>1 DEF Skip, TypeInv, TypeOK
  <2>2. \A v \in Worker : HandlesEvent(v)'
    BY <1>1 DEF Skip, TypeInv, HandlesEvent, IsAccountEvent
  <2>3. \A a \in Account : doc'[a].sequence <= Len(feed')
    BY <1>1 DEF Skip, TypeInv
  <2> QED BY <2>1, <2>2, <2>3 DEF TypeInv
<1>2. CASE Deliver(w)
  <2>1. cursor[w] \in Nat /\ feed \in Seq(Message) /\ cursor[w] < Len(feed)
    BY <1>2 DEF Deliver, TypeInv, TypeOK
  <2>2. cursor[w] + 1 \in DOMAIN feed
    BY <2>1
  <2>3. IsAccountEvent(feed[cursor[w] + 1]) /\ Begin(w, cursor[w] + 1) /\ faults' \in Nat
    BY <1>2 DEF Deliver, TypeInv, TypeOK
  <2> QED BY <2>2, <2>3, BeginType
<1>3. CASE IgnoreEvent(w)
  <2>1. /\ GoIdle(w) /\ Advance(w) /\ UNCHANGED <<feed, doc>>
        /\ resume' \in Nat /\ faults' \in Nat
    BY <1>3 DEF IgnoreEvent, Return, TypeInv, TypeOK
  <2> QED BY <2>1, AdvanceType, GoIdleType
<1>4. CASE UnknownAggregate(w)
  <2>1. ReturnError(w) /\ UNCHANGED <<feed, doc>> /\ resume' \in Nat /\ faults' \in Nat
    BY <1>4 DEF UnknownAggregate, TypeInv, TypeOK
  <2> QED BY <2>1, ReturnErrorType, GoIdleType
<1>5. CASE SetStreamResumeToken(w)
  <2>1. /\ GoIdle(w) /\ Advance(w) /\ UNCHANGED <<feed, doc>>
        /\ resume' \in Nat /\ faults' \in Nat
    BY <1>5 DEF SetStreamResumeToken, Return, TypeInv, TypeOK
  <2> QED BY <2>1, AdvanceType, GoIdleType
<1> QED
  BY <1>1, <1>2, <1>3, <1>4, <1>5, AcceptEventType, CreateAccountType, GetByIDType, UpdateType
     DEF Work, Handle

LEMMA FaultType ==
  ASSUME TypeInv, NEW w \in Worker, Fault(w)
  PROVE  TypeInv'
<1>1. ASSUME NEW n \in DOMAIN feed, Redeliver(w, n) PROVE TypeInv'
  <2>1. IsAccountEvent(feed[n]) /\ Begin(w, n) /\ faults' \in Nat
    BY <1>1 DEF Redeliver, TypeInv, TypeOK
  <2> QED BY <2>1, BeginType
<1>2. CASE TransientError(w)
  <2>1. ReturnError(w) /\ UNCHANGED <<feed, doc>> /\ resume' \in Nat /\ faults' \in Nat
    BY <1>2 DEF TransientError, TypeInv, TypeOK
  <2> QED BY <2>1, ReturnErrorType, GoIdleType
<1>3. CASE Restart(w)
  <2>1. /\ GoIdle(w) /\ UNCHANGED <<feed, doc>> /\ resume' \in Nat /\ faults' \in Nat
        /\ cursor' \in [Worker -> Nat]
    BY <1>3, MaxSequenceBounds DEF Restart, TypeInv, TypeOK
  <2> QED BY <2>1, GoIdleType
<1> QED BY <1>1, <1>2, <1>3 DEF Fault

LEMMA CleanIndexType ==
  ASSUME TypeInv, CleanIndex
  PROVE  TypeInv'
<1>1. 0 \in Int64 /\ NoDocument \in Document /\ NoDocument.sequence = 0
  BY DomainAssumption DEF NoDocument, Document, Int64
<1>2. TypeOK'
  BY <1>1 DEF CleanIndex, TypeInv, TypeOK, PC
<1>3. \A v \in Worker : HandlesEvent(v)'
  BY DEF CleanIndex, HandlesEvent
<1>4. \A a \in Account : doc'[a].sequence <= Len(feed')
  BY <1>1 DEF CleanIndex, TypeInv, TypeOK
<1> QED BY <1>2, <1>3, <1>4 DEF TypeInv

\* Every step preserves the types.
LEMMA NextType == TypeInv /\ [Next]_vars => TypeInv'
<1>1. ASSUME TypeInv, UNCHANGED vars PROVE TypeInv'
  BY <1>1 DEF vars, workerVars, TypeInv, TypeOK, HandlesEvent, IsAccountEvent
<1> QED BY <1>1, PublishType, CleanIndexType, WorkType, FaultType DEF Next, PublishAny

\* The initial state has them.
LEMMA InitType == Init => TypeInv
<1>1. 0 \in Int64 /\ NoDocument \in Document /\ NoDocument.sequence = 0
  BY DomainAssumption DEF NoDocument, Document, Int64
<1> QED BY <1>1 DEF Init, TypeInv, TypeOK, HandlesEvent, PC

\* The types are an invariant, of any number of workers.
LEMMA TypeInvariance == Spec => []TypeInv
<1> QED BY InitType, NextType, PTL DEF Spec

\* Whatever is lost, repeated or interrupted, every document of the index is well
\* formed and every balance a worker reads or writes fits an int64.
THEOREM ProjectionTypes == Spec => []TypeOK
<1>1. TypeInv => TypeOK
  BY DEF TypeInv
<1> QED BY <1>1, TypeInvariance, PTL

-------------------------------------------------------------------------------
(***************************************************************************)
(* One worker: no document goes back.                                      *)
(***************************************************************************)
OneWorker == \A u, v \in Worker : u = v

\* The fields of a document.
LEMMA DocumentTypes ==
  ASSUME TypeInv, NEW a \in Account
  PROVE  /\ doc[a].sequence \in Nat /\ doc[a].sequence >= doc[a].sequence
         /\ doc[a].sequence <= Len(feed) /\ Len(feed) \in Nat
         /\ doc[a].balance \in Int64
<1>1. doc[a] \in Document
  BY DEF TypeInv, TypeOK
<1>2. doc[a].sequence \in Nat /\ doc[a].balance \in Int64
  BY <1>1 DEF Document
<1> QED BY <1>2 DEF TypeInv, TypeOK

AheadInv == \A w \in Worker : Ahead(w)

\* Where the worker is after each of its steps.
LEMMA IdleEnds ==
  ASSUME TypeInv, NEW w \in Worker, GoIdle(w)
  PROVE  pc'[w] = "idle"
BY DEF GoIdle, TypeInv, TypeOK

LEMMA GoToEnds ==
  ASSUME TypeInv, NEW w \in Worker, NEW label, GoTo(w, label)
  PROVE  pc'[w] = label
BY DEF GoTo, TypeInv, TypeOK

LEMMA BeginEnds ==
  ASSUME TypeInv, NEW w \in Worker, NEW n, Begin(w, n)
  PROVE  pc'[w] = "check" /\ at'[w] = n
BY DEF Begin, GoTo, TypeInv, TypeOK

\* A fault leaves the worker idle, or at the guard of the handler.
LEMMA FaultEnds ==
  ASSUME TypeInv, NEW w \in Worker, Fault(w)
  PROVE  /\ UNCHANGED <<feed, doc>>
         /\ pc'[w] \in {"idle", "check"}
<1>1. ASSUME NEW n \in DOMAIN feed, Redeliver(w, n)
      PROVE  UNCHANGED <<feed, doc>> /\ pc'[w] \in {"idle", "check"}
  BY <1>1, BeginEnds DEF Redeliver, Begin
<1>2. CASE TransientError(w)
  BY <1>2, IdleEnds DEF TransientError, ReturnError
<1>3. CASE Restart(w)
  BY <1>3, IdleEnds DEF Restart
<1> QED BY <1>1, <1>2, <1>3 DEF Fault

\* A step of the worker, with which no document goes back.
LEMMA WorkAhead ==
  ASSUME TypeInv, NEW w \in Worker, Ahead(w), Work(w)
  PROVE  /\ pc'[w] \in {"create", "get", "update"} =>
              \A a \in Account : doc'[a].sequence < at'[w]
         /\ \A a \in Account : doc'[a].sequence >= doc[a].sequence
<1>0. \A a \in Account : doc[a].sequence \in Nat /\ doc[a].sequence >= doc[a].sequence
  BY DocumentTypes
<1>1. CASE Skip(w)
  BY <1>0, <1>1 DEF Skip, Ahead
<1>2. CASE Deliver(w)
  <2>1. pc'[w] = "check" /\ doc' = doc
    BY <1>2, BeginEnds DEF Deliver, Begin
  <2> QED BY <1>0, <2>1
<1>3. CASE IgnoreEvent(w)
  <2>1. pc'[w] = "idle" /\ doc' = doc
    BY <1>3, IdleEnds DEF IgnoreEvent, Return
  <2> QED BY <1>0, <2>1
<1>4. CASE AcceptEvent(w)
  <2>1. at'[w] = at[w] /\ doc' = doc /\ at[w] > MaxSequence /\ at[w] \in Nat
    BY <1>4 DEF AcceptEvent, TypeInv, TypeOK
  <2>2. \A a \in Account : doc[a].sequence < at[w]
    BY <1>0, <2>1, MaxSequenceBounds
  <2> QED BY <1>0, <2>1, <2>2
<1>5. ASSUME NEW balance \in Int64, pc[w] \in {"create", "update"}, pc[w] # "idle",
             GoTo(w, "token"),
             doc' = [doc EXCEPT ![Subject(w)] = [sequence |-> at[w], balance |-> balance]]
      PROVE  /\ pc'[w] = "token"
             /\ \A a \in Account : doc'[a].sequence >= doc[a].sequence
  <2>1. pc'[w] = "token"
    BY <1>5, GoToEnds
  <2>2. \A a \in Account : doc[a].sequence < at[w]
    BY <1>5 DEF Ahead
  <2>3. at[w] \in Nat
    BY DEF TypeInv, TypeOK
  <2>4. /\ doc'[Subject(w)] = [sequence |-> at[w], balance |-> balance]
        /\ \A a \in Account : a # Subject(w) => doc'[a] = doc[a]
    BY <1>5, WriteType
  <2> HIDE DEF Subject
  <2>5. \A a \in Account : doc'[a].sequence >= doc[a].sequence
    <3> SUFFICES ASSUME NEW a \in Account PROVE doc'[a].sequence >= doc[a].sequence
      OBVIOUS
    <3>1. CASE a = Subject(w)
      BY <3>1, <1>0, <2>2, <2>3, <2>4
    <3>2. CASE a # Subject(w)
      BY <3>2, <1>0, <2>4
    <3> QED BY <3>1, <3>2
  <2> QED BY <2>1, <2>5
<1>6. CASE CreateAccount(w)
  <2>1. pc[w] \in {"create", "update"} /\ GoTo(w, "token")
    BY <1>6 DEF CreateAccount
  <2>2. pc'[w] = "token" /\ \A a \in Account : doc'[a].sequence >= doc[a].sequence
    BY <1>5, <1>6, <2>1, CreateAccountWrites
  <2> QED BY <2>2
<1>7. CASE GetByID(w)
  <2>1. pc[w] = "get" /\ doc' = doc /\ at' = at
    BY <1>7 DEF GetByID
  <2> QED BY <1>0, <2>1 DEF Ahead
<1>8. CASE UnknownAggregate(w)
  <2>1. pc'[w] = "idle" /\ doc' = doc
    BY <1>8, IdleEnds DEF UnknownAggregate, ReturnError
  <2> QED BY <1>0, <2>1
<1>9. CASE Update(w)
  <2>1. pc[w] \in {"create", "update"} /\ GoTo(w, "token")
    BY <1>9 DEF Update
  <2>2. pc'[w] = "token" /\ \A a \in Account : doc'[a].sequence >= doc[a].sequence
    BY <1>5, <1>9, <2>1, UpdateWrites
  <2> QED BY <2>2
<1>10. CASE SetStreamResumeToken(w)
  <2>1. pc'[w] = "idle" /\ doc' = doc
    BY <1>10, IdleEnds DEF SetStreamResumeToken, Return
  <2> QED BY <1>0, <2>1
<1> QED
  BY <1>1, <1>2, <1>3, <1>4, <1>6, <1>7, <1>8, <1>9, <1>10 DEF Work, Handle

Back ==
  \/ \A a \in Account : doc'[a].sequence >= doc[a].sequence
  \/ \A a \in Account : doc'[a] = NoDocument

\* Every step keeps the event newer than all documents.
LEMMA NextAhead ==
  ASSUME OneWorker, TypeInv, AheadInv, [Next]_vars
  PROVE  AheadInv' /\ Back
<1>0. \A a \in Account : doc[a].sequence \in Nat /\ doc[a].sequence >= doc[a].sequence
  BY DocumentTypes
<1>1. CASE UNCHANGED <<doc, pc, at>>
  BY <1>0, <1>1 DEF AheadInv, Ahead, Back
<1>2. CASE UNCHANGED vars \/ PublishAny
  BY <1>1, <1>2 DEF vars, workerVars, PublishAny, Publish
<1>3. CASE CleanIndex
  <2>1. \A a \in Account : doc'[a] = NoDocument
    BY <1>3 DEF CleanIndex
  <2>2. \A w \in Worker : pc'[w] = "idle"
    BY <1>3 DEF CleanIndex
  <2> QED BY <2>1, <2>2 DEF AheadInv, Ahead, Back
<1>4. ASSUME NEW w \in Worker, Work(w) PROVE AheadInv' /\ Back
  <2>1. Ahead(w)
    BY DEF AheadInv
  <2>2. \A v \in Worker : v = w
    BY DEF OneWorker
  <2> QED BY <1>4, <2>1, <2>2, WorkAhead DEF AheadInv, Ahead, Back
<1>5. ASSUME NEW w \in Worker, Fault(w) PROVE AheadInv' /\ Back
  <2>1. doc' = doc /\ pc'[w] \in {"idle", "check"}
    BY <1>5, FaultEnds
  <2>2. \A v \in Worker : v = w
    BY DEF OneWorker
  <2> QED BY <1>0, <2>1, <2>2 DEF AheadInv, Ahead, Back
<1> QED BY <1>2, <1>3, <1>4, <1>5 DEF Next

\* The invariant holds of one worker.
LEMMA AheadInvariance ==
  ASSUME OneWorker
  PROVE  Spec => [](TypeInv /\ AheadInv)
<1>1. Init => TypeInv /\ AheadInv
  BY InitType DEF Init, AheadInv, Ahead
<1>2. TypeInv /\ AheadInv /\ [Next]_vars => (TypeInv /\ AheadInv)'
  BY NextType, NextAhead
<1> QED BY <1>1, <1>2, PTL DEF Spec

\* With one worker, also one whose failed events come again after later ones, no
\* document goes back to an earlier event: past the guard of the handler its event
\* is newer than every document, and stays so until the handler has written.
THEOREM DocumentsNeverGoBack ==
  ASSUME OneWorker
  PROVE  Spec => NeverGoesBack
<1>1. TypeInv /\ AheadInv /\ [Next]_vars => [Back]_vars
  BY NextAhead
<1>2. Spec => [][Back]_vars
  BY <1>1, AheadInvariance, PTL DEF Spec
<1> QED BY <1>2 DEF NeverGoesBack, Back

-------------------------------------------------------------------------------
(***************************************************************************)
(* One worker that retries in order: nothing is passed over.               *)
(***************************************************************************)
\* What has been passed stays so while documents only move on.
LEMMA PassedStays ==
  ASSUME TypeInv, TypeInv', feed' = feed, NEW n \in Nat, Passed(n),
         \A a \in Account : doc'[a].sequence >= doc[a].sequence
  PROVE  Passed(n)'
<1> SUFFICES ASSUME NEW i \in 1..n, IsAccountEvent(feed[i])
             PROVE  doc'[feed[i].agg].sequence >= i
  BY DEF Passed, IsAccountEvent
<1> DEFINE a == feed[i].agg
<1>1. a \in Account /\ doc[a].sequence >= i
  BY DEF Passed, IsAccountEvent
<1> HIDE DEF a
<1>2. doc[a].sequence \in Nat
  BY <1>1, DocumentTypes
<1>3. doc'[a].sequence \in Nat
  <2>1. doc'[a] \in Document
    BY <1>1 DEF TypeInv, TypeOK
  <2> QED BY <2>1 DEF Document
<1>4. doc'[a].sequence >= i
  BY <1>1, <1>2, <1>3
<1> QED BY <1>4 DEF a

\* What is before a position that has been passed has been passed.
LEMMA PassedBelow ==
  ASSUME TypeInv, NEW n \in Nat, Passed(n), NEW m \in Nat, m <= n
  PROVE  Passed(m)
<1>1. Len(feed) \in Nat
  BY DEF TypeInv, TypeOK
<1> QED BY <1>1 DEF Passed

\* Nothing is in front of position 0, which a clean index starts from.
LEMMA NothingPassed ==
  ASSUME TypeInv
  PROVE  Passed(0)
BY DEF TypeInv, TypeOK, Passed

\* The position of a restart, and of the guard against redelivery.
LEMMA MaxSequencePassed ==
  ASSUME TypeInv, OrderInv
  PROVE  Passed(MaxSequence)
BY MaxSequenceBounds, NothingPassed DEF OrderInv

\* One event more has been passed.
LEMMA PassedNext ==
  ASSUME TypeInv, NEW n \in Nat, Passed(n), n + 1 <= Len(feed),
         IsAccountEvent(feed[n + 1]) => doc[feed[n + 1].agg].sequence >= n + 1
  PROVE  Passed(n + 1)
<1>1. \A i \in 1..(n + 1) : i \in 1..n \/ i = n + 1
  OBVIOUS
<1> QED BY <1>1 DEF Passed

\* A worker returns: the event it leaves behind has been passed if its document
\* has reached it.
LEMMA AdvancePassed ==
  ASSUME TypeInv, NEW w \in Worker, Follows(w), pc[w] # "idle", Passed(at[w]),
         Advance(w)
  PROVE  cursor'[w] \in Nat /\ Passed(cursor'[w])
<1>1. cursor[w] \in Nat /\ at[w] \in Nat
  BY DEF TypeInv, TypeOK
<1>2. cursor'[w] = IF cursor[w] < at[w] THEN at[w] ELSE cursor[w]
  BY DEF Advance, TypeInv, TypeOK
<1>3. cursor'[w] = at[w] \/ cursor'[w] = cursor[w]
  BY <1>2
<1> QED BY <1>1, <1>3 DEF Follows

\* A worker that has written the document of its event has passed it.
LEMMA TokenPassed ==
  ASSUME TypeInv, NEW w \in Worker, Follows(w), pc[w] = "token"
  PROVE  Passed(at[w])
<1>1. /\ cursor[w] \in Nat /\ at[w] \in Nat \ {0} /\ at[w] <= Len(feed)
      /\ pc[w] # "idle"
  BY Handled DEF TypeInv, TypeOK
<1>2. Passed(cursor[w]) /\ at[w] <= cursor[w] + 1 /\ doc[Subject(w)].sequence >= at[w]
  BY <1>1 DEF Follows
<1>3. CASE at[w] <= cursor[w]
  BY <1>1, <1>2, <1>3, PassedBelow
<1>4. CASE at[w] = cursor[w] + 1
  BY <1>1, <1>2, <1>4, PassedNext DEF Subject
<1> QED BY <1>1, <1>2, <1>3, <1>4

\* The handler writes the document of an event that is newer than all documents.
LEMMA WritePassed ==
  ASSUME TypeInv, TypeInv', OrderInv, NEW w \in Worker, pc[w] \in {"create", "update"},
         pc[w] # "idle", Ahead(w), NEW balance \in Int64, GoTo(w, "token"),
         doc' = [doc EXCEPT ![Subject(w)] = [sequence |-> at[w], balance |-> balance]],
         UNCHANGED <<feed, cursor, at>>,
         \A a \in Account : doc'[a].sequence >= doc[a].sequence
  PROVE  Follows(w)' /\ \A a \in Account : Passed(doc[a].sequence)'
<1> DEFINE b == Subject(w)
<1>1. /\ b \in Account /\ at[w] \in Nat \ {0} /\ at[w] <= Len(feed)
      /\ feed[at[w]].agg = b
  BY Handled DEF Subject
<1>2. /\ doc'[b] = [sequence |-> at[w], balance |-> balance]
      /\ \A a \in Account : a # b => doc'[a] = doc[a]
  BY WriteType
<1> HIDE DEF b
<1>3. cursor[w] \in Nat /\ Passed(cursor[w]) /\ at[w] <= cursor[w] + 1
  BY DEF OrderInv, Follows, TypeInv, TypeOK
<1>4. ASSUME NEW n \in Nat, Passed(n) PROVE Passed(n)'
  BY <1>4, PassedStays
<1>5. Passed(at[w])'
  <2>1. PICK n : n = at[w]
    OBVIOUS
  <2>2. n \in Nat /\ n # 0 /\ n - 1 \in Nat /\ n - 1 <= cursor[w]
    BY <1>1, <1>3, <2>1
  <2>3. Passed(n - 1)'
    BY <1>3, <1>4, <2>2, PassedBelow
  <2>4. \A i \in 1..n : i \in 1..(n - 1) \/ i = n
    BY <2>2
  <2>5. n <= Len(feed') /\ feed'[n].agg = b /\ doc'[b].sequence = n
    BY <1>1, <1>2, <2>1
  <2>6. doc'[b].sequence >= n
    BY <2>2, <2>5
  <2>7. Passed(n)'
    <3>1. ASSUME NEW i \in 1..n, IsAccountEvent(feed'[i])
          PROVE  doc'[feed'[i].agg].sequence >= i
      BY <2>3, <2>4, <2>5, <2>6, <3>1 DEF Passed, IsAccountEvent
    <3> QED BY <2>5, <3>1 DEF Passed, IsAccountEvent
  <2>8. at'[w] = n
    BY <2>1
  <2> QED BY <2>7, <2>8 DEF Passed
<1>6. Passed(cursor[w])'
  <2>1. PICK n : n = cursor[w]
    OBVIOUS
  <2>2. Passed(n)'
    BY <1>3, <1>4, <2>1
  <2> QED BY <2>1, <2>2 DEF Passed
<1>7. ASSUME NEW a \in Account PROVE Passed(doc[a].sequence)'
  <2>1. CASE a = b
    BY <1>1, <1>2, <1>5, <2>1 DEF Passed
  <2>2. CASE a # b
    <3>1. PICK n : n = doc[a].sequence
      OBVIOUS
    <3>2. n \in Nat /\ Passed(n)
      BY <3>1, DocumentTypes DEF OrderInv
    <3>3. Passed(n)' /\ doc'[a].sequence = n
      BY <1>2, <1>4, <2>2, <3>1, <3>2
    <3> QED BY <3>3 DEF Passed
  <2> QED BY <2>1, <2>2
<1>8. doc'[Subject(w)'].sequence >= at'[w]
  <2>1. Subject(w)' = b
    BY DEF b, Subject
  <2> QED BY <1>1, <1>2, <2>1
<1>9. Follows(w)'
  BY <1>3, <1>6, <1>8 DEF Follows
<1> QED BY <1>7, <1>9

\* A step that leaves feed and documents alone.
LEMMA QuietOrder ==
  ASSUME OneWorker, TypeInv, TypeInv', OrderInv, UNCHANGED <<feed, doc>>, NEW w \in Worker,
         Passed(cursor'[w]),
         pc'[w] # "idle" => at'[w] <= cursor'[w] + 1,
         pc'[w] = "token" => doc[feed[at'[w]].agg].sequence >= at'[w]
  PROVE  OrderInv'
<1>1. \A v \in Worker : v = w
  BY DEF OneWorker
<1>2. Passed(cursor[w])'
  BY DEF Passed, IsAccountEvent
<1>3. pc'[w] = "token" => doc'[Subject(w)'].sequence >= at'[w]
  BY DEF Subject
<1>4. Follows(w)'
  BY <1>2, <1>3 DEF Follows
<1>5. ASSUME NEW a \in Account PROVE Passed(doc[a].sequence)'
  BY DEF OrderInv, Passed, IsAccountEvent
<1> QED BY <1>1, <1>4, <1>5 DEF OrderInv

\* With one worker, its own position is the only one.
LEMMA WriteOrder ==
  ASSUME OneWorker, TypeInv, TypeInv', OrderInv, NEW w \in Worker,
         Follows(w)', \A a \in Account : Passed(doc[a].sequence)'
  PROVE  OrderInv'
<1>1. \A v \in Worker : v = w
  BY DEF OneWorker
<1> QED BY <1>1 DEF OrderInv

\* One lemma for each kind of step: the order after it.
LEMMA WorkOrder ==
  ASSUME OneWorker, OrderedRetry, TypeInv, TypeInv', AheadInv, OrderInv,
         NEW w \in Worker, Work(w)
  PROVE  OrderInv'
<1>0. /\ Follows(w) /\ Ahead(w) /\ cursor[w] \in Nat /\ at[w] \in Nat
      /\ Passed(cursor[w]) /\ Len(feed) \in Nat
      /\ \A a \in Account : doc'[a].sequence >= doc[a].sequence
  BY WorkAhead DEF AheadInv, OrderInv, Follows, TypeInv, TypeOK
<1>1. CASE Skip(w)
  <2>1. /\ pc[w] = "idle" /\ UNCHANGED <<feed, doc, pc, at>>
        /\ ~IsAccountEvent(feed[cursor[w] + 1]) /\ cursor[w] + 1 <= Len(feed)
        /\ cursor'[w] = cursor[w] + 1
    BY <1>0, <1>1 DEF Skip, TypeInv, TypeOK
  <2>2. Passed(cursor[w] + 1)
    BY <1>0, <2>1, PassedNext
  <2>3. pc'[w] = "idle" /\ Passed(cursor'[w])
    BY <2>1, <2>2
  <2> QED BY <2>1, <2>3, QuietOrder
<1>2. CASE Deliver(w)
  <2>1. pc'[w] = "check" /\ at'[w] = cursor[w] + 1 /\ UNCHANGED <<feed, doc, cursor>>
    BY <1>2, BeginEnds DEF Deliver, Begin
  <2>2. at'[w] <= cursor'[w] + 1
    BY <1>0, <2>1
  <2> QED BY <1>0, <2>1, <2>2, QuietOrder
<1>3. CASE IgnoreEvent(w)
  <2>1. /\ pc'[w] = "idle" /\ UNCHANGED <<feed, doc>> /\ Advance(w)
        /\ pc[w] # "idle" /\ at[w] <= MaxSequence
    BY <1>3, IdleEnds DEF IgnoreEvent, Return
  <2>2. Passed(at[w])
    BY <1>0, <2>1, MaxSequenceBounds, MaxSequencePassed, PassedBelow
  <2>3. Passed(cursor'[w])
    BY <1>0, <2>1, <2>2, AdvancePassed
  <2> QED BY <2>1, <2>3, QuietOrder
<1>4. CASE AcceptEvent(w)
  <2>1. /\ pc[w] # "idle" /\ UNCHANGED <<feed, doc, cursor, at>>
        /\ pc'[w] # "token"
    BY <1>4, GoToEnds DEF AcceptEvent
  <2>2. at[w] <= cursor[w] + 1
    BY <1>0, <2>1 DEF Follows
  <2> QED BY <1>0, <2>1, <2>2, QuietOrder
<1>5. CASE CreateAccount(w)
  <2>1. /\ pc[w] \in {"create", "update"} /\ GoTo(w, "token")
        /\ UNCHANGED <<feed, cursor, at>>
    BY <1>5 DEF CreateAccount
  <2>2. Follows(w)' /\ \A a \in Account : Passed(doc[a].sequence)'
    BY <1>0, <1>5, <2>1, CreateAccountWrites, WritePassed
  <2> QED BY <2>2, WriteOrder
<1>6. CASE GetByID(w)
  <2>1. /\ pc[w] # "idle" /\ UNCHANGED <<feed, doc, cursor, at>>
        /\ pc'[w] # "token"
    BY <1>6, GoToEnds DEF GetByID
  <2>2. at[w] <= cursor[w] + 1
    BY <1>0, <2>1 DEF Follows
  <2> QED BY <1>0, <2>1, <2>2, QuietOrder
<1>7. CASE UnknownAggregate(w)
  <2>1. pc'[w] = "idle" /\ UNCHANGED <<feed, doc, cursor>>
    BY <1>7, IdleEnds DEF UnknownAggregate, ReturnError
  <2> QED BY <1>0, <2>1, QuietOrder
<1>8. CASE Update(w)
  <2>1. /\ pc[w] \in {"create", "update"} /\ GoTo(w, "token")
        /\ UNCHANGED <<feed, cursor, at>>
    BY <1>8 DEF Update
  <2>2. Follows(w)' /\ \A a \in Account : Passed(doc[a].sequence)'
    BY <1>0, <1>8, <2>1, UpdateWrites, WritePassed
  <2> QED BY <2>2, WriteOrder
<1>9. CASE SetStreamResumeToken(w)
  <2>1. /\ pc'[w] = "idle" /\ UNCHANGED <<feed, doc>> /\ Advance(w)
        /\ pc[w] # "idle" /\ pc[w] = "token"
    BY <1>9, IdleEnds DEF SetStreamResumeToken, Return
  <2>2. Passed(cursor'[w])
    BY <1>0, <2>1, TokenPassed, AdvancePassed
  <2> QED BY <2>1, <2>2, QuietOrder
<1> QED
  BY <1>1, <1>2, <1>3, <1>4, <1>5, <1>6, <1>7, <1>8, <1>9 DEF Work, Handle

LEMMA FaultOrder ==
  ASSUME OneWorker, OrderedRetry, TypeInv, TypeInv', OrderInv, NEW w \in Worker, Fault(w)
  PROVE  OrderInv'
<1>0. cursor[w] \in Nat /\ Passed(cursor[w])
  BY DEF OrderInv, Follows, TypeInv, TypeOK
<1>1. ASSUME NEW n \in DOMAIN feed, Redeliver(w, n) PROVE OrderInv'
  <2>1. /\ pc'[w] = "check" /\ at'[w] = n /\ UNCHANGED <<feed, doc, cursor>>
        /\ n <= cursor[w] /\ n \in Nat
    BY <1>1, BeginEnds DEF Redeliver, Begin, TypeInv, TypeOK
  <2>2. at'[w] <= cursor'[w] + 1
    BY <1>0, <2>1
  <2> QED BY <1>0, <2>1, <2>2, QuietOrder
<1>2. CASE TransientError(w)
  <2>1. pc'[w] = "idle" /\ UNCHANGED <<feed, doc, cursor>>
    BY <1>2, IdleEnds DEF TransientError, ReturnError
  <2> QED BY <1>0, <2>1, QuietOrder
<1>3. CASE Restart(w)
  <2>1. pc'[w] = "idle" /\ UNCHANGED <<feed, doc>> /\ cursor'[w] = MaxSequence
    BY <1>3, IdleEnds DEF Restart, TypeInv, TypeOK
  <2>2. Passed(cursor'[w])
    BY <2>1, MaxSequencePassed
  <2> QED BY <2>1, <2>2, QuietOrder
<1> QED BY <1>1, <1>2, <1>3 DEF Fault

LEMMA PublishOrder ==
  ASSUME TypeInv, OrderInv, NEW e \in Message, Publish(e)
  PROVE  OrderInv'
<1>1. UNCHANGED <<doc, cursor, pc, at>>
  BY DEF Publish, workerVars
<1>2. ASSUME NEW n \in Nat, Passed(n) PROVE Passed(n)'
  <2>1. n <= Len(feed) /\ n <= Len(feed') /\ \A i \in 1..n : feed'[i] = feed[i]
    BY <1>2, PublishKeeps DEF Passed
  <2> QED BY <1>1, <1>2, <2>1 DEF Passed, IsAccountEvent
<1>3. ASSUME NEW w \in Worker PROVE Follows(w)'
  <2>1. Follows(w) /\ cursor[w] \in Nat
    BY DEF OrderInv, TypeInv, TypeOK
  <2>2. Passed(cursor[w])'
    <3>1. PICK n : n = cursor[w]
      OBVIOUS
    <3>2. Passed(n)'
      BY <1>2, <2>1, <3>1 DEF Follows
    <3> QED BY <1>1, <3>1, <3>2 DEF Passed
  <2>3. pc[w] = "token" => doc'[Subject(w)'].sequence >= at[w]
    <3>1. pc[w] = "token" => at[w] \in DOMAIN feed
      BY Handled
    <3>2. pc[w] = "token" => feed'[at[w]] = feed[at[w]]
      BY <3>1, PublishKeeps
    <3> QED BY <1>1, <2>1, <3>2 DEF Follows, Subject
  <2> QED BY <1>1, <2>1, <2>2, <2>3 DEF Follows
<1>4. ASSUME NEW a \in Account PROVE Passed(doc[a].sequence)'
  <2>1. PICK n : n = doc[a].sequence
    OBVIOUS
  <2>2. Passed(n)'
    BY <1>2, <2>1, DocumentTypes DEF OrderInv
  <2> QED BY <1>1, <2>1, <2>2 DEF Passed
<1> QED BY <1>3, <1>4 DEF OrderInv

LEMMA CleanIndexOrder ==
  ASSUME TypeInv, TypeInv', CleanIndex
  PROVE  OrderInv'
<1>1. Passed(0)'
  BY DEF TypeInv, TypeOK, Passed
<1>2. ASSUME NEW w \in Worker PROVE Follows(w)'
  <2>1. cursor'[w] = 0 /\ pc'[w] = "idle"
    BY DEF CleanIndex
  <2> QED BY <1>1, <2>1 DEF Follows, Passed
<1>3. ASSUME NEW a \in Account PROVE Passed(doc[a].sequence)'
  <2>1. doc'[a].sequence = 0
    BY DEF CleanIndex, NoDocument
  <2> QED BY <1>1, <2>1 DEF Passed
<1> QED BY <1>2, <1>3 DEF OrderInv

\* Every step preserves the order.
LEMMA NextOrder ==
  ASSUME OneWorker, OrderedRetry, TypeInv, AheadInv, OrderInv, [Next]_vars
  PROVE  OrderInv'
<1>1. TypeInv'
  BY NextType
<1>2. CASE UNCHANGED vars
  BY <1>2 DEF vars, workerVars, OrderInv, Follows, Passed, IsAccountEvent, Subject
<1> QED
  BY <1>1, <1>2, PublishOrder, CleanIndexOrder, WorkOrder, FaultOrder DEF Next, PublishAny

\* The invariant holds of one worker that retries in order.
LEMMA OrderInvariance ==
  ASSUME OneWorker, OrderedRetry
  PROVE  Spec => [](TypeInv /\ AheadInv /\ OrderInv)
<1>1. Init => TypeInv /\ AheadInv /\ OrderInv
  BY InitType, NothingPassed DEF Init, AheadInv, Ahead, OrderInv, Follows, NoDocument
<1>2. TypeInv /\ AheadInv /\ OrderInv /\ [Next]_vars => (TypeInv /\ AheadInv /\ OrderInv)'
  BY NextType, NextAhead, NextOrder
<1> QED BY <1>1, <1>2, PTL DEF Spec

\* With one worker that retries in order, the greatest sequence of all documents is
\* a position that was reached: the event there and all account events before it
\* are in their documents, so neither the guard against redelivery nor a restart
\* passes over an event.
THEOREM NoEventIsPassedOver ==
  ASSUME OneWorker, OrderedRetry
  PROVE  Spec => []NothingPassedOver
<1>1. TypeInv /\ OrderInv => NothingPassedOver
  BY MaxSequencePassed DEF NothingPassedOver, Passed
<1> QED BY <1>1, OrderInvariance, PTL

-------------------------------------------------------------------------------
(***************************************************************************)
(* The same worker: every event is applied once.                           *)
(***************************************************************************)
\* Replay after a step, likewise.
LEMMA NextReplayIsBalance ==
  ASSUME NEW a, NEW n
  PROVE  Replay(a, n)' = BalanceOf(feed', a, n)
BY DEF Replay, BalanceOf, IsBalance

\* Events that are published later change nothing about earlier sequences.
LEMMA ReplayKept ==
  ASSUME TypeInv, Agree(feed', feed, Len(feed)), DOMAIN feed \subseteq DOMAIN feed',
         NEW a, NEW n \in Nat, n <= Len(feed)
  PROVE  Replay(a, n)' = Replay(a, n) /\ (Emptied(a, n)' <=> Emptied(a, n))
<1>0. DOMAIN feed = 1..Len(feed) /\ Len(feed) \in Nat
  BY DEF TypeInv, TypeOK
<1>1. ASSUME NEW m \in Nat, m <= Len(feed)
      PROVE  Replay(a, m)' = Replay(a, m)
  <2>1. Agree(feed', feed, m)
    BY <1>0, <1>1 DEF Agree
  <2>2. BalanceOf(feed', a, m) = BalanceOf(feed, a, m)
    BY <2>1, BalancePrefix
  <2> QED BY <2>2, NextReplayIsBalance, ReplayIsBalance
<1>2. EventsOf(a, n)' = EventsOf(a, n)
  BY <1>0 DEF EventsOf, Agree
<1>3. \A i \in EventsOf(a, n) : i \in Nat /\ i <= Len(feed) /\ feed'[i] = feed[i]
  BY <1>0 DEF EventsOf, Agree
<1>4. \A i \in EventsOf(a, n) : Replay(a, i)' = Replay(a, i)
  BY <1>1, <1>3
<1>5. Emptied(a, n)' <=> Emptied(a, n)
  BY <1>2, <1>3, <1>4 DEF Emptied
<1> QED BY <1>1, <1>5

\* An account that was emptied up to n was emptied up to m.
LEMMA EmptiedStays ==
  ASSUME NEW a, NEW n \in Nat, NEW m \in Nat, n <= m, Emptied(a, n)
  PROVE  Emptied(a, m)
<1>1. EventsOf(a, n) \subseteq EventsOf(a, m)
  BY DEF EventsOf
<1> QED BY <1>1 DEF Emptied

\* What the documents show is right while they stay as they are.
LEMMA ShowsKept ==
  ASSUME TypeInv, AppliedOnce, UNCHANGED doc, Agree(feed', feed, Len(feed)),
         DOMAIN feed \subseteq DOMAIN feed'
  PROVE  AppliedOnce'
<1> SUFFICES ASSUME NEW a \in Account
             PROVE  (~Emptied(a, doc[a].sequence)
                        => doc[a].balance = Replay(a, doc[a].sequence))'
  BY DEF AppliedOnce
<1>1. PICK n : n = doc[a].sequence
  OBVIOUS
<1>2. n \in Nat /\ n <= Len(feed)
  BY <1>1, DocumentTypes
<1>3. Replay(a, n)' = Replay(a, n) /\ (Emptied(a, n)' <=> Emptied(a, n))
  BY <1>2, ReplayKept
<1>4. ~Emptied(a, n) => doc[a].balance = Replay(a, n)
  BY <1>1 DEF AppliedOnce
<1>5. ~Emptied(a, n)' => doc'[a].balance = Replay(a, n)'
  BY <1>3, <1>4
<1>6. doc'[a].sequence = n
  BY <1>1
<1> QED BY <1>5, <1>6 DEF Emptied, EventsOf, Replay

\* No event of the account lies between its document and the event the worker
\* handles.
LEMMA NothingBetween ==
  ASSUME TypeInv, OrderInv, NEW w \in Worker, pc[w] \in {"create", "update"},
         pc[w] # "idle", Ahead(w), NEW a, a = Subject(w), NEW m, m = at[w]
  PROVE  /\ m \in Nat \ {0} /\ m - 1 \in Nat /\ doc[a].sequence \in Nat
         /\ doc[a].sequence <= m - 1 /\ m <= Len(feed) /\ a \in Account
         /\ feed[m].agg = a
         /\ \A i \in (doc[a].sequence + 1)..(m - 1) : feed[i].agg # a
<1>1. /\ a \in Account /\ m \in Nat \ {0} /\ m <= Len(feed) /\ feed[m].agg = a
  BY Handled DEF Subject
<1>2. doc[a].sequence \in Nat /\ doc[a].sequence < m
  BY <1>1, DocumentTypes DEF Ahead
<1>3. Passed(cursor[w]) /\ m <= cursor[w] + 1 /\ cursor[w] \in Nat
  BY DEF OrderInv, Follows, TypeInv, TypeOK
<1>4. ASSUME NEW i \in (doc[a].sequence + 1)..(m - 1), feed[i].agg = a PROVE FALSE
  <2>1. i \in 1..cursor[w]
    BY <1>1, <1>2, <1>3
  <2>2. doc[a].sequence >= i
    BY <1>1, <1>3, <1>4, <2>1 DEF Passed, IsAccountEvent
  <2> QED BY <1>2, <2>2
<1> QED BY <1>1, <1>2, <1>4

\* What the event that the worker handles makes of the balance.
LEMMA ReplayStep ==
  ASSUME TypeInv, OrderInv, NEW w \in Worker, pc[w] \in {"create", "update"},
         pc[w] # "idle", Ahead(w), NEW a, a = Subject(w), NEW m, m = at[w]
  PROVE  Replay(a, m) = Wrap(Replay(a, doc[a].sequence) + Delta(feed[m]))
<1>1. /\ m \in Nat \ {0} /\ m - 1 \in Nat /\ doc[a].sequence \in Nat
      /\ doc[a].sequence <= m - 1 /\ feed[m].agg = a
      /\ \A i \in (doc[a].sequence + 1)..(m - 1) : feed[i].agg # a
  BY NothingBetween
<1>2. BalanceOf(feed, a, m - 1) = BalanceOf(feed, a, doc[a].sequence)
  BY <1>1, BalanceStays
<1>3. BalanceOf(feed, a, m) = Wrap(BalanceOf(feed, a, m - 1) + Delta(feed[m]))
  BY <1>1, BalanceStep
<1> QED BY <1>2, <1>3, ReplayIsBalance

\* Without events the balance is zero.
LEMMA ReplayNothing == \A a : Replay(a, 0) = 0
BY ReplayIsBalance, BalanceStep

\* A handler writes the balance that its event leaves.
LEMMA ShowsWritten ==
  ASSUME TypeInv, TypeInv', AppliedOnce, NEW w \in Worker, pc[w] # "idle",
         NEW balance \in Int64, feed' = feed,
         doc' = [doc EXCEPT ![Subject(w)] = [sequence |-> at[w], balance |-> balance]],
         ~Emptied(Subject(w), at[w]) => balance = Replay(Subject(w), at[w])
  PROVE  AppliedOnce'
<1> SUFFICES ASSUME NEW a \in Account
             PROVE  (~Emptied(a, doc[a].sequence)
                        => doc[a].balance = Replay(a, doc[a].sequence))'
  BY DEF AppliedOnce
<1>1. PICK n : n = doc'[a].sequence
  OBVIOUS
<1>2. /\ doc'[Subject(w)] = [sequence |-> at[w], balance |-> balance]
      /\ \A b \in Account : b # Subject(w) => doc'[b] = doc[b]
  BY WriteType
<1>3. ~Emptied(a, n) => doc'[a].balance = Replay(a, n)
  <2>1. CASE a = Subject(w)
    BY <1>1, <1>2, <2>1
  <2>2. CASE a # Subject(w)
    BY <1>1, <1>2, <2>2 DEF AppliedOnce
  <2> QED BY <2>1, <2>2
<1>4. ~Emptied(a, n)' => doc'[a].balance = Replay(a, n)'
  <2>1. Emptied(a, n)' <=> Emptied(a, n)
    BY DEF Emptied, EventsOf, Replay
  <2>2. Replay(a, n)' = Replay(a, n)
    BY DEF Replay
  <2> QED BY <1>3, <2>1, <2>2
<1> QED BY <1>1, <1>4 DEF Emptied, EventsOf, Replay

\* The event that creates an account leaves it empty.
LEMMA CreateAccountShows ==
  ASSUME TypeInv, OrderInv, BalanceInv, NEW w \in Worker, Ahead(w), CreateAccount(w)
  PROVE  Replay(Subject(w), at[w]) = 0
<1>1. PICK a, m : a = Subject(w) /\ m = at[w]
  OBVIOUS
<1>2. pc[w] \in {"create", "update"} /\ pc[w] # "idle"
  BY DEF CreateAccount
<1>3. feed[m].kind = "AccountCreated"
  BY <1>1, CreateAccountWrites
<1>4. /\ m \in Nat \ {0} /\ m - 1 \in Nat /\ m <= Len(feed) /\ feed[m].agg = a
      /\ doc[a].sequence \in Nat /\ doc[a].sequence <= m - 1 /\ a \in Account
  BY <1>1, <1>2, NothingBetween DEF BalanceInv
<1>5. DOMAIN feed = 1..Len(feed) /\ Len(feed) \in Nat
  BY DEF TypeInv, TypeOK
<1>6. \A i \in (0 + 1)..(m - 1) : feed[i].agg # a
  <2>1. \A i \in DOMAIN feed : feed[i].agg = a => m <= i
    BY <1>3, <1>4, <1>5 DEF BalanceInv, CreatedFirst
  <2> QED BY <1>4, <1>5, <2>1
<1>7. Replay(a, m - 1) = 0
  <2>1. 0 \in Nat /\ 0 <= m - 1
    BY <1>4
  <2>2. BalanceOf(feed, a, m - 1) = BalanceOf(feed, a, 0)
    BY <1>4, <1>6, <2>1, BalanceStays
  <2> QED BY <2>2, ReplayNothing, ReplayIsBalance
<1>8. Replay(a, m) = Wrap(Replay(a, m - 1) + Delta(feed[m]))
  <2>1. m \in Nat /\ m # 0
    BY <1>4
  <2>2. BalanceOf(feed, a, m) = Wrap(BalanceOf(feed, a, m - 1) + Delta(feed[m]))
    BY <1>4, <2>1, BalanceStep
  <2> QED BY <2>2, ReplayIsBalance
<1>9. Delta(feed[m]) = 0
  BY <1>3 DEF Delta
<1>10. Wrap(0) = 0
  BY DomainAssumption DEF Wrap, Width
<1> QED BY <1>1, <1>7, <1>8, <1>9, <1>10

\* The balance of Update is that of the events up to its own.
LEMMA UpdateShows ==
  ASSUME TypeInv, OrderInv, BalanceInv, NEW w \in Worker, Ahead(w), Update(w),
         ~Emptied(Subject(w), at[w])
  PROVE  Updated(w) = Replay(Subject(w), at[w])
<1>1. PICK a, m : a = Subject(w) /\ m = at[w]
  OBVIOUS
<1>2. pc[w] \in {"create", "update"} /\ pc[w] # "idle" /\ pc[w] = "update"
  BY DEF Update
<1>3. /\ m \in Nat \ {0} /\ m - 1 \in Nat /\ m <= Len(feed) /\ feed[m].agg = a
      /\ doc[a].sequence \in Nat /\ doc[a].sequence <= m - 1 /\ a \in Account
  BY <1>1, <1>2, NothingBetween
<1>4. Replay(a, m) = Wrap(Replay(a, doc[a].sequence) + Delta(feed[m]))
  BY <1>1, <1>2, ReplayStep
<1>5. ~Emptied(a, doc[a].sequence)
  BY <1>1, <1>3, EmptiedStays
<1>6. read[w] = Replay(a, doc[a].sequence)
  <2>1. doc[a].balance = Replay(a, doc[a].sequence)
    BY <1>3, <1>5 DEF BalanceInv, AppliedOnce
  <2> QED BY <1>1, <1>2, <2>1 DEF BalanceInv, Fresh
<1>7. Wrap(read[w] + Delta(feed[at[w]])) = Replay(a, m)
  BY <1>1, <1>4, <1>6
<1>8. Replay(a, m) # 0
  <2>1. m \in EventsOf(a, m)
    BY <1>3 DEF EventsOf, TypeInv, TypeOK
  <2>2. feed[m].kind # "AccountCreated"
    BY <1>1, UpdateWrites
  <2> QED BY <1>1, <2>1, <2>2 DEF Emptied
<1> QED BY <1>1, <1>7, <1>8 DEF Updated

\* Only the first event of an account creates it.
LEMMA PublishCreatedFirst ==
  ASSUME TypeInv, CreatedFirst, NEW e \in Message, Publish(e)
  PROVE  CreatedFirst'
<1> SUFFICES ASSUME NEW i \in DOMAIN feed', NEW j \in DOMAIN feed',
                    feed'[j].kind = "AccountCreated", feed'[i].agg = feed'[j].agg
             PROVE  j <= i
  BY DEF CreatedFirst
<1>1. i \in Nat /\ j \in Nat /\ i <= Len(feed) + 1 /\ j <= Len(feed) + 1 /\ Len(feed) \in Nat
  BY PublishKeeps
<1>2. CASE i = Len(feed) + 1
  BY <1>1, <1>2
<1>3. CASE i # Len(feed) + 1 /\ j # Len(feed) + 1
  <2>1. /\ i \in DOMAIN feed /\ j \in DOMAIN feed
        /\ feed'[i] = feed[i] /\ feed'[j] = feed[j]
    BY <1>3, PublishKeeps
  <2> QED BY <2>1 DEF CreatedFirst
<1>4. CASE i # Len(feed) + 1 /\ j = Len(feed) + 1
  <2>1. /\ i \in DOMAIN feed /\ i \in 1..Len(feed) /\ feed'[i] = feed[i] /\ feed'[j] = e
    BY <1>4, PublishKeeps
  <2>2. EventsOf(e.agg, Len(feed)) = {}
    BY <2>1 DEF Publish, CanFollow
  <2> QED BY <2>1, <2>2 DEF EventsOf
<1> QED BY <1>2, <1>3, <1>4

\* A step that leaves feed and documents alone, and with them what a worker read.
LEMMA QuietBalance ==
  ASSUME OneWorker, TypeInv, BalanceInv, UNCHANGED <<feed, doc>>, NEW w \in Worker,
         pc'[w] = "update" => read'[w] = doc[feed[at'[w]].agg].balance
  PROVE  BalanceInv'
<1>1. \A v \in Worker : v = w
  BY DEF OneWorker
<1>2. \A v \in Worker : Fresh(v)'
  BY <1>1 DEF Fresh, Subject
<1>3. CreatedFirst'
  BY DEF BalanceInv, CreatedFirst
<1>4. AppliedOnce'
  BY ShowsKept DEF BalanceInv, Agree
<1> QED BY <1>2, <1>3, <1>4 DEF BalanceInv

\* A handler that has written its document reads again before it writes again.
LEMMA WriteBalance ==
  ASSUME OneWorker, TypeInv, BalanceInv, feed' = feed, AppliedOnce', NEW w \in Worker,
         GoTo(w, "token")
  PROVE  BalanceInv'
<1>1. \A v \in Worker : v = w
  BY DEF OneWorker
<1>2. \A v \in Worker : Fresh(v)'
  BY <1>1, GoToEnds DEF Fresh
<1>3. CreatedFirst'
  BY DEF BalanceInv, CreatedFirst
<1> QED BY <1>2, <1>3 DEF BalanceInv

\* One lemma for each kind of step: the balances after it.
LEMMA WorkBalance ==
  ASSUME OneWorker, TypeInv, TypeInv', AheadInv, OrderInv, BalanceInv,
         NEW w \in Worker, Work(w)
  PROVE  BalanceInv'
<1>0. Ahead(w) /\ AppliedOnce
  BY DEF AheadInv, BalanceInv
<1>1. CASE Skip(w)
  <2>1. pc'[w] = "idle" /\ UNCHANGED <<feed, doc>>
    BY <1>1 DEF Skip
  <2> QED BY <2>1, QuietBalance
<1>2. CASE Deliver(w)
  <2>1. pc'[w] = "check" /\ UNCHANGED <<feed, doc>>
    BY <1>2, BeginEnds DEF Deliver, Begin
  <2> QED BY <2>1, QuietBalance
<1>3. CASE IgnoreEvent(w)
  <2>1. pc'[w] = "idle" /\ UNCHANGED <<feed, doc>>
    BY <1>3, IdleEnds DEF IgnoreEvent, Return
  <2> QED BY <2>1, QuietBalance
<1>4. CASE AcceptEvent(w)
  <2>1. pc'[w] # "update" /\ UNCHANGED <<feed, doc>>
    BY <1>4, GoToEnds DEF AcceptEvent
  <2> QED BY <2>1, QuietBalance
<1>5. CASE CreateAccount(w)
  <2>1. feed' = feed /\ GoTo(w, "token")
    BY <1>5 DEF CreateAccount
  <2>2. Replay(Subject(w), at[w]) = 0
    BY <1>0, <1>5, CreateAccountShows
  <2>3. AppliedOnce'
    BY <1>0, <1>5, <2>1, <2>2, CreateAccountWrites, ShowsWritten
  <2> QED BY <2>1, <2>3, WriteBalance
<1>6. CASE GetByID(w)
  <2>1. UNCHANGED <<feed, doc, at>> /\ read'[w] = doc[Subject(w)].balance
    BY <1>6 DEF GetByID, TypeInv, TypeOK
  <2> QED BY <2>1, QuietBalance DEF Subject
<1>7. CASE UnknownAggregate(w)
  <2>1. pc'[w] = "idle" /\ UNCHANGED <<feed, doc>>
    BY <1>7, IdleEnds DEF UnknownAggregate, ReturnError
  <2> QED BY <2>1, QuietBalance
<1>8. CASE Update(w)
  <2>1. feed' = feed /\ GoTo(w, "token")
    BY <1>8 DEF Update
  <2>2. ~Emptied(Subject(w), at[w]) => Updated(w) = Replay(Subject(w), at[w])
    BY <1>0, <1>8, UpdateShows
  <2>3. AppliedOnce'
    BY <1>0, <1>8, <2>1, <2>2, UpdateWrites, ShowsWritten
  <2> QED BY <2>1, <2>3, WriteBalance
<1>9. CASE SetStreamResumeToken(w)
  <2>1. pc'[w] = "idle" /\ UNCHANGED <<feed, doc>>
    BY <1>9, IdleEnds DEF SetStreamResumeToken, Return
  <2> QED BY <2>1, QuietBalance
<1> QED
  BY <1>1, <1>2, <1>3, <1>4, <1>5, <1>6, <1>7, <1>8, <1>9 DEF Work, Handle

LEMMA FaultBalance ==
  ASSUME OneWorker, TypeInv, BalanceInv, NEW w \in Worker, Fault(w)
  PROVE  BalanceInv'
BY FaultEnds, QuietBalance

LEMMA PublishBalance ==
  ASSUME TypeInv, BalanceInv, NEW e \in Message, Publish(e)
  PROVE  BalanceInv'
<1>1. UNCHANGED <<doc, cursor, pc, at, read>>
  BY DEF Publish, workerVars
<1>2. Agree(feed', feed, Len(feed)) /\ DOMAIN feed \subseteq DOMAIN feed'
  BY PublishKeeps DEF Agree
<1>3. AppliedOnce'
  BY <1>1, <1>2, ShowsKept DEF BalanceInv
<1>4. CreatedFirst'
  BY PublishCreatedFirst DEF BalanceInv
<1>5. ASSUME NEW w \in Worker PROVE Fresh(w)'
  <2>1. Fresh(w)
    BY DEF BalanceInv
  <2>2. pc[w] = "update" => at[w] \in 1..Len(feed)
    BY Handled DEF TypeInv, TypeOK
  <2>3. pc[w] = "update" => feed'[at[w]] = feed[at[w]]
    BY <2>2, PublishKeeps
  <2> QED BY <1>1, <2>1, <2>3 DEF Fresh, Subject
<1> QED BY <1>3, <1>4, <1>5 DEF BalanceInv

LEMMA CleanIndexBalance ==
  ASSUME BalanceInv, CleanIndex
  PROVE  BalanceInv'
<1>1. CreatedFirst'
  BY DEF CleanIndex, BalanceInv, CreatedFirst
<1>2. \A w \in Worker : Fresh(w)'
  BY DEF CleanIndex, Fresh
<1>3. ASSUME NEW a \in Account PROVE doc'[a].balance = Replay(a, doc[a].sequence)'
  <2>1. doc'[a].balance = 0 /\ doc'[a].sequence = 0
    BY DEF CleanIndex, NoDocument
  <2>2. Replay(a, 0)' = 0
    BY NextReplayIsBalance, BalanceStep
  <2> QED BY <2>1, <2>2 DEF Replay
<1>4. AppliedOnce'
  BY <1>3 DEF AppliedOnce
<1> QED BY <1>1, <1>2, <1>4 DEF BalanceInv

\* Every step preserves the balances.
LEMMA NextBalance ==
  ASSUME OneWorker, OrderedRetry, TypeInv, AheadInv, OrderInv, BalanceInv, [Next]_vars
  PROVE  BalanceInv'
<1>1. TypeInv'
  BY NextType
<1>2. CASE UNCHANGED vars
  <2>1. UNCHANGED <<feed, doc, pc, at, read>>
    BY <1>2 DEF vars, workerVars
  <2>2. AppliedOnce'
    BY <2>1, ShowsKept DEF BalanceInv, Agree
  <2>3. CreatedFirst' /\ \A w \in Worker : Fresh(w)'
    BY <2>1 DEF BalanceInv, CreatedFirst, Fresh, Subject
  <2> QED BY <2>2, <2>3 DEF BalanceInv
<1> QED
  BY <1>1, <1>2, PublishBalance, CleanIndexBalance, WorkBalance, FaultBalance
     DEF Next, PublishAny

\* The initial state has no events and no balance.
LEMMA InitBalance == Init => BalanceInv
<1> SUFFICES ASSUME Init PROVE BalanceInv
  OBVIOUS
<1>1. CreatedFirst
  BY DEF Init, CreatedFirst
<1>2. \A w \in Worker : Fresh(w)
  BY DEF Init, Fresh
<1>3. \A a \in Account : doc[a].balance = 0 /\ doc[a].sequence = 0
  BY DEF Init, NoDocument
<1>4. AppliedOnce
  BY <1>3, ReplayNothing DEF AppliedOnce
<1> QED BY <1>1, <1>2, <1>4 DEF BalanceInv

\* With one worker that retries in order, every document shows the balance that the
\* events of its account up to its sequence add up to, each applied once, unless one
\* of them took the balance to zero: whatever was redelivered, interrupted between
\* two requests of the handler, or built again from a clean index.
THEOREM EventsAreAppliedOnce ==
  ASSUME OneWorker, OrderedRetry
  PROVE  Spec => []AppliedOnce
<1> DEFINE Inv == TypeInv /\ AheadInv /\ OrderInv
<1>1. Init => BalanceInv
  BY InitBalance
<1>2. Inv /\ BalanceInv /\ [Next]_vars => BalanceInv'
  BY NextBalance
<1>3. BalanceInv => AppliedOnce
  BY DEF BalanceInv
<1>4. Spec => []Inv
  BY OrderInvariance
<1> HIDE DEF Inv
<1> QED BY <1>1, <1>2, <1>3, <1>4, PTL DEF Spec
===============================================================================
