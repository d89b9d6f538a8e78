--------------------------- MODULE ConservationProofs ---------------------------
(***************************************************************************)
(* Money is conserved, for any finite number of accounts and transactions. *)
(*                                                                         *)
(* The argument is an invariant without the premise that nothing is in     *)
(* flight: at every moment the accounts hold together, up to overflow,     *)
(* what the legs applied so far have brought in less what they have taken  *)
(* out.  Each step changes one term on either side by the same sum.        *)
(*                                                                         *)
(* The sums are folds over finite sets.  What holds of every finite set is *)
(* proved by the smallest counterexample, as no subset of it is one.       *)
(*                                                                         *)
(* The last section is about the premise of MoneyConserved that a failed   *)
(* transaction credits nobody.                                             *)
(***************************************************************************)
EXTENDS LegProofs, FiniteSetTheorems, WellFoundedInduction

USE DomainAssumption, TransfersAssumption

-------------------------------------------------------------------------------
(***************************************************************************)
(* Sums of functions over finite sets.                                     *)
(***************************************************************************)
\* The element that a fold over s takes first.
Pick(s) == CHOOSE x \in s : TRUE

\* The function that MapThenSumSet defines by recursion.
IsSum(f, g, S) ==
  f = [s \in SUBSET S |-> IF s = {} THEN 0 ELSE g[Pick(s)] + f[s \ {Pick(s)}]]

\* The sum of g over S.
SumOf(g, S) == (CHOOSE f : IsSum(f, g, S))[S]

\* Of the subsets of a finite set, some of which are bad, one is bad and contains no
\* other bad one.
LEMMA Smallest ==
  ASSUME NEW S, IsFiniteSet(S), NEW Bad \in SUBSET SUBSET S, Bad # {}
  PROVE  \E m \in Bad : \A s \in SUBSET m : s # m => s \notin Bad
<1>1. IsWellFoundedOn(StrictSubsetOrdering(S), SUBSET S)
  BY FS_StrictSubsetOrderingWellFounded, FS_FiniteSubsetsOfFinite
<1>2. PICK m \in Bad : \A s \in Bad : <<s, m>> \notin StrictSubsetOrdering(S)
  BY <1>1, WFMin
<1>3. ASSUME NEW s \in SUBSET m, s # m, s \in Bad PROVE FALSE
  BY <1>2, <1>3 DEF StrictSubsetOrdering
<1> QED BY <1>3

\* It is an element of the set.
LEMMA Picked == ASSUME NEW s, s # {} PROVE Pick(s) \in s
BY DEF Pick

\* What the function is at a subset.
LEMMA SumAt ==
  ASSUME NEW f, NEW g, NEW S, IsSum(f, g, S), NEW s \in SUBSET S
  PROVE  f[s] = IF s = {} THEN 0 ELSE g[Pick(s)] + f[s \ {Pick(s)}]
BY DEF IsSum

Equal(g, k, S) == \A x \in S : g[x] = k[x]

\* Where two functions are equal, so are their sums.
LEMMA SumsAgree ==
  ASSUME NEW S, NEW T, NEW R, IsFiniteSet(R), R \subseteq S, R \subseteq T,
         NEW f, NEW g, IsSum(f, g, S), NEW h, NEW k, IsSum(h, k, T), Equal(g, k, R)
  PROVE  f[R] = h[R]
<1> SUFFICES ASSUME f[R] # h[R] PROVE FALSE
  OBVIOUS
<1> DEFINE Bad == {s \in SUBSET R : f[s] # h[s]}
<1>1. PICK m \in Bad : \A s \in SUBSET m : s # m => s \notin Bad
  <2>1. Bad \in SUBSET SUBSET R /\ R \in Bad
    OBVIOUS
  <2> HIDE DEF Bad
  <2> QED BY <2>1, Smallest
<1>2. m \in SUBSET R /\ m \in SUBSET S /\ m \in SUBSET T /\ f[m] # h[m]
  BY <1>1
<1>3. /\ f[m] = IF m = {} THEN 0 ELSE g[Pick(m)] + f[m \ {Pick(m)}]
      /\ h[m] = IF m = {} THEN 0 ELSE k[Pick(m)] + h[m \ {Pick(m)}]
  BY <1>2, SumAt
<1>4. m # {} => Pick(m) \in m
  BY Picked
<1>5. m # {} => f[m \ {Pick(m)}] = h[m \ {Pick(m)}]
  BY <1>1, <1>2, <1>4
<1>6. m # {} => g[Pick(m)] = k[Pick(m)]
  BY <1>2, <1>4 DEF Equal
<1> QED BY <1>2, <1>3, <1>5, <1>6

\* If there is such a function, SumOf is its value.
LEMMA SumIs ==
  ASSUME NEW S, NEW R, IsFiniteSet(R), R \subseteq S, NEW f, NEW g, IsSum(f, g, S),
         NEW h, IsSum(h, g, R)
  PROVE  SumOf(g, R) = f[R]
<1>1. PICK k : IsSum(k, g, R) /\ SumOf(g, R) = k[R]
  BY DEF SumOf
<1>2. Equal(g, g, R)
  BY DEF Equal
<1> QED BY <1>1, <1>2, SumsAgree

\* The function exists.
LEMMA SumExists ==
  ASSUME NEW S, IsFiniteSet(S), NEW g
  PROVE  \E f : IsSum(f, g, S)
<1> SUFFICES ASSUME ~\E f : IsSum(f, g, S) PROVE FALSE
  OBVIOUS
<1> DEFINE Bad == {s \in SUBSET S : ~\E f : IsSum(f, g, s)}
<1>1. PICK m \in Bad : \A s \in SUBSET m : s # m => s \notin Bad
  <2>1. Bad \in SUBSET SUBSET S /\ S \in Bad
    OBVIOUS
  <2> HIDE DEF Bad
  <2> QED BY <2>1, Smallest
<1>2. m \in SUBSET S /\ IsFiniteSet(m) /\ ~\E f : IsSum(f, g, m)
  BY <1>1, FS_Subset
<1>3. ASSUME NEW t \in SUBSET m, t # m PROVE IsFiniteSet(t) /\ \E f : IsSum(f, g, t)
  BY <1>1, <1>2, <1>3, FS_Subset
<1>4. ASSUME NEW t \in SUBSET m, t # m
      PROVE  SumOf(g, t) = IF t = {} THEN 0 ELSE g[Pick(t)] + SumOf(g, t \ {Pick(t)})
  <2>1. PICK f : IsSum(f, g, t)
    BY <1>3, <1>4
  <2>2. f[t] = IF t = {} THEN 0 ELSE g[Pick(t)] + f[t \ {Pick(t)}]
    BY <2>1, SumAt
  <2>3. SumOf(g, t) = f[t]
    BY <1>3, <1>4, <2>1, SumIs
  <2>4. t # {} => SumOf(g, t \ {Pick(t)}) = f[t \ {Pick(t)}]
    <3> SUFFICES ASSUME t # {} PROVE SumOf(g, t \ {Pick(t)}) = f[t \ {Pick(t)}]
      OBVIOUS
    <3> DEFINE u == t \ {Pick(t)}
    <3>1. u \in SUBSET m /\ u # m /\ u \subseteq t
      BY <1>4
    <3>2. IsFiniteSet(u) /\ \E h : IsSum(h, g, u)
      BY <1>3, <3>1
    <3> HIDE DEF u
    <3>3. SumOf(g, u) = f[u]
      BY <2>1, <3>1, <3>2, SumIs
    <3> QED BY <3>3 DEF u
  <2> QED BY <2>2, <2>3, <2>4
<1> DEFINE f == [s \in SUBSET m |-> IF s = {} THEN 0
                                    ELSE g[Pick(s)] + SumOf(g, s \ {Pick(s)})]
<1>5. ASSUME NEW s \in SUBSET m, s # {}
      PROVE  f[s \ {Pick(s)}] = SumOf(g, s \ {Pick(s)})
  <2> DEFINE u == s \ {Pick(s)}
  <2>1. u \in SUBSET m /\ u # m
    BY <1>5, Picked
  <2> HIDE DEF u
  <2>2. f[u] = SumOf(g, u)
    BY <1>4, <2>1
  <2> QED BY <2>2 DEF u
<1>6. IsSum(f, g, m)
  <2>1. f = [s \in SUBSET m |-> IF s = {} THEN 0 ELSE g[Pick(s)] + f[s \ {Pick(s)}]]
    BY <1>5
  <2> HIDE DEF f
  <2> QED BY <2>1 DEF IsSum
<1> QED BY <1>2, <1>6

\* The recursion that sums follow.
LEMMA SumStep ==
  ASSUME NEW S, IsFiniteSet(S), NEW g
  PROVE  SumOf(g, S) = IF S = {} THEN 0 ELSE g[Pick(S)] + SumOf(g, S \ {Pick(S)})
<1>1. PICK f : IsSum(f, g, S) /\ SumOf(g, S) = f[S]
  BY SumExists DEF SumOf
<1>2. f[S] = IF S = {} THEN 0 ELSE g[Pick(S)] + f[S \ {Pick(S)}]
  BY <1>1, SumAt
<1> DEFINE u == S \ {Pick(S)}
<1>3. u \subseteq S /\ IsFiniteSet(u)
  BY FS_Subset
<1>4. \E h : IsSum(h, g, u)
  BY <1>3, SumExists
<1> HIDE DEF u
<1>5. SumOf(g, u) = f[u]
  BY <1>1, <1>3, <1>4, SumIs
<1> QED BY <1>1, <1>2, <1>5 DEF u

\* Sums of equal functions.
LEMMA SumSame ==
  ASSUME NEW S, IsFiniteSet(S), NEW g, NEW k, Equal(g, k, S)
  PROVE  SumOf(g, S) = SumOf(k, S)
<1>1. PICK f : IsSum(f, g, S) /\ SumOf(g, S) = f[S]
  BY SumExists DEF SumOf
<1>2. PICK h : IsSum(h, k, S) /\ SumOf(k, S) = h[S]
  BY SumExists DEF SumOf
<1> QED BY <1>1, <1>2, SumsAgree

IntsOn(g, S) == \A x \in S : g[x] \in Int

\* A sum of integers is one.
LEMMA SumType ==
  ASSUME NEW S, IsFiniteSet(S), NEW g, IntsOn(g, S)
  PROVE  SumOf(g, S) \in Int
<1> SUFFICES ASSUME SumOf(g, S) \notin Int PROVE FALSE
  OBVIOUS
<1> DEFINE Bad == {s \in SUBSET S : SumOf(g, s) \notin Int}
<1>1. PICK m \in Bad : \A s \in SUBSET m : s # m => s \notin Bad
  <2>1. Bad \in SUBSET SUBSET S /\ S \in Bad
    OBVIOUS
  <2> HIDE DEF Bad
  <2> QED BY <2>1, Smallest
<1>2. m \in SUBSET S /\ SumOf(g, m) \notin Int
  BY <1>1
<1>3. SumOf(g, m) = IF m = {} THEN 0 ELSE g[Pick(m)] + SumOf(g, m \ {Pick(m)})
  <2>1. IsFiniteSet(m)
    BY <1>2, FS_Subset
  <2> QED BY <2>1, SumStep
<1>4. m # {}
  BY <1>2, <1>3
<1>5. Pick(m) \in m /\ g[Pick(m)] \in Int
  BY <1>2, <1>4, Picked DEF IntsOn
<1>6. SumOf(g, m \ {Pick(m)}) \in Int
  BY <1>1, <1>2, <1>5
<1> QED BY <1>2, <1>3, <1>4, <1>5, <1>6

\* Any element may be the first.
LEMMA SumRemove ==
  ASSUME NEW S, IsFiniteSet(S), NEW g, IntsOn(g, S), NEW x \in S
  PROVE  SumOf(g, S) = g[x] + SumOf(g, S \ {x})
<1> DEFINE Wrong(s) == \E y \in s : SumOf(g, s) # g[y] + SumOf(g, s \ {y})
<1> SUFFICES ASSUME Wrong(S) PROVE FALSE
  OBVIOUS
<1> DEFINE Bad == {s \in SUBSET S : Wrong(s)}
<1>1. PICK m \in Bad : \A s \in SUBSET m : s # m => s \notin Bad
  <2>1. Bad \in SUBSET SUBSET S /\ S \in Bad
    OBVIOUS
  <2> HIDE DEF Bad
  <2> QED BY <2>1, Smallest
<1>2. m \in SUBSET S /\ Wrong(m)
  BY <1>1
<1>3. PICK y \in m : SumOf(g, m) # g[y] + SumOf(g, m \ {y})
  BY <1>2
<1> DEFINE p == Pick(m)
           mp == m \ {p}
           my == m \ {y}
           both == mp \ {y}
<1>4. p \in m
  BY <1>3, Picked
<1>5. /\ IsFiniteSet(m) /\ IsFiniteSet(mp) /\ IsFiniteSet(my) /\ IsFiniteSet(both)
      /\ both = my \ {p}
  <2>1. IsFiniteSet(m)
    BY <1>2, FS_Subset
  <2>2. mp \in SUBSET m /\ my \in SUBSET m /\ both \in SUBSET m
    OBVIOUS
  <2> HIDE DEF mp, my, both
  <2>3. IsFiniteSet(mp) /\ IsFiniteSet(my) /\ IsFiniteSet(both)
    BY <2>1, <2>2, FS_Subset
  <2> QED BY <2>1, <2>3 DEF mp, my, both
<1>6. SumOf(g, m) = g[p] + SumOf(g, mp)
  BY <1>3, <1>5, SumStep
<1>7. p # y
  BY <1>3, <1>6
<1>8. ~Wrong(mp) /\ ~Wrong(my)
  <2>1. mp \in SUBSET m /\ mp # m /\ my \in SUBSET m /\ my # m
    BY <1>3, <1>4
  <2> HIDE DEF mp, my, Wrong
  <2> QED BY <1>1, <1>2, <2>1
<1>9. SumOf(g, mp) = g[y] + SumOf(g, both) /\ SumOf(g, my) = g[p] + SumOf(g, both)
  <2>1. y \in mp /\ p \in my
    BY <1>3, <1>4, <1>7
  <2> QED BY <1>5, <1>8, <2>1
<1>10. SumOf(g, both) \in Int /\ g[p] \in Int /\ g[y] \in Int
  <2>1. IntsOn(g, both)
    BY <1>2 DEF IntsOn
  <2> HIDE DEF both
  <2> QED BY <1>2, <1>3, <1>4, <1>5, <2>1, SumType DEF IntsOn
<1> QED
  <2> HIDE DEF mp, my, both, p
  <2> QED BY <1>3, <1>6, <1>9, <1>10 DEF my

\* One term changes, and the sum by as much.
LEMMA SumChange ==
  ASSUME NEW S, IsFiniteSet(S), NEW g, NEW k, IntsOn(g, S), NEW x \in S, k[x] \in Int,
         \A y \in S \ {x} : k[y] = g[y]
  PROVE  SumOf(k, S) = SumOf(g, S) + (k[x] - g[x])
<1> DEFINE R == S \ {x}
<1>1. IsFiniteSet(R) /\ IntsOn(g, R) /\ IntsOn(k, S) /\ Equal(k, g, R)
  <2>1. R \in SUBSET S
    OBVIOUS
  <2>2. IntsOn(g, R) /\ IntsOn(k, S) /\ Equal(k, g, R)
    BY DEF IntsOn, Equal
  <2> QED BY <2>1, <2>2, FS_Subset
<1>2. SumOf(g, S) = g[x] + SumOf(g, R) /\ SumOf(k, S) = k[x] + SumOf(k, R)
  BY <1>1, SumRemove
<1>3. SumOf(k, R) = SumOf(g, R) /\ SumOf(g, R) \in Int
  <2> HIDE DEF R
  <2> QED BY <1>1, SumSame, SumType
<1> QED BY <1>2, <1>3 DEF IntsOn

\* Terms that are 0 do not count.
LEMMA SumZeros ==
  ASSUME NEW S, IsFiniteSet(S), NEW R \in SUBSET S, NEW g, IntsOn(g, S),
         \A x \in S \ R : g[x] = 0
  PROVE  SumOf(g, S) = SumOf(g, R)
<1> SUFFICES ASSUME SumOf(g, S) # SumOf(g, S \cap R) PROVE FALSE
  <2>1. S \cap R = R
    OBVIOUS
  <2> QED BY <2>1
<1> DEFINE Bad == {s \in SUBSET S : SumOf(g, s) # SumOf(g, s \cap R)}
<1>1. PICK m \in Bad : \A s \in SUBSET m : s # m => s \notin Bad
  <2>1. Bad \in SUBSET SUBSET S /\ S \in Bad
    OBVIOUS
  <2> HIDE DEF Bad
  <2> QED BY <2>1, Smallest
<1>2. m \in SUBSET S /\ SumOf(g, m) # SumOf(g, m \cap R)
  BY <1>1
<1>3. PICK x \in m : x \notin R
  <2>1. m \cap R # m
    BY <1>2
  <2> QED BY <2>1
<1> DEFINE u == m \ {x}
<1>4. u \in SUBSET m /\ u # m /\ u \cap R = m \cap R
  BY <1>3
<1>5. SumOf(g, u) = SumOf(g, m \cap R)
  <2> HIDE DEF u
  <2> QED BY <1>1, <1>2, <1>4
<1>6. SumOf(g, m) = 0 + SumOf(g, u) /\ SumOf(g, u) \in Int
  <2>1. IsFiniteSet(m) /\ IsFiniteSet(u)
    BY <1>2, <1>4, FS_Subset
  <2>2. IntsOn(g, m) /\ IntsOn(g, u) /\ g[x] = 0
    BY <1>2, <1>3 DEF IntsOn
  <2>3. SumOf(g, m) = g[x] + SumOf(g, u)
    BY <2>1, <2>2, SumRemove
  <2> HIDE DEF u
  <2> QED BY <2>1, <2>2, <2>3, SumType
<1> QED BY <1>2, <1>5, <1>6

-------------------------------------------------------------------------------
(***************************************************************************)
(* The sums of the property are such sums.                                 *)
(***************************************************************************)
\* Balances, and what the transactions should have added, as functions.
Balances == [a \in Account |-> acc[a].balance]

Dues == [t \in Tx |-> DueFlow(t)]

\* A function that satisfies the recursion is the one that is chosen.
LEMMA ChosenSum ==
  ASSUME NEW S, IsFiniteSet(S), NEW g, NEW f, IsSum(f, g, S)
  PROVE  f[S] = SumOf(g, S)
BY SumIs

\* The balances.
LEMMA SumOfBalances ==
  ASSUME IsFiniteSet(Account)
  PROVE  MapThenSumSet(LAMBDA a : acc[a].balance, Account) = SumOf(Balances, Account)
<1> DEFINE Q(f) == f = [s \in SUBSET Account |->
                          IF s = {} THEN 0
                          ELSE acc[CHOOSE x \in s : TRUE].balance
                                 + f[s \ {CHOOSE x \in s : TRUE}]]
<1>1. MapThenSumSet(LAMBDA a : acc[a].balance, Account) = (CHOOSE f : Q(f))[Account]
  BY DEF MapThenSumSet, MapThenFoldSet
<1>2. ASSUME NEW f PROVE Q(f) <=> IsSum(f, Balances, Account)
  <2>1. ASSUME NEW s \in SUBSET Account, s # {}
        PROVE  Balances[Pick(s)] = acc[CHOOSE x \in s : TRUE].balance
    <3>1. Pick(s) \in Account
      BY <2>1, Picked
    <3> QED BY <3>1 DEF Balances, Pick
  <2>2. [s \in SUBSET Account |->
           IF s = {} THEN 0
           ELSE acc[CHOOSE x \in s : TRUE].balance + f[s \ {CHOOSE x \in s : TRUE}]]
        = [s \in SUBSET Account |->
             IF s = {} THEN 0 ELSE Balances[Pick(s)] + f[s \ {Pick(s)}]]
    BY <2>1 DEF Pick
  <2> QED BY <2>2 DEF IsSum
<1> HIDE DEF Q
<1>3. \E f : Q(f)
  BY <1>2, SumExists
<1>4. PICK f : f = (CHOOSE h : Q(h)) /\ Q(f)
  BY <1>3
<1> QED BY <1>1, <1>2, <1>4, ChosenSum

\* What the transactions placed so far should have added.
LEMMA SumOfDues ==
  ASSUME NEW S \in SUBSET Tx, IsFiniteSet(S)
  PROVE  MapThenSumSet(DueFlow, S) = SumOf(Dues, S)
<1> DEFINE Q(f) == f = [s \in SUBSET S |->
                          IF s = {} THEN 0
                          ELSE DueFlow(CHOOSE x \in s : TRUE)
                                 + f[s \ {CHOOSE x \in s : TRUE}]]
<1>1. MapThenSumSet(DueFlow, S) = (CHOOSE f : Q(f))[S]
  BY DEF MapThenSumSet, MapThenFoldSet
<1>2. ASSUME NEW f PROVE Q(f) <=> IsSum(f, Dues, S)
  <2>1. ASSUME NEW s \in SUBSET S, s # {}
        PROVE  Dues[Pick(s)] = DueFlow(CHOOSE x \in s : TRUE)
    <3>1. Pick(s) \in Tx
      BY <2>1, Picked
    <3> QED BY <3>1 DEF Dues, Pick
  <2>2. [s \in SUBSET S |->
           IF s = {} THEN 0
           ELSE DueFlow(CHOOSE x \in s : TRUE) + f[s \ {CHOOSE x \in s : TRUE}]]
        = [s \in SUBSET S |->
             IF s = {} THEN 0 ELSE Dues[Pick(s)] + f[s \ {Pick(s)}]]
    BY <2>1 DEF Pick
  <2> QED BY <2>2 DEF IsSum
<1> HIDE DEF Q
<1>3. \E f : Q(f)
  BY <1>2, SumExists
<1>4. PICK f : f = (CHOOSE h : Q(h)) /\ Q(f)
  BY <1>3
<1> QED BY <1>1, <1>2, <1>4, ChosenSum

-------------------------------------------------------------------------------
(***************************************************************************)
(* The invariant.                                                          *)
(***************************************************************************)
\* What the legs of t that were applied have added to the accounts.
Flow(t) ==
  Signed(AppliedLeg(t, "deposit"), tx[t].money)
    - Signed(AppliedLeg(t, "withdraw"), tx[t].money)
    + Signed(AppliedLeg(t, "rollback"), tx[t].money)

Flows == [t \in Tx |-> Flow(t)]

\* The accounts hold what was added to them.
Balanced == \E k \in Int : SumOf(Balances, Account) = SumOf(Flows, Tx) + k * Width

DepositsHaveAccounts == \A t \in Tx : AppliedLeg(t, "deposit") => tx[t].to # Nobody

ConservationInv == Balanced /\ DepositsHaveAccounts

\* Overflow is by the whole range of an int64.
LEMMA WrapShift ==
  ASSUME NEW n \in Int
  PROVE  Width \in Int /\ Wrap(n) \in {n - Width, n, n + Width}
BY DomainAssumption DEF Wrap, Width

\* Sums of money, balances and flows are integers.
LEMMA MoneyTypes ==
  ASSUME StoreTypeOK
  PROVE  /\ \A t \in Tx : tx[t].money \in Int /\ Flow(t) \in Int
         /\ \A a \in Account : acc[a].balance \in Int
<1>1. Int64 \subseteq Int /\ \A m \in Amount \cup {0} : m \in Int
  BY DomainAssumption DEF Int64
<1>2. ASSUME NEW a \in Account PROVE acc[a].balance \in Int
  <2>1. acc[a] \in AccountState
    BY DEF StoreTypeOK
  <2> QED BY <2>1, <1>1 DEF AccountState
<1>3. ASSUME NEW t \in Tx PROVE tx[t].money \in Int /\ Flow(t) \in Int
  <2>1. tx[t] \in TransactionState
    BY DEF StoreTypeOK
  <2>2. tx[t].money \in Amount \cup {0}
    BY <2>1 DEF TransactionState
  <2>3. tx[t].money \in Int
    BY <2>2, <1>1
  <2> QED BY <2>3 DEF Flow, Signed
<1> QED BY <1>2, <1>3

\* Of whole widths, one more or one less are whole widths.
LEMMA Widths ==
  ASSUME NEW k \in Int, NEW w \in Int
  PROVE  k * w + w = (k + 1) * w /\ k * w - w = (k - 1) * w /\ k * w \in Int
OBVIOUS

\* Transaction t moves d to account a.
Moves(t, a, d) ==
  /\ acc'[a].balance = Wrap(acc[a].balance + d)
  /\ \A b \in Account \ {a} : acc'[b].balance = acc[b].balance
  /\ Flow(t)' = Flow(t) + d
  /\ \A u \in Tx \ {t} : Flow(u)' = Flow(u)

\* Both sums change by as much.
LEMMA MovesBalance ==
  ASSUME IsFiniteSet(Account), IsFiniteSet(Tx), StoreTypeOK, StoreTypeOK', Balanced,
         NEW t \in Tx, NEW a \in Account, NEW d \in Int, Moves(t, a, d)
  PROVE  Balanced'
<1>1. PICK k \in Int : SumOf(Balances, Account) = SumOf(Flows, Tx) + k * Width
  BY DEF Balanced
<1>2. /\ SumOf(Balances, Account) \in Int
      /\ SumOf(Balances', Account)
           = SumOf(Balances, Account) + (acc'[a].balance - acc[a].balance)
  <2>1. PICK g, h : g = Balances /\ h = Balances'
    OBVIOUS
  <2>2. /\ \A b \in Account : g[b] = acc[b].balance /\ h[b] = acc'[b].balance
    BY <2>1 DEF Balances
  <2>3. /\ IntsOn(g, Account) /\ h[a] \in Int
        /\ \A b \in Account \ {a} : h[b] = g[b]
    BY <2>2, MoneyTypes DEF IntsOn, Moves, StoreTypeOK, AccountState, Int64
  <2>4. /\ SumOf(g, Account) \in Int
        /\ SumOf(h, Account) = SumOf(g, Account) + (h[a] - g[a])
    BY <2>3, SumType, SumChange
  <2> QED BY <2>1, <2>2, <2>4
<1>3. /\ SumOf(Flows, Tx) \in Int
      /\ SumOf(Flows', Tx) = SumOf(Flows, Tx) + d
  <2>1. PICK g, h : g = Flows /\ h = Flows'
    OBVIOUS
  <2>2. \A u \in Tx : g[u] = Flow(u) /\ h[u] = Flow(u)'
    BY <2>1 DEF Flows
  <2>3. /\ IntsOn(g, Tx) /\ g[t] \in Int /\ h[t] = g[t] + d /\ h[t] \in Int
        /\ \A u \in Tx \ {t} : h[u] = g[u]
    BY <2>2, MoneyTypes DEF IntsOn, Moves
  <2>4. /\ SumOf(g, Tx) \in Int
        /\ SumOf(h, Tx) = SumOf(g, Tx) + (h[t] - g[t])
    BY <2>3, SumType, SumChange
  <2> QED BY <2>1, <2>3, <2>4
<1>4. /\ acc[a].balance \in Int /\ Width \in Int
      /\ acc'[a].balance - acc[a].balance \in {d - Width, d, d + Width}
  BY MoneyTypes, WrapShift DEF Moves
<1>5. \E j \in Int : SumOf(Balances', Account) = SumOf(Flows', Tx) + j * Width
  <2>1. /\ k * Width + Width = (k + 1) * Width /\ k * Width - Width = (k - 1) * Width
        /\ k * Width \in Int /\ k + 1 \in Int /\ k - 1 \in Int
    BY <1>4, Widths
  <2>2. SumOf(Balances', Account) - SumOf(Flows', Tx)
          \in {k * Width - Width, k * Width, k * Width + Width}
    BY <1>1, <1>2, <1>3, <1>4, <2>1
  <2>3. SumOf(Balances', Account) \in Int /\ SumOf(Flows', Tx) \in Int
    BY <1>2, <1>3, <1>4
  <2> QED BY <2>1, <2>2, <2>3
<1> QED BY <1>5 DEF Balanced

\* No balance changes, nor what any transaction has added.
Stands ==
  /\ \A a \in Account : acc'[a].balance = acc[a].balance
  /\ \A t \in Tx : Flow(t)' = Flow(t)

\* Then neither sum changes.
LEMMA StandsBalance ==
  ASSUME Stands, Balanced
  PROVE  Balanced'
<1>1. Balances' = Balances
  BY DEF Stands, Balances
<1>2. Flows' = Flows
  BY DEF Stands, Flows
<1> QED BY <1>1, <1>2 DEF Balanced

-------------------------------------------------------------------------------
(***************************************************************************)
(* The steps.                                                              *)
(***************************************************************************)
\* No leg of t is applied, and what was applied is about the same money and account.
Untouched(t) ==
  /\ \A l \in Leg : AppliedLeg(t, l)' <=> AppliedLeg(t, l)
  /\ \/ tx'[t].money = tx[t].money /\ tx'[t].to = tx[t].to
     \/ \A l \in Leg : ~AppliedLeg(t, l)

\* Such a transaction has added what it had.
LEMMA SameFlow ==
  ASSUME NEW t \in Tx, Untouched(t)
  PROVE  Flow(t)' = Flow(t) /\ (AppliedLeg(t, "deposit")' <=> AppliedLeg(t, "deposit"))
<1>1. "withdraw" \in Leg /\ "deposit" \in Leg /\ "rollback" \in Leg
  BY DEF Leg
<1> QED BY <1>1 DEF Untouched, Flow, Signed

\* A leg adds its money, or takes it.
LegMoney(t, l) == IF l = "withdraw" THEN 0 - tx[t].money ELSE tx[t].money

\* When a leg is applied, its transaction has added that, and no other anything.
LEMMA AppliedFlow ==
  ASSUME StoreTypeOK, NEW t \in Tx, NEW l \in Leg, LegApplied(t, l)
  PROVE  /\ Flow(t)' = Flow(t) + LegMoney(t, l) /\ LegMoney(t, l) \in Int
         /\ \A u \in Tx \ {t} :
              Flow(u)' = Flow(u) /\ (AppliedLeg(u, "deposit")' <=> AppliedLeg(u, "deposit"))
         /\ AppliedLeg(t, "deposit")' <=> AppliedLeg(t, "deposit") \/ l = "deposit"
<1>1. "withdraw" \in Leg /\ "deposit" \in Leg /\ "rollback" \in Leg
  BY DEF Leg
<1>2. tx[t].money \in Int /\ tx' = tx
  BY MoneyTypes DEF LegApplied
<1>3. /\ ~AppliedLeg(t, l)
      /\ AppliedLeg(t, "withdraw")' <=> AppliedLeg(t, "withdraw") \/ l = "withdraw"
      /\ AppliedLeg(t, "deposit")' <=> AppliedLeg(t, "deposit") \/ l = "deposit"
      /\ AppliedLeg(t, "rollback")' <=> AppliedLeg(t, "rollback") \/ l = "rollback"
  BY <1>1 DEF LegApplied, Keyed
<1>4. Flow(t)' =
        Signed(AppliedLeg(t, "deposit")', tx[t].money)
          - Signed(AppliedLeg(t, "withdraw")', tx[t].money)
          + Signed(AppliedLeg(t, "rollback")', tx[t].money)
  BY <1>2 DEF Flow, Signed
<1>5. Flow(t)' = Flow(t) + LegMoney(t, l) /\ LegMoney(t, l) \in Int
  <2>1. CASE l = "withdraw"
    BY <2>1, <1>2, <1>3, <1>4 DEF Flow, Signed, LegMoney
  <2>2. CASE l = "deposit"
    BY <2>2, <1>2, <1>3, <1>4 DEF Flow, Signed, LegMoney
  <2>3. CASE l = "rollback"
    BY <2>3, <1>2, <1>3, <1>4 DEF Flow, Signed, LegMoney
  <2> QED BY <2>1, <2>2, <2>3 DEF Leg
<1>6. ASSUME NEW u \in Tx \ {t}
      PROVE  Flow(u)' = Flow(u) /\ (AppliedLeg(u, "deposit")' <=> AppliedLeg(u, "deposit"))
  BY <1>2, SameFlow DEF LegApplied, SameLegs, Untouched
<1> QED BY <1>3, <1>5, <1>6

\* The account of a leg gets the money of the leg, or gives it.
LEMMA SaveAccountConserves ==
  ASSUME IsFiniteSet(Account), IsFiniteSet(Tx), IInv, IInv', LegInv, ConservationInv,
         NEW w \in Worker, SaveAccount(w)
  PROVE  ConservationInv'
<1>1. PICK t, l, a : t = Current(w) /\ l = side[w] /\ a = AccountOf(w)
  OBVIOUS
<1>2. LegApplied(t, l)
  BY <1>1, SaveAccountLegs
<1>3. /\ t \in Tx /\ l \in {"withdraw", "deposit"} /\ a \in Account
      /\ l = "deposit" => tx[t].to # Nobody
  <2>1. ~Keyed(t, l)
    BY <1>2 DEF LegApplied
  <2>2. /\ t \in Tx /\ l \in {"withdraw", "deposit"} /\ a \in Account
        /\ a = IF l = "withdraw" THEN tx[t].from ELSE tx[t].to
    BY <1>1, <2>1, LegDue
  <2> QED BY <2>2, DomainAssumption
<1>4. StoreTypeOK /\ StoreTypeOK' /\ l \in Leg
  BY <1>3 DEF IInv, StoreInv, Leg
<1>5. /\ Flow(t)' = Flow(t) + LegMoney(t, l) /\ LegMoney(t, l) \in Int
      /\ \A u \in Tx \ {t} :
           Flow(u)' = Flow(u) /\ (AppliedLeg(u, "deposit")' <=> AppliedLeg(u, "deposit"))
      /\ AppliedLeg(t, "deposit")' <=> AppliedLeg(t, "deposit") \/ l = "deposit"
  BY <1>2, <1>3, <1>4, AppliedFlow
<1>6. /\ acc'[a].balance = Wrap(acc[a].balance + LegMoney(t, l))
      /\ \A b \in Account \ {a} : acc'[b] = acc[b]
  <2> DEFINE e == MoneyEvent(w)
  <2>1. /\ e.agg = a /\ e.money = tx[t].money
        /\ e.kind = IF l = "withdraw" THEN "MoneyWithdrawn" ELSE "MoneyDeposited"
    BY <1>1 DEF MoneyEvent, AccountEvent
  <2>2. acc' = [acc EXCEPT ![e.agg] = HandleAccountEvent(acc[e.agg], e)]
    BY DEF SaveAccount, StoreAccountEvent
  <2> HIDE DEF e
  <2>3. /\ acc'[a].balance = HandleAccountEvent(acc[a], e).balance
        /\ \A b \in Account \ {a} : acc'[b] = acc[b]
    BY <2>1, <2>2, <1>3, <1>4 DEF StoreTypeOK
  <2>4. acc[a].balance \in Int /\ tx[t].money \in Int
    BY <1>3, <1>4, MoneyTypes
  <2>5. acc[a].balance - tx[t].money = acc[a].balance + (0 - tx[t].money)
    BY <2>4
  <2> QED BY <2>1, <2>3, <2>5 DEF HandleAccountEvent, LegMoney
<1>7. Balanced'
  BY <1>3, <1>4, <1>5, <1>6, MovesBalance DEF Moves, ConservationInv
<1>8. DepositsHaveAccounts'
  BY <1>2, <1>3, <1>5 DEF DepositsHaveAccounts, ConservationInv, LegApplied
<1> QED BY <1>7, <1>8 DEF ConservationInv

\* So does the account that is given its money back.
LEMMA RefundConserves ==
  ASSUME IsFiniteSet(Account), IsFiniteSet(Tx), IInv, IInv', ConservationInv,
         NEW w \in Worker, Refund(w), ~HasIdempotencyKey(Current(w), "rollback")
  PROVE  ConservationInv'
<1>1. PICK t : t = Current(w)
  OBVIOUS
<1>2. LegApplied(t, "rollback")
  BY <1>1, RefundLegs
<1>3. t \in Tx /\ tx[t].from \in Account
  BY <1>1, Busy DEF Refund
<1>4. StoreTypeOK /\ StoreTypeOK' /\ "rollback" \in Leg
  BY DEF IInv, StoreInv, Leg
<1>5. /\ Flow(t)' = Flow(t) + tx[t].money /\ tx[t].money \in Int
      /\ \A u \in Tx \ {t} :
           Flow(u)' = Flow(u) /\ (AppliedLeg(u, "deposit")' <=> AppliedLeg(u, "deposit"))
      /\ AppliedLeg(t, "deposit")' <=> AppliedLeg(t, "deposit")
  BY <1>2, <1>3, <1>4, AppliedFlow DEF LegMoney
<1>6. PICK a : a = tx[t].from
  OBVIOUS
<1>7. /\ acc'[a].balance = Wrap(acc[a].balance + tx[t].money)
      /\ \A b \in Account \ {a} : acc'[b] = acc[b]
  <2> DEFINE e == AccountEvent("MoneyDeposited", a, acc[a].version + 1, t, "rollback",
                               tx[t].money)
  <2>1. e.agg = a /\ e.money = tx[t].money /\ e.kind = "MoneyDeposited"
    BY DEF AccountEvent
  <2>2. acc' = [acc EXCEPT ![e.agg] = HandleAccountEvent(acc[e.agg], e)]
    BY <1>1, <1>6 DEF Refund, RefundEvent, StoreAccountEvent
  <2> HIDE DEF e
  <2> QED BY <2>1, <2>2, <1>3, <1>4, <1>6 DEF StoreTypeOK, HandleAccountEvent
<1>8. Balanced'
  BY <1>3, <1>4, <1>5, <1>6, <1>7, MovesBalance DEF Moves, ConservationInv
<1>9. DepositsHaveAccounts'
  BY <1>2, <1>5 DEF DepositsHaveAccounts, ConservationInv, LegApplied
<1> QED BY <1>8, <1>9 DEF ConservationInv

\* The steps that apply no leg.
LEMMA StandsConserves ==
  ASSUME ConservationInv, \A u \in Tx : Untouched(u),
         \A a \in Account : acc'[a].balance = acc[a].balance
  PROVE  ConservationInv'
<1>1. ASSUME NEW u \in Tx
      PROVE  Flow(u)' = Flow(u) /\ (AppliedLeg(u, "deposit")' <=> AppliedLeg(u, "deposit"))
  BY <1>1, SameFlow
<1>2. Balanced'
  BY <1>1, StandsBalance DEF Stands, ConservationInv
<1>3. DepositsHaveAccounts'
  BY <1>1 DEF DepositsHaveAccounts, ConservationInv, Untouched, Leg
<1> QED BY <1>2, <1>3 DEF ConservationInv

\* Refusing a leg, or completing the transaction, moves no money.
LEMMA OutcomeConserves ==
  ASSUME IInv, LegInv, ConservationInv, NEW w \in Worker,
         StoreRefusal(w) \/ (Settle(w) /\ IsPending(tx[Current(w)]))
  PROVE  ConservationInv'
<1>1. PICK t, l : t = Current(w) /\ l = side[w]
  OBVIOUS
<1>2. t \in Tx /\ tx \in [Tx -> TransactionState]
  BY <1>1, Busy DEF StoreRefusal, Settle, IInv, StoreInv, StoreTypeOK
<1>3. /\ acc' = acc
      /\ \A u \in Tx : Untouched(u)
  <2>1. CASE StoreRefusal(w)
    <3>1. LegRefused(t, l)
      BY <2>1, <1>1, StoreRefusalLegs
    <3>2. tx'[t].money = tx[t].money /\ tx'[t].to = tx[t].to
      BY <3>1, <1>2 DEF LegRefused, TransactionState
    <3> QED BY <3>1, <3>2 DEF LegRefused, SameLegs, Untouched
  <2>2. CASE Settle(w) /\ IsPending(tx[Current(w)])
    <3>1. /\ acc' = acc
          /\ tx' = [tx EXCEPT ![t] = [tx[t] EXCEPT !.version = tx[t].version + 1,
                                                   !.status = "SUCCEEDED"]]
          /\ \A u : SameLegs(u)
      BY <2>2, <1>1, SettleLegs
    <3>2. \A u \in Tx : tx'[u].money = tx[u].money /\ tx'[u].to = tx[u].to
      BY <3>1, <1>2 DEF TransactionState
    <3> QED BY <3>1, <3>2 DEF SameLegs, Untouched
  <2> QED BY <2>1, <2>2
<1> QED BY <1>3, StandsConserves

\* Nor does placing one: it has no legs yet.
LEMMA CreateTransactionConserves ==
  ASSUME IInv, LegInv, ConservationInv, NEW t \in Tx, NEW from \in Party,
         NEW to \in Party, NEW money \in Amount, CreateTransaction(t, from, to, money)
  PROVE  ConservationInv'
<1>1. /\ acc' = acc
      /\ tx' = [tx EXCEPT ![t] = [version |-> 1, status |-> "PENDING",
                                  from |-> from, to |-> to, money |-> money]]
      /\ \A u : SameLegs(u)
  BY CreateTransactionLegs
<1>2. \A l \in Leg : ~AppliedLeg(t, l)
  BY DEF CreateTransaction, LegInv, TransactionOK, Keyed
<1>3. \A u \in Tx \ {t} : tx'[u] = tx[u]
  BY <1>1 DEF IInv, StoreInv, StoreTypeOK
<1>4. \A u \in Tx : Untouched(u)
  BY <1>1, <1>2, <1>3 DEF SameLegs, Untouched
<1> QED BY <1>1, <1>4, StandsConserves

\* An account is created with no money, in place of one that held none.
LEMMA AccountCommandConserves ==
  ASSUME IInv, LegInv, ConservationInv, NEW a \in Account, CreateAccount(a) \/ Freeze(a)
  PROVE  ConservationInv'
<1>1. acc \in [Account -> AccountState]
  BY DEF IInv, StoreInv, StoreTypeOK
<1>2. \A b \in Account : acc'[b].balance = acc[b].balance
  <2>1. CASE CreateAccount(a)
    <3> DEFINE e == AccountEvent("AccountCreated", a, 1, Nobody, "none", 0)
    <3>1. e.agg = a /\ e.kind = "AccountCreated" /\ e.money = 0
      BY DEF AccountEvent
    <3>2. acc' = [acc EXCEPT ![e.agg] = HandleAccountEvent(acc[e.agg], e)]
      BY <2>1 DEF CreateAccount, StoreAccountEvent
    <3> HIDE DEF e
    <3>3. acc[a].balance = 0
      BY <2>1 DEF CreateAccount, LegInv, UnbornAccounts, NewAccount
    <3> QED BY <3>1, <3>2, <3>3, <1>1 DEF HandleAccountEvent
  <2>2. CASE Freeze(a)
    <3> DEFINE e == AccountEvent("AccountFrozen", a, acc[a].version + 1, Nobody, "none", 0)
    <3>1. e.agg = a /\ e.kind = "AccountFrozen"
      BY DEF AccountEvent
    <3>2. acc' = [acc EXCEPT ![e.agg] = HandleAccountEvent(acc[e.agg], e)]
      BY <2>2 DEF Freeze, StoreAccountEvent
    <3> HIDE DEF e
    <3> QED BY <3>1, <3>2, <1>1 DEF HandleAccountEvent
  <2> QED BY <2>1, <2>2
<1>3. \A u \in Tx : Untouched(u)
  BY AccountCommandLegs DEF SameLegs, Untouched
<1> QED BY <1>2, <1>3, StandsConserves

\* The invariant is inductive.
LEMMA NextConserves ==
  ASSUME IsFiniteSet(Account), IsFiniteSet(Tx), IInv, LegInv, ConservationInv, [Next]_vars
  PROVE  ConservationInv'
<1>1. IInv'
  BY NextIInv
<1>2. CASE UNCHANGED storeVars
  <2>1. /\ acc' = acc /\ tx' = tx
        /\ \A u : SameLegs(u)
    BY <1>2, SameLog DEF storeVars
  <2>2. \A u \in Tx : Untouched(u)
    BY <2>1 DEF SameLegs, Untouched
  <2> QED BY <2>1, <2>2, StandsConserves
<1>3. CASE Command
  BY <1>3, AccountCommandConserves, CreateTransactionConserves DEF Command
<1>4. ASSUME NEW w \in Worker, StoreStep(w)
      PROVE  ConservationInv'
  BY <1>4, <1>1, SaveAccountConserves, OutcomeConserves, RefundConserves DEF StoreStep
<1>5. ASSUME NEW w \in Worker, Work(w) \/ Fault(w)
      PROVE  ConservationInv'
  BY <1>2, <1>4, <1>5, OtherSteps
<1>6. CASE UNCHANGED vars
  BY <1>2, <1>6 DEF vars
<1> QED BY <1>3, <1>5, <1>6 DEF Next

\* Nothing was added and the accounts hold nothing.
LEMMA InitConserves ==
  ASSUME IsFiniteSet(Account), IsFiniteSet(Tx), Init
  PROVE  ConservationInv
<1>1. DOMAIN log = {}
  BY EmptySeq DEF Init, StoreInit
<1>2. \A t, l : ~AppliedLeg(t, l)
  BY <1>1 DEF AppliedLeg
<1>3. \A a \in Account : Balances[a] = 0
  BY DEF Init, StoreInit, NewAccount, Balances
<1>4. \A t \in Tx : Flows[t] = 0
  BY <1>2 DEF Flows, Flow, Signed
<1>5. SumOf(Balances, Account) = 0 /\ SumOf(Flows, Tx) = 0
  <2>1. PICK g, h : g = Balances /\ h = Flows
    OBVIOUS
  <2>2. SumOf(g, {}) = 0 /\ SumOf(h, {}) = 0
    BY SumStep, FS_EmptySet
  <2>3. SumOf(g, Account) = SumOf(g, {}) /\ SumOf(h, Tx) = SumOf(h, {})
    BY <2>1, <1>3, <1>4, SumZeros DEF IntsOn
  <2> QED BY <2>1, <2>2, <2>3
<1>6. 0 = 0 + 0 * Width
  BY DomainAssumption DEF Width
<1> QED BY <1>2, <1>5, <1>6 DEF ConservationInv, Balanced, DepositsHaveAccounts

-------------------------------------------------------------------------------
(***************************************************************************)
(* The theorem.                                                            *)
(***************************************************************************)
\* At rest a transaction has added what it should have.
LEMMA FlowAtRest ==
  ASSUME StoreTypeOK, LegInv, ConservationInv, FailedCreditsNobody,
         NEW t \in Tx, ~InFlight(t)
  PROVE  Flow(t) = IF Placed(t) THEN DueFlow(t) ELSE 0
<1>1. "withdraw" \in Leg /\ "deposit" \in Leg /\ "rollback" \in Leg
  BY DEF Leg
<1>2. /\ TransactionOK(t) /\ tx[t].money \in Int
      /\ AppliedLeg(t, "deposit") => tx[t].to # Nobody
      /\ AppliedLeg(t, "withdraw") => tx[t].from # Nobody
      /\ RefundAsked(t) => AppliedLeg(t, "rollback")
  BY <1>1, MoneyTypes DEF LegInv, TransactionOK, Keyed, ConservationInv,
                          DepositsHaveAccounts, InFlight
<1>3. CASE tx[t].status = "NONE"
  <2>1. \A l \in Leg : ~AppliedLeg(t, l)
    BY <1>2, <1>3 DEF TransactionOK, Keyed
  <2> QED BY <1>1, <1>3, <2>1 DEF Flow, Signed, Placed
<1>4. CASE tx[t].status = "FAILED"
  <2>1. /\ ~AppliedLeg(t, "deposit")
        /\ AppliedLeg(t, "withdraw") <=> AppliedLeg(t, "rollback")
    BY <1>1, <1>2, <1>4 DEF FailedCreditsNobody, TransactionOK, Keyed
  <2> QED BY <1>2, <1>4, <2>1 DEF Flow, Signed, Placed, DueFlow
<1>5. CASE tx[t].status = "SUCCEEDED"
  <2>1. /\ AppliedLeg(t, "deposit") <=> tx[t].to # Nobody
        /\ AppliedLeg(t, "withdraw") <=> tx[t].from # Nobody
        /\ ~AppliedLeg(t, "rollback")
    BY <1>1, <1>2, <1>5 DEF TransactionOK
  <2> QED BY <1>2, <1>5, <2>1 DEF Flow, Signed, Placed, DueFlow, IsTransfer
<1>6. tx[t].status \in {"NONE", "FAILED", "SUCCEEDED"}
  <2>1. tx[t] \in TransactionState
    BY DEF StoreTypeOK
  <2> QED BY <2>1 DEF TransactionState, InFlight
<1> QED BY <1>3, <1>4, <1>5, <1>6

\* So at rest the flows are the dues.
LEMMA FlowsAtRest ==
  ASSUME IsFiniteSet(Tx), StoreTypeOK, LegInv, ConservationInv, FailedCreditsNobody,
         \A t \in Tx : ~InFlight(t), NEW S, S = {t \in Tx : Placed(t)}
  PROVE  SumOf(Flows, Tx) = SumOf(Dues, S)
<1>1. PICK g, h : g = Flows /\ h = Dues
  OBVIOUS
<1>2. S \in SUBSET Tx /\ IsFiniteSet(S)
  <2>1. S \in SUBSET Tx
    OBVIOUS
  <2> QED BY <2>1, FS_Subset
<1>3. IntsOn(g, Tx) /\ (\A t \in Tx \ S : g[t] = 0) /\ Equal(g, h, S)
  <2>1. \A t \in Tx : g[t] = Flow(t) /\ h[t] = DueFlow(t)
    BY <1>1 DEF Flows, Dues
  <2>2. \A t \in Tx : Flow(t) = IF Placed(t) THEN DueFlow(t) ELSE 0
    BY FlowAtRest
  <2> QED BY <2>1, <2>2, MoneyTypes DEF IntsOn, Equal
<1>4. SumOf(g, Tx) = SumOf(g, S)
  BY <1>2, <1>3, SumZeros
<1>5. SumOf(g, S) = SumOf(h, S)
  BY <1>2, <1>3, SumSame
<1> QED BY <1>1, <1>4, <1>5

\* Numbers that differ by whole widths are equal up to overflow.
LEMMA Congruent ==
  ASSUME NEW a \in Int, NEW b \in Int, NEW n \in Nat \ {0}, NEW k \in Int, a = b + k * n
  PROVE  a % n = b % n
<1> DEFINE q == b \div n
           r == b % n
<1>1. q \in Int /\ r \in Int /\ 0 <= r /\ r < n /\ b = n * q + r
  OBVIOUS
<1> HIDE DEF q, r
<1>2. a = n * (q + k) + r /\ q + k \in Int
  BY <1>1
<1>3. a % n = r
  BY <1>1, <1>2
<1> QED BY <1>3 DEF r

\* The invariant says of a store at rest that money was conserved.
LEMMA ConservedAtRest ==
  ASSUME IsFiniteSet(Account), IsFiniteSet(Tx), StoreTypeOK, LegInv, ConservationInv
  PROVE  MoneyConserved
<1> SUFFICES ASSUME \A t \in Tx : ~InFlight(t), FailedCreditsNobody
             PROVE  MapThenSumSet(LAMBDA a : acc[a].balance, Account) % Width
                      = MapThenSumSet(DueFlow, {t \in Tx : Placed(t)}) % Width
  BY DEF MoneyConserved
<1>1. PICK S : S = {t \in Tx : Placed(t)}
  OBVIOUS
<1>2. S \in SUBSET Tx /\ IsFiniteSet(S)
  <2>1. S \in SUBSET Tx
    BY <1>1
  <2> QED BY <2>1, FS_Subset
<1>3. MapThenSumSet(LAMBDA a : acc[a].balance, Account) = SumOf(Balances, Account)
  BY SumOfBalances
<1>4. MapThenSumSet(DueFlow, S) = SumOf(Dues, S)
  BY <1>2, SumOfDues
<1>5. SumOf(Flows, Tx) = SumOf(Dues, S)
  BY <1>1, FlowsAtRest
<1>6. PICK k \in Int : SumOf(Balances, Account) = SumOf(Flows, Tx) + k * Width
  BY DEF ConservationInv, Balanced
<1>7. SumOf(Balances, Account) \in Int /\ SumOf(Flows, Tx) \in Int
  <2>1. PICK g, h : g = Balances /\ h = Flows
    OBVIOUS
  <2>2. IntsOn(g, Account) /\ IntsOn(h, Tx)
    BY <2>1, MoneyTypes DEF IntsOn, Balances, Flows
  <2> QED BY <2>1, <2>2, SumType
<1>8. Width \in Nat \ {0}
  BY DomainAssumption DEF Width
<1>9. SumOf(Balances, Account) % Width = SumOf(Flows, Tx) % Width
  <2>1. PICK m, n, wide : m = SumOf(Balances, Account) /\ n = SumOf(Flows, Tx) /\ wide = Width
    OBVIOUS
  <2>2. m \in Int /\ n \in Int /\ wide \in Nat \ {0} /\ m = n + k * wide
    BY <1>6, <1>7, <1>8, <2>1
  <2>3. m % wide = n % wide
    BY <2>2, Congruent
  <2> QED BY <2>1, <2>3
<1> QED BY <1>1, <1>3, <1>4, <1>5, <1>9

\* At every moment, also in the middle of transactions and whatever was credited for a
\* failed one, the accounts hold together up to overflow what the legs applied so far
\* brought in less what they took out.
THEOREM BooksBalance ==
  ASSUME IsFiniteSet(Account), IsFiniteSet(Tx)
  PROVE  Spec => [](IInv /\ LegInv /\ ConservationInv)
<1>1. Init => IInv /\ LegInv /\ ConservationInv
  BY InitIInv, InitLegInv, InitConserves
<1>2. (IInv /\ LegInv /\ ConservationInv) /\ [Next]_vars
        => (IInv /\ LegInv /\ ConservationInv)'
  BY NextIInv, NextLegInv, NextConserves
<1> QED BY <1>1, <1>2, PTL DEF Spec

\* No interleaving, crash or redelivery creates or destroys money: when nothing is in
\* flight, the accounts hold up to overflow what deposits brought in less what
\* withdrawals took out.
THEOREM MoneyIsConserved ==
  ASSUME IsFiniteSet(Account), IsFiniteSet(Tx)
  PROVE  Spec => []MoneyConserved
<1>1. IInv /\ LegInv /\ ConservationInv => MoneyConserved
  BY ConservedAtRest DEF IInv, StoreInv
<1> QED BY <1>1, BooksBalance, PTL

-------------------------------------------------------------------------------
(***************************************************************************)
(* When the premise of conservation holds by itself.  A failed transaction *)
(* credits its destination only when its event is handled again after it   *)
(* failed.  A worker that is alone goes on to the next event once the      *)
(* refusal of a withdrawal is stored, unless it is restarted, is delivered *)
(* the event again, or never hears that the refusal was stored.            *)
(***************************************************************************)
\* The ways to meet again an event whose withdrawal has been refused.
Disturbs(w) ==
  \/ Restart(w)
  \/ \E n \in DOMAIN log : Redeliver(w, n)
  \/ AnswerLost(w) /\ pc[w] = "txSave" /\ side[w] = "withdraw"

Undisturbed == [][\A w \in Worker : ~Disturbs(w)]_vars

IsCreation(t, i) == IsEventOf(t, "TransactionCreated", i)

\* A transaction is created by one event.
CreatedOnce == \A t \in Tx : \A i, j : IsCreation(t, i) /\ IsCreation(t, j) => i = j

\* A busy worker handles the event after its cursor, and takes no leg but for a creation.
Onward(w) ==
  /\ pc[w] # "idle" => at[w] = cursor[w] + 1
  /\ pc[w] \notin {"idle", "rollback"} => log[at[w]].kind = "TransactionCreated"

\* The creation of a transaction whose withdrawal was refused lies behind the cursor.
Behind(w) ==
  \A t \in Tx : \A i : RefusedLeg(t, "withdraw") /\ IsCreation(t, i) => i <= cursor[w]

DepositsComeSecond ==
  \A t \in Tx : AppliedLeg(t, "deposit") => LegPassed(t, "withdraw")

OnwardInv ==
  /\ CreatedOnce
  /\ \A w \in Worker : Onward(w) /\ Behind(w)
  /\ DepositsComeSecond
  /\ FailedCreditsNobody

\* Only the command that places a transaction stores its creation.
LEMMA CreationStep ==
  ASSUME IInv, LegInv, [Next]_vars, NEW i \in DOMAIN log' \ DOMAIN log,
         log'[i].kind = "TransactionCreated"
  PROVE  /\ i = Len(log) + 1 /\ cursor' = cursor
         /\ \E t \in Tx : log'[i].tx = t /\ tx[t].version = 0 /\ ~RefusedLeg(t, "withdraw")'
<1>1. ASSUME NEW e, log' = Append(log, e)
      PROVE  log'[i] = e /\ i = Len(log) + 1
  BY <1>1, AppendProperties, LenProperties DEF IInv, StoreInv, StoreTypeOK
<1>2. ASSUME UNCHANGED log
      PROVE  FALSE
  BY <1>2
<1>3. ASSUME NEW a \in Account, CreateAccount(a) \/ Freeze(a)
      PROVE  FALSE
  BY <1>1, <1>3 DEF CreateAccount, Freeze, StoreAccountEvent, AccountEvent
<1>4. ASSUME NEW w \in Worker, Work(w) \/ Fault(w)
      PROVE  FALSE
  <2>1. CASE UNCHANGED storeVars
    BY <2>1, <1>2 DEF storeVars
  <2>2. CASE SaveAccount(w)
    BY <2>2, <1>1 DEF SaveAccount, StoreAccountEvent, MoneyEvent, AccountEvent
  <2>3. CASE StoreRefusal(w)
    BY <2>3, <1>1 DEF StoreRefusal, FailureEvent, StoreTransactionEvent, TransactionEvent
  <2>4. CASE Settle(w)
    BY <2>4, <1>1, <1>2 DEF Settle, StoreTransactionEvent, TransactionEvent, storeVars
  <2>5. CASE Refund(w)
    BY <2>5, <1>1, <1>2 DEF Refund, RefundEvent, StoreAccountEvent, AccountEvent, storeVars
  <2> QED BY <1>4, <2>1, <2>2, <2>3, <2>4, <2>5, OtherSteps DEF StoreStep
<1>5. ASSUME NEW t \in Tx, NEW from \in Party, NEW to \in Party, NEW money \in Amount,
             CreateTransaction(t, from, to, money)
      PROVE  /\ i = Len(log) + 1 /\ cursor' = cursor
             /\ log'[i].tx = t /\ tx[t].version = 0 /\ ~RefusedLeg(t, "withdraw")'
  <2>1. i = Len(log) + 1 /\ log'[i].tx = t /\ tx[t].version = 0 /\ cursor' = cursor
    BY <1>1, <1>5 DEF CreateTransaction, StoreTransactionEvent, TransactionCreated, workerVars
  <2>2. SameLegs(t) /\ "withdraw" \in Leg
    BY <1>5, CreateTransactionLegs DEF Leg
  <2>3. ~RefusedLeg(t, "withdraw")
    BY <2>1, <2>2 DEF LegInv, TransactionOK, Keyed
  <2> QED BY <2>1, <2>2, <2>3 DEF SameLegs
<1>6. ~UNCHANGED vars
  BY <1>2 DEF vars, storeVars
<1> QED BY <1>3, <1>4, <1>5, <1>6 DEF Next, Command

\* A creation in the log after a step was there before, or is the new event of a
\* transaction of which there was none.
LEMMA Creations ==
  ASSUME IInv, LegInv, [Next]_vars, NEW t \in Tx, NEW i, IsCreation(t, i)'
  PROVE  \/ IsCreation(t, i)
         \/ /\ i = Len(log) + 1 /\ cursor' = cursor /\ ~RefusedLeg(t, "withdraw")'
            /\ \A j : ~IsCreation(t, j)
<1>1. i \in DOMAIN log' /\ log'[i].kind = "TransactionCreated" /\ log'[i].tx = t
  BY DEF IsCreation, IsEventOf
<1>2. CASE i \in DOMAIN log
  <2>1. log'[i] = log[i]
    BY <1>2, NextIInv DEF Grows
  <2> QED BY <1>1, <1>2, <2>1 DEF IsCreation, IsEventOf
<1>3. CASE i \notin DOMAIN log
  <2>1. /\ i = Len(log) + 1 /\ cursor' = cursor /\ ~RefusedLeg(t, "withdraw")'
        /\ tx[t].version = 0
    BY <1>1, <1>3, CreationStep
  <2>2. ASSUME NEW j, IsCreation(t, j) PROVE FALSE
    <3>1. j \in DOMAIN log /\ Handled(log[j]) /\ log[j].tx = t
      BY <2>2 DEF IsCreation, IsEventOf, Handled
    <3>2. tx[t].version > 0
      BY <3>1, HandledEvent DEF IInv
    <3> QED BY <2>1, <3>2
  <2> QED BY <2>1, <2>2
<1> QED BY <1>2, <1>3

\* A transaction is created once because its first version is taken.
LEMMA NextCreatedOnce ==
  ASSUME IInv, LegInv, CreatedOnce, [Next]_vars
  PROVE  CreatedOnce'
<1> SUFFICES ASSUME NEW t \in Tx, NEW i, NEW j, IsCreation(t, i)', IsCreation(t, j)'
             PROVE  i = j
  BY DEF CreatedOnce
<1> QED BY Creations DEF CreatedOnce

\* What a step may do to the withdrawal and the deposit of a transaction, and when it fails.
LEMMA LegChanges ==
  ASSUME IInv, [Next]_vars, NEW t \in Tx
  PROVE  \/ /\ \A l \in {"withdraw", "deposit"} :
                 /\ AppliedLeg(t, l)' <=> AppliedLeg(t, l)
                 /\ RefusedLeg(t, l)' <=> RefusedLeg(t, l)
            /\ tx'[t].status = "FAILED" => tx[t].status = "FAILED"
         \/ \E w \in Worker : SaveAccount(w) /\ LegApplied(t, side[w]) /\ t = Current(w)
         \/ \E w \in Worker : StoreRefusal(w) /\ LegRefused(t, side[w]) /\ t = Current(w)
<1> USE DEF Leg
<1>0. tx \in [Tx -> TransactionState]
  BY DEF IInv, StoreInv, StoreTypeOK
<1> DEFINE Same == /\ \A l \in {"withdraw", "deposit"} :
                        /\ AppliedLeg(t, l)' <=> AppliedLeg(t, l)
                        /\ RefusedLeg(t, l)' <=> RefusedLeg(t, l)
                   /\ tx'[t].status = "FAILED" => tx[t].status = "FAILED"
<1>1. CASE UNCHANGED storeVars
  <2>1. tx'[t] = tx[t] /\ SameLegs(t)
    BY <1>1, SameLog DEF storeVars
  <2>2. Same
    BY <2>1 DEF SameLegs
  <2> QED BY <2>2
<1>2. ASSUME NEW a \in Account, CreateAccount(a) \/ Freeze(a)
      PROVE  Same
  BY <1>2, AccountCommandLegs DEF SameLegs
<1>3. ASSUME NEW u \in Tx, NEW from \in Party, NEW to \in Party, NEW money \in Amount,
             CreateTransaction(u, from, to, money)
      PROVE  Same
  <2>1. /\ tx' = [tx EXCEPT ![u] = [version |-> 1, status |-> "PENDING",
                                    from |-> from, to |-> to, money |-> money]]
        /\ SameLegs(t)
    BY <1>3, CreateTransactionLegs
  <2> QED BY <1>0, <2>1 DEF SameLegs
<1>4. ASSUME NEW w \in Worker, SaveAccount(w), t # Current(w)
      PROVE  Same
  <2>1. LegApplied(Current(w), side[w])
    BY <1>4, SaveAccountLegs
  <2> QED BY <1>4, <2>1 DEF LegApplied, SameLegs
<1>5. ASSUME NEW w \in Worker, StoreRefusal(w), t # Current(w)
      PROVE  Same
  <2>1. LegRefused(Current(w), side[w])
    BY <1>5, StoreRefusalLegs
  <2> QED BY <1>5, <2>1 DEF LegRefused, SameLegs
<1>6. ASSUME NEW w \in Worker, Settle(w), IsPending(tx[Current(w)])
      PROVE  Same
  <2>1. PICK u : u = Current(w)
    OBVIOUS
  <2>2. /\ tx' = [tx EXCEPT ![u] = [tx[u] EXCEPT !.version = tx[u].version + 1,
                                                 !.status = "SUCCEEDED"]]
        /\ SameLegs(t)
    BY <1>6, <2>1, SettleLegs
  <2>3. tx'[t].status = "FAILED" => tx[t].status = "FAILED"
    BY <1>0, <2>2 DEF TransactionState
  <2> QED BY <2>2, <2>3 DEF SameLegs
<1>7. ASSUME NEW w \in Worker, Refund(w), ~HasIdempotencyKey(Current(w), "rollback")
      PROVE  Same
  <2>1. PICK u : u = Current(w)
    OBVIOUS
  <2>2. LegApplied(u, "rollback")
    BY <1>7, <2>1, RefundLegs
  <2>3. CASE u = t
    BY <2>2, <2>3 DEF LegApplied
  <2>4. CASE u # t
    BY <2>2, <2>4 DEF LegApplied, SameLegs
  <2> QED BY <2>3, <2>4
<1>8. CASE UNCHANGED vars
  BY <1>1, <1>8 DEF vars
<1> HIDE DEF Same
<1>9. ASSUME NEW w \in Worker, Work(w) \/ Fault(w)
      PROVE  \/ Same \/ UNCHANGED storeVars
             \/ SaveAccount(w) /\ LegApplied(t, side[w]) /\ t = Current(w)
             \/ StoreRefusal(w) /\ LegRefused(t, side[w]) /\ t = Current(w)
  BY <1>4, <1>5, <1>6, <1>7, <1>9, OtherSteps, SaveAccountLegs, StoreRefusalLegs DEF StoreStep
<1> QED BY <1>1, <1>2, <1>3, <1>8, <1>9 DEF Next, Command, Same

\* A worker that is not disturbed only goes on.
LEMMA GoesOn ==
  ASSUME IInv, Grows, NEW w \in Worker, Onward(w), Work(w) \/ Fault(w), ~Disturbs(w)
  PROVE  Onward(w)' /\ cursor'[w] >= cursor[w]
<1>1. /\ cursor \in [Worker -> Nat] /\ cursor[w] \in Nat /\ at[w] \in Nat
      /\ at \in [Worker -> Nat] /\ pc \in [Worker -> PC]
  BY DEF IInv, TypeOK
<1>2. CASE Skip(w)
  BY <1>1, <1>2 DEF Skip, Onward
<1>3. CASE Deliver(w)
  <2>1. /\ at'[w] = cursor[w] + 1 /\ cursor' = cursor /\ log' = log
        /\ pc'[w] = IF log[at'[w]].kind = "TransactionCreated" THEN "accHas" ELSE "rollback"
    BY <1>1, <1>3 DEF Deliver, Begin, storeVars
  <2> QED BY <1>1, <2>1 DEF Onward
<1>4. CASE GoIdle(w) /\ (Advance(w) \/ UNCHANGED cursor)
  <2>1. pc'[w] = "idle" /\ cursor'[w] >= cursor[w]
    BY <1>1, <1>4 DEF GoIdle, Advance
  <2> QED BY <2>1 DEF Onward
<1>5. CASE /\ pc[w] \notin {"idle", "rollback"} /\ pc'[w] \notin {"idle", "rollback"}
           /\ at' = at /\ cursor' = cursor
  <2>1. at[w] \in DOMAIN log
    BY <1>5, Busy
  <2>2. log'[at[w]] = log[at[w]]
    BY <2>1 DEF Grows
  <2> QED BY <1>1, <1>5, <2>2 DEF Onward
<1>6. CASE LegDone(w) \/ LegOpen(w) \/ RetrieveAccount(w) \/ SaveAccount(w)
           \/ FailureOpen(w) \/ RetrieveTransaction(w)
  <2>1. /\ pc[w] \notin {"idle", "rollback"} /\ pc'[w] \notin {"idle", "rollback"}
        /\ at' = at /\ cursor' = cursor
    BY <1>1, <1>6 DEF LegDone, LegOpen, RetrieveAccount, SaveAccount, FailureOpen,
                      RetrieveTransaction, NextLeg, GoTo
  <2> QED BY <1>5, <2>1
<1>7. CASE \/ UnknownAccount(w) \/ AccountConflict(w) \/ FailureRecorded(w)
           \/ AlreadySettled(w) \/ SaveFailure(w) \/ FailureConflict(w)
           \/ Complete(w) \/ Rollback(w) \/ RollbackRefused(w)
           \/ TransientError(w) \/ AnswerLost(w)
  <2>1. GoIdle(w) /\ (Advance(w) \/ UNCHANGED cursor)
    BY <1>7 DEF UnknownAccount, AccountConflict, FailureRecorded, AlreadySettled,
       SaveFailure, FailureConflict, Complete, Rollback, RollbackRefused,
       TransientError, AnswerLost, Return, ReturnError
  <2> QED BY <1>4, <2>1
<1> QED BY <1>2, <1>3, <1>6, <1>7
        DEF Work, Fault, AccountStep, FailureStep, Disturbs

\* With one worker, a step is the worker's or leaves it alone.
LEMMA NextOnward ==
  ASSUME \A u, v \in Worker : u = v, IInv, Grows, [Next]_vars,
         NEW w \in Worker, Onward(w), ~Disturbs(w)
  PROVE  Onward(w)' /\ cursor'[w] >= cursor[w]
<1>1. CASE Command \/ UNCHANGED vars
  <2>1. pc' = pc /\ at' = at /\ cursor' = cursor /\ cursor[w] \in Nat
    BY <1>1 DEF Command, CreateAccount, Freeze, CreateTransaction, vars, workerVars,
                IInv, TypeOK
  <2>2. pc[w] # "idle" => log'[at[w]] = log[at[w]]
    BY Busy DEF Grows
  <2> QED BY <2>1, <2>2 DEF Onward
<1>2. ASSUME NEW u \in Worker, Work(u) \/ Fault(u)
      PROVE  Onward(w)' /\ cursor'[w] >= cursor[w]
  <2>1. u = w
    OBVIOUS
  <2> QED BY <1>2, <2>1, GoesOn
<1> QED BY <1>1, <1>2 DEF Next

\* The worker that refuses a leg has the creation of its transaction at hand.
LEMMA AtCreation ==
  ASSUME IInv, NEW w \in Worker, Onward(w), StoreRefusal(w) \/ SaveAccount(w),
         NEW t, t = Current(w)
  PROVE  IsCreation(t, at[w]) /\ at[w] = cursor[w] + 1
<1>1. pc[w] \notin {"idle", "rollback"}
  BY DEF StoreRefusal, SaveAccount
<1>2. at[w] \in DOMAIN log
  BY <1>1, Busy
<1> QED BY <1>1, <1>2 DEF Onward, IsCreation, IsEventOf, Current

\* A worker that is not disturbed hears that the refusal of a withdrawal was stored.
LEMMA RefusalAnswered ==
  ASSUME \A u, v \in Worker : u = v, IInv, [Next]_vars, NEW w \in Worker,
         StoreRefusal(w), side[w] = "withdraw", ~Disturbs(w) \/ UNCHANGED vars
  PROVE  SaveFailure(w)
<1>1. PICK e : e = FailureEvent(w)
  OBVIOUS
<1>2. log' = Append(log, e) /\ e.kind = "TransactionFailed" /\ pc[w] = "txSave"
  BY <1>1 DEF StoreRefusal, StoreTransactionEvent, FailureEvent, TransactionEvent
<1>3. ASSUME NEW f, log' = Append(log, f)
      PROVE  f = e
  <2>1. ASSUME NEW g, log' = Append(log, g)
        PROVE  log'[Len(log) + 1] = g
    BY <2>1, AppendProperties, LenProperties DEF IInv, StoreInv, StoreTypeOK
  <2> QED BY <1>2, <1>3, <2>1
<1>4. log' # log
  BY <1>2, AppendProperties, LenProperties DEF IInv, StoreInv, StoreTypeOK
<1>5. ~UNCHANGED storeVars /\ ~UNCHANGED vars
  BY <1>4 DEF storeVars, vars
<1>6. ~Command
  <2>1. ASSUME NEW a \in Account, CreateAccount(a) \/ Freeze(a)
        PROVE  FALSE
    BY <2>1, <1>2, <1>3 DEF CreateAccount, Freeze, StoreAccountEvent, AccountEvent
  <2>2. ASSUME NEW t \in Tx, NEW from \in Party, NEW to \in Party, NEW money \in Amount,
               CreateTransaction(t, from, to, money)
        PROVE  FALSE
    BY <2>2, <1>2, <1>3 DEF CreateTransaction, StoreTransactionEvent, TransactionCreated
  <2> QED BY <2>1, <2>2 DEF Command
<1>7. Work(w) \/ Fault(w)
  BY <1>5, <1>6 DEF Next
<1>8. CASE Work(w)
  BY <1>2, <1>5, <1>8
     DEF Work, Skip, Deliver, AccountStep, LegDone, LegOpen, RetrieveAccount, UnknownAccount,
         SaveAccount, AccountConflict, FailureStep, FailureRecorded, FailureOpen,
         RetrieveTransaction, AlreadySettled, FailureConflict, Complete, Rollback, Settle,
         Refund, RollbackRefused
<1>9. CASE Fault(w)
  <2>1. ~TransientError(w)
    BY <1>5 DEF TransientError
  <2>2. Restart(w) \/ AnswerLost(w) \/ \E n \in DOMAIN log : Redeliver(w, n)
    BY <1>9, <2>1 DEF Fault
  <2>3. Disturbs(w)
    BY <1>2, <2>2 DEF Disturbs
  <2> QED BY <1>5, <2>3
<1> QED BY <1>7, <1>8, <1>9

\* The creation is left behind as its transaction fails.
LEMMA NextBehind ==
  ASSUME \A u, v \in Worker : u = v, IInv, LegInv, OnwardInv, [Next]_vars,
         NEW w \in Worker, cursor'[w] >= cursor[w], ~Disturbs(w) \/ UNCHANGED vars
  PROVE  Behind(w)'
<1> SUFFICES ASSUME NEW t \in Tx, NEW i, RefusedLeg(t, "withdraw")', IsCreation(t, i)'
             PROVE  i <= cursor'[w]
  BY DEF Behind
<1>1. /\ cursor[w] \in Nat /\ cursor'[w] \in Nat /\ at[w] \in Nat
  BY NextIInv DEF IInv, TypeOK
<1>2. IsCreation(t, i) /\ i \in Nat
  <2>1. IsCreation(t, i)
    BY Creations
  <2> QED BY <2>1 DEF IsCreation, IsEventOf, IInv, StoreInv, StoreTypeOK
<1>3. CASE RefusedLeg(t, "withdraw")
  <2>1. i <= cursor[w]
    BY <1>2, <1>3 DEF OnwardInv, Behind
  <2> QED BY <1>1, <1>2, <2>1
<1>4. CASE ~RefusedLeg(t, "withdraw")
  <2>1. ~\E u \in Worker : LegApplied(t, side[u])
    BY <1>4 DEF LegApplied, Leg
  <2>2. PICK u \in Worker : StoreRefusal(u) /\ LegRefused(t, side[u]) /\ t = Current(u)
    BY <1>4, <2>1, LegChanges
  <2>3. u = w
    OBVIOUS
  <2>4. IsCreation(t, at[w]) /\ StoreRefusal(w)
    BY <2>2, <2>3, AtCreation DEF OnwardInv
  <2>5. i = at[w]
    BY <1>2, <2>4 DEF OnwardInv, CreatedOnce
  <2>6. side[w] = "withdraw"
    BY <1>4, <2>2, <2>3 DEF LegRefused, Leg
  <2>7. SaveFailure(w)
    BY <2>4, <2>6, RefusalAnswered
  <2>8. cursor'[w] >= at[w]
    BY <1>1, <2>7 DEF SaveFailure, Return, Advance, IInv, TypeOK
  <2> QED BY <1>1, <2>5, <2>8
<1> QED BY <1>3, <1>4

\* The deposit is made after the withdrawal has been decided on.
LEMMA NextDepositsSecond ==
  ASSUME IInv, LegInv, DepositsComeSecond, [Next]_vars
  PROVE  DepositsComeSecond'
<1> SUFFICES ASSUME NEW t \in Tx, AppliedLeg(t, "deposit")'
             PROVE  LegPassed(t, "withdraw")'
  BY DEF DepositsComeSecond
<1>1. Grows
  BY NextIInv
<1>2. LegPassed(t, "withdraw") /\ tx[t].version > 0
  <2>1. CASE AppliedLeg(t, "deposit")
    <3>1. tx[t].version # 0 /\ tx[t].version \in Nat
      BY <2>1 DEF LegInv, TransactionOK, Keyed, Leg, IInv, StoreInv, StoreTypeOK,
                  TransactionState
    <3> QED BY <2>1, <3>1 DEF DepositsComeSecond
  <2>2. CASE ~AppliedLeg(t, "deposit")
    <3>1. ~\E w \in Worker : LegRefused(t, side[w])
      BY <2>2 DEF LegRefused, Leg
    <3>2. PICK w \in Worker : SaveAccount(w) /\ LegApplied(t, side[w]) /\ t = Current(w)
      BY <2>2, <3>1, LegChanges
    <3>3. side[w] = "deposit" /\ ~Keyed(t, side[w])
      BY <2>2, <3>2 DEF LegApplied, Leg
    <3> QED BY <3>2, <3>3, LegDue DEF LegPassed
  <2> QED BY <2>1, <2>2
<1> QED BY <1>1, <1>2, KeysStay DEF LegPassed, Grows

\* Neither does a transaction fail that has credited its destination, nor does one credit
\* it that has failed.
LEMMA NextCreditsNobody ==
  ASSUME IInv, LegInv, OnwardInv, [Next]_vars
  PROVE  FailedCreditsNobody'
<1> SUFFICES ASSUME NEW t \in Tx, tx'[t].status = "FAILED", AppliedLeg(t, "deposit")'
             PROVE  FALSE
  BY DEF FailedCreditsNobody
<1>1. ~(tx[t].status = "FAILED" /\ AppliedLeg(t, "deposit")) /\ TransactionOK(t)
  BY DEF OnwardInv, FailedCreditsNobody, LegInv
<1>2. ASSUME NEW w \in Worker, StoreRefusal(w), LegRefused(t, side[w]), t = Current(w)
      PROVE  FALSE
  <2>1. AppliedLeg(t, "deposit") /\ ~Keyed(t, side[w])
    BY <1>2 DEF LegRefused, Leg
  <2>2. side[w] = "withdraw" /\ tx[t].from # Nobody
    BY <1>2, <2>1, LegDue, DomainAssumption DEF Keyed
  <2>3. LegPassed(t, "withdraw")
    BY <2>1 DEF OnwardInv, DepositsComeSecond
  <2> QED BY <2>1, <2>2, <2>3 DEF LegPassed
<1>3. ASSUME NEW w \in Worker, SaveAccount(w), LegApplied(t, side[w]), t = Current(w)
      PROVE  FALSE
  <2>1. tx[t].status = "FAILED"
    BY <1>3 DEF LegApplied
  <2>2. side[w] = "deposit" /\ ~Keyed(t, "deposit")
    BY <1>1, <1>3, <2>1 DEF LegApplied, Leg
  <2>3. RefusedLeg(t, "withdraw")
    BY <1>1, <2>1, <2>2 DEF TransactionOK, Keyed
  <2>4. IsCreation(t, at[w]) /\ at[w] = cursor[w] + 1
    BY <1>3, AtCreation DEF OnwardInv
  <2>5. at[w] <= cursor[w] /\ cursor[w] \in Nat
    BY <2>3, <2>4 DEF OnwardInv, Behind, IInv, TypeOK
  <2> QED BY <2>4, <2>5
<1> QED BY <1>1, <1>2, <1>3, LegChanges

\* A worker that is alone makes a failed transaction credit its destination only if it
\* is restarted, is delivered an event again, or loses the answer to the refusal of a
\* withdrawal it has stored.  Any other call that fails, with or without effect, does
\* no harm.
THEOREM UndisturbedCreditsNobody ==
  ASSUME \A u, v \in Worker : u = v
  PROVE  Spec /\ Undisturbed => []FailedCreditsNobody
<1> DEFINE Calm == \A w \in Worker : ~Disturbs(w)
<1>1. Init => IInv /\ LegInv /\ OnwardInv
  <2> SUFFICES ASSUME Init PROVE OnwardInv
    BY InitIInv, InitLegInv
  <2>1. DOMAIN log = {}
    BY EmptySeq DEF Init, StoreInit
  <2> QED BY <2>1 DEF Init, OnwardInv, CreatedOnce, Onward, Behind, DepositsComeSecond,
                      FailedCreditsNobody, IsCreation, IsEventOf, RefusedLeg, AppliedLeg
<1>2. (IInv /\ LegInv /\ OnwardInv) /\ [Next]_vars /\ [Calm]_vars
        => (IInv /\ LegInv /\ OnwardInv)'
  <2> SUFFICES ASSUME IInv, LegInv, OnwardInv, [Next]_vars, [Calm]_vars
               PROVE  (IInv /\ LegInv /\ OnwardInv)'
    OBVIOUS
  <2>1. IInv' /\ LegInv' /\ Grows
    BY NextIInv, NextLegInv
  <2>2. CASE UNCHANGED vars
    <3>1. ASSUME NEW w \in Worker PROVE Onward(w)' /\ cursor'[w] >= cursor[w]
      <4>1. /\ pc' = pc /\ at' = at /\ cursor' = cursor /\ log' = log /\ cursor[w] \in Nat
        BY <2>2 DEF vars, workerVars, storeVars, IInv, TypeOK
      <4> QED BY <4>1 DEF OnwardInv, Onward
    <3> QED BY <2>1, <2>2, <3>1, NextCreatedOnce, NextBehind, NextDepositsSecond,
               NextCreditsNobody DEF OnwardInv
  <2>3. CASE Calm
    <3>1. ASSUME NEW w \in Worker PROVE Onward(w)' /\ cursor'[w] >= cursor[w]
      BY <2>1, <2>3, NextOnward DEF OnwardInv
    <3> QED BY <2>1, <2>3, <3>1, NextCreatedOnce, NextBehind, NextDepositsSecond,
               NextCreditsNobody DEF OnwardInv
  <2> QED BY <2>2, <2>3
<1>3. OnwardInv => FailedCreditsNobody
  BY DEF OnwardInv
<1> QED BY <1>1, <1>2, <1>3, PTL DEF Spec, Undisturbed
===============================================================================
