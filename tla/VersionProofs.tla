----------------------------- MODULE VersionProofs -----------------------------
(***************************************************************************)
(* The versions of an aggregate are contiguous: the k-th event stored for  *)
(* it has version k, for any number of workers that race for a version.    *)
(* And what whoever reads the log may rely on: the first event of an       *)
(* account creates it, and each later one was stored while it was open.    *)
(***************************************************************************)
EXTENDS TransferProofs, FiniteSetTheorems

USE DomainAssumption, TransfersAssumption

\* The events of aggregate g among the first n of a log.
EventsOf(events, g, n) == {j \in 1..n : events[j].agg = g}

\* As many events are stored for an aggregate as its version says.
Counted ==
  \A g \in Account \cup Tx : Cardinality(EventsOf(log, g, Len(log))) = VersionOf(g)

VersionInv == VersionsContiguous /\ Counted

\* The first n events of a log are finitely many.
LEMMA EventsFinite ==
  ASSUME NEW events, NEW g, NEW n \in Nat
  PROVE  IsFiniteSet(EventsOf(events, g, n))
<1>1. IsFiniteSet(1..n)
  BY FS_Interval
<1>2. EventsOf(events, g, n) \in SUBSET (1..n)
  BY DEF EventsOf
<1> QED BY <1>1, <1>2, FS_Subset

\* With one more event of g, the events of g grow by one, those of others do not.
LEMMA EventsAppended ==
  ASSUME NEW events \in Seq(Event), NEW e \in Event, NEW g
  PROVE  /\ \A n \in 1..Len(events) :
              EventsOf(Append(events, e), g, n) = EventsOf(events, g, n)
         /\ Cardinality(EventsOf(Append(events, e), g, Len(events) + 1)) =
              Cardinality(EventsOf(events, g, Len(events))) + (IF e.agg = g THEN 1 ELSE 0)
<1> DEFINE longer == Append(events, e)
<1>1. /\ Len(events) \in Nat
      /\ \A i \in 1..Len(events) : longer[i] = events[i]
      /\ longer[Len(events) + 1] = e
  BY AppendProperties, LenProperties
<1> HIDE DEF longer
<1>2. \A n \in 1..Len(events) : EventsOf(longer, g, n) = EventsOf(events, g, n)
  BY <1>1 DEF EventsOf
<1>3. EventsOf(longer, g, Len(events) + 1) =
        IF e.agg = g THEN EventsOf(events, g, Len(events)) \cup {Len(events) + 1}
                     ELSE EventsOf(events, g, Len(events))
  BY <1>1 DEF EventsOf
<1>4. IsFiniteSet(EventsOf(events, g, Len(events)))
  BY <1>1, EventsFinite
<1>5. Len(events) + 1 \notin EventsOf(events, g, Len(events))
  BY <1>1 DEF EventsOf
<1>6. /\ Cardinality(EventsOf(events, g, Len(events))) \in Nat
      /\ Cardinality(EventsOf(events, g, Len(events)) \cup {Len(events) + 1}) =
           Cardinality(EventsOf(events, g, Len(events))) + 1
  BY <1>4, <1>5, FS_AddElement, FS_CardinalityType
<1>7. Cardinality(EventsOf(longer, g, Len(events) + 1)) =
        Cardinality(EventsOf(events, g, Len(events))) + (IF e.agg = g THEN 1 ELSE 0)
  BY <1>3, <1>6
<1> QED BY <1>2, <1>7 DEF longer

\* Nothing is stored at the start.
LEMMA InitVersionInv == Init => VersionInv
<1> SUFFICES ASSUME Init PROVE VersionInv
  OBVIOUS
<1>1. log = << >> /\ Len(log) = 0 /\ DOMAIN log = {}
  BY EmptySeq DEF Init, StoreInit
<1>2. \A g : EventsOf(log, g, Len(log)) = {}
  BY <1>1 DEF EventsOf
<1>3. \A g \in Account \cup Tx : VersionOf(g) = 0
  BY DEF Init, StoreInit, NewAccount, NewTransaction, VersionOf
<1>4. Counted
  BY <1>2, <1>3, FS_EmptySet DEF Counted
<1> QED BY <1>1, <1>4 DEF VersionInv, VersionsContiguous

\* A stored event is the next of its aggregate, in version and in number.
LEMMA NextVersionInv == IInv /\ VersionInv /\ [Next]_vars => VersionInv'
<1> SUFFICES ASSUME IInv, VersionInv, [Next]_vars PROVE VersionInv'
  OBVIOUS
<1>1. OneEvent /\ log \in Seq(Event) /\ Len(log) \in Nat
  BY NextIInv, LenProperties DEF Grows, IInv, StoreInv, StoreTypeOK
<1>2. CASE UNCHANGED log /\ \A g \in Account \cup Tx : VersionOf(g)' = VersionOf(g)
  <2>1. VersionsContiguous'
    BY <1>2 DEF VersionInv, VersionsContiguous
  <2>2. Counted'
    BY <1>2 DEF VersionInv, Counted
  <2> QED BY <2>1, <2>2 DEF VersionInv
<1>3. ASSUME NEW e \in Event, log' = Append(log, e), e.version = VersionOf(e.agg) + 1,
             \A g \in Account \cup Tx :
               VersionOf(g)' = IF g = e.agg THEN e.version ELSE VersionOf(g)
      PROVE  VersionInv'
  <2>1. /\ Len(log') = Len(log) + 1 /\ DOMAIN log' = 1..(Len(log) + 1)
        /\ DOMAIN log = 1..Len(log)
        /\ \A i \in 1..Len(log) : log'[i] = log[i]
        /\ log'[Len(log) + 1] = e
    BY <1>1, <1>3, AppendProperties, LenProperties
  <2>2. ASSUME NEW g
        PROVE  /\ \A n \in 1..Len(log) : EventsOf(log', g, n) = EventsOf(log, g, n)
               /\ Cardinality(EventsOf(log', g, Len(log) + 1)) =
                    Cardinality(EventsOf(log, g, Len(log))) + (IF e.agg = g THEN 1 ELSE 0)
    <3>1. log \in Seq(Event) /\ log' = Append(log, e)
      BY <1>1, <1>3
    <3>2. /\ \A n \in 1..Len(log) : EventsOf(Append(log, e), g, n) = EventsOf(log, g, n)
          /\ Cardinality(EventsOf(Append(log, e), g, Len(log) + 1)) =
               Cardinality(EventsOf(log, g, Len(log))) + (IF e.agg = g THEN 1 ELSE 0)
      BY <3>1, EventsAppended
    <3> QED BY <3>1, <3>2
  <2>3. ASSUME NEW g \in Account \cup Tx
        PROVE  Cardinality(EventsOf(log', g, Len(log'))) = VersionOf(g)'
    <3>1. Cardinality(EventsOf(log, g, Len(log))) = VersionOf(g) /\ VersionOf(g) \in Nat
      BY DEF VersionInv, Counted, VersionOf, IInv, StoreInv, StoreTypeOK, AccountState,
             TransactionState
    <3> QED BY <3>1, <1>3, <2>1, <2>2
  <2>4. ASSUME NEW i \in DOMAIN log'
        PROVE  log'[i].version = Cardinality(EventsOf(log', log'[i].agg, i))
    <3>1. CASE i \in 1..Len(log)
      <4>1. log[i].version = Cardinality(EventsOf(log, log[i].agg, i))
        BY <3>1, <2>1 DEF VersionInv, VersionsContiguous, EventsOf
      <4> QED BY <4>1, <3>1, <2>1, <2>2
    <3>2. CASE i = Len(log) + 1
      <4>1. e.agg \in Account \cup Tx
        BY <1>3 DEF Event
      <4>2. e.version = Cardinality(EventsOf(log', e.agg, Len(log')))
        BY <4>1, <1>3, <2>3
      <4> QED BY <4>2, <3>2, <2>1
    <3> QED BY <3>1, <3>2, <2>1
  <2>5. VersionsContiguous'
    BY <2>4 DEF VersionsContiguous, EventsOf
  <2>6. Counted'
    BY <2>3 DEF Counted
  <2> QED BY <2>5, <2>6 DEF VersionInv
<1> QED BY <1>1, <1>2, <1>3 DEF OneEvent

\* The k-th event stored for an aggregate has version k, whatever number of workers
\* and commands raced for that version.
THEOREM VersionsAreContiguous == Spec => []VersionsContiguous
<1>1. Init => IInv /\ VersionInv
  BY InitIInv, InitVersionInv
<1>2. (IInv /\ VersionInv) /\ [Next]_vars => (IInv /\ VersionInv)'
  BY NextIInv, NextVersionInv
<1>3. IInv /\ VersionInv => VersionsContiguous
  BY DEF VersionInv
<1> QED BY <1>1, <1>2, <1>3, PTL DEF Spec

-------------------------------------------------------------------------------
(***************************************************************************)
(* What a reader of the log finds: every account begins with its creation, *)
(* and each event is one that the account accepted when it was stored.     *)
(***************************************************************************)
\* An event is stored that changes no account, or none.
StoresElse ==
  /\ UNCHANGED acc
  /\ UNCHANGED log \/ \E e \in Event : log' = Append(log, e) /\ e.agg \in Tx

\* Event e of an account is stored, which the account accepts.
StoresFor(e) ==
  /\ e.agg \in Account /\ e.kind \in AccountKind /\ e.version = acc[e.agg].version + 1
  /\ log' = Append(log, e)
  /\ acc' = [acc EXCEPT ![e.agg] = HandleAccountEvent(acc[e.agg], e)]
  /\ e.kind = "AccountCreated" => acc[e.agg].version = 0 /\ e.money = 0
  /\ e.kind # "AccountCreated" => acc[e.agg].status = "OPEN"
  /\ e.kind \in {"MoneyDeposited", "MoneyWithdrawn"} => e.money \in Amount
  /\ e.kind = "MoneyWithdrawn" => ~(acc[e.agg].balance < e.money)
  /\ e.kind = "AccountFrozen" => e.agg \in Freezable

StoresOne == StoresElse \/ \E e \in Event : StoresFor(e)

\* A transaction that was placed moves a sum that a client asked for.
PlacedMoney == \A t \in Tx : tx[t].version > 0 => tx[t].money \in Amount

\* The transaction of a worker at work.
LEMMA CurrentMoney ==
  ASSUME IInv, PlacedMoney, NEW w \in Worker, pc[w] # "idle"
  PROVE  Current(w) \in Tx /\ tx[Current(w)].money \in Amount
<1>1. at[w] \in DOMAIN log /\ Handled(log[at[w]])
  BY DEF IInv, WorkerOK
<1>2. log[at[w]].tx \in Tx /\ tx[log[at[w]].tx].version > 0
  BY <1>1, HandledEvent DEF IInv
<1> QED BY <1>2 DEF PlacedMoney, Current

\* One lemma for each action that stores an event of an account.
LEMMA CreateAccountStores ==
  ASSUME NEW a \in Account, CreateAccount(a)
  PROVE  StoresOne
<1> DEFINE e == AccountEvent("AccountCreated", a, 1, Nobody, "none", 0)
<1>1. e \in Event
  BY EventTypes DEF AccountKind
<1>2. e.agg = a /\ e.kind = "AccountCreated" /\ e.version = acc[a].version + 1 /\ e.money = 0
  BY DEF AccountEvent, CreateAccount
<1>3. StoreAccountEvent(e) /\ acc[a].version = 0
  BY DEF CreateAccount
<1> HIDE DEF e
<1>4. StoresFor(e)
  BY <1>2, <1>3 DEF StoresFor, StoreAccountEvent, AccountKind
<1> QED BY <1>1, <1>4 DEF StoresOne

\* An account is frozen while it is open.
LEMMA FreezeStores ==
  ASSUME IInv, NEW a \in Account, Freeze(a)
  PROVE  StoresOne
<1> DEFINE e == AccountEvent("AccountFrozen", a, acc[a].version + 1, Nobody, "none", 0)
<1>1. e \in Event
  <2>1. acc[a].version + 1 \in Nat \ {0}
    BY DEF IInv, StoreInv, StoreTypeOK, AccountState
  <2> QED BY <2>1, EventTypes DEF AccountKind
<1>2. e.agg = a /\ e.kind = "AccountFrozen" /\ e.version = acc[a].version + 1
  BY DEF AccountEvent
<1>3. StoreAccountEvent(e) /\ acc[a].status = "OPEN" /\ a \in Freezable
  BY DEF Freeze
<1> HIDE DEF e
<1>4. StoresFor(e)
  BY <1>2, <1>3 DEF StoresFor, StoreAccountEvent, AccountKind
<1> QED BY <1>1, <1>4 DEF StoresOne

\* A leg is saved against the version it was decided on, so the decision still holds.
LEMMA SaveAccountStores ==
  ASSUME IInv, PlacedMoney, NEW w \in Worker, SaveAccount(w)
  PROVE  StoresOne
<1> DEFINE e == MoneyEvent(w)
           money == tx[Current(w)].money
<1>1. /\ e \in Event /\ e.agg = AccountOf(w) /\ e.agg \in Account /\ e.kind \in AccountKind
      /\ seen[w] = acc[e.agg].version
      /\ Accepts(acc[e.agg], side[w], money)
  BY SaveAccountDecided
<1>2. /\ e.kind = IF side[w] = "withdraw" THEN "MoneyWithdrawn" ELSE "MoneyDeposited"
      /\ e.version = seen[w] + 1 /\ e.money = money
  BY DEF MoneyEvent, AccountEvent
<1>3. StoreAccountEvent(e) /\ money \in Amount
  BY CurrentMoney DEF SaveAccount
<1> HIDE DEF e, money
<1>4. /\ acc[e.agg].status = "OPEN"
      /\ side[w] = "withdraw" => ~(acc[e.agg].balance < money)
  BY <1>1 DEF Accepts, CanWithdraw, CanDeposit
<1>5. StoresFor(e)
  BY <1>1, <1>2, <1>3, <1>4 DEF StoresFor, StoreAccountEvent
<1> QED BY <1>1, <1>5 DEF StoresOne

\* A refund reaches an open account, or was made before.
LEMMA RefundStores ==
  ASSUME IInv, PlacedMoney, NEW w \in Worker, Refund(w)
  PROVE  StoresOne
<1> DEFINE e == RefundEvent(w)
<1>1. /\ e \in Event /\ e.agg \in Account /\ e.agg = tx[Current(w)].from
      /\ e.kind = "MoneyDeposited" /\ e.version = acc[e.agg].version + 1
      /\ e.money = tx[Current(w)].money
  BY RefundEventOK
<1>2. e.money \in Amount
  BY <1>1, CurrentMoney DEF Refund
<1>3. CASE HasIdempotencyKey(Current(w), "rollback")
  BY <1>3 DEF Refund, StoresOne, StoresElse, storeVars
<1>4. CASE ~HasIdempotencyKey(Current(w), "rollback")
  <2>1. StoreAccountEvent(e) /\ acc[e.agg].status = "OPEN"
    BY <1>1, <1>4 DEF Refund, Refundable, CanDeposit
  <2> HIDE DEF e
  <2>2. StoresFor(e)
    BY <1>1, <1>2, <2>1 DEF StoresFor, StoreAccountEvent, AccountKind
  <2> QED BY <1>1, <2>2 DEF StoresOne
<1> QED BY <1>3, <1>4

\* Every other step leaves the accounts alone.
LEMMA KeepsAccountsStores ==
  ASSUME IInv, UNCHANGED acc, OneEvent
  PROVE  StoresOne
<1>1. CASE UNCHANGED log
  BY <1>1 DEF StoresOne, StoresElse
<1>2. ASSUME NEW e \in Event, log' = Append(log, e), e.version = VersionOf(e.agg) + 1,
             VersionOf(e.agg)' = e.version
      PROVE  StoresOne
  <2>1. e.agg \in Account \cup Tx
    BY DEF Event
  <2>2. VersionOf(e.agg) \in Nat
    BY <2>1 DEF VersionOf, IInv, StoreInv, StoreTypeOK, AccountState, TransactionState
  <2>3. e.agg \notin Account
    BY <1>2, <2>2 DEF VersionOf
  <2> QED BY <1>2, <2>1, <2>3 DEF StoresOne, StoresElse
<1>3. \A e \in Event : e.agg \in Account \cup Tx
  BY DEF Event
<1> QED BY <1>1, <1>2, <1>3 DEF OneEvent

\* Every step stores at most one event, and one that its account accepts.
LEMMA NextStores == IInv /\ PlacedMoney /\ [Next]_vars => StoresOne
<1> SUFFICES ASSUME IInv, PlacedMoney, [Next]_vars PROVE StoresOne
  OBVIOUS
<1>1. UNCHANGED acc => StoresOne
  BY NextIInv, KeepsAccountsStores DEF Grows
<1>2. CASE Command
  <2>1. ASSUME NEW t \in Tx, NEW from \in Party, NEW to \in Party, NEW money \in Amount,
               CreateTransaction(t, from, to, money)
        PROVE  UNCHANGED acc
    BY <2>1 DEF CreateTransaction, StoreTransactionEvent
  <2> QED BY <1>1, <1>2, <2>1, CreateAccountStores, FreezeStores DEF Command
<1>3. ASSUME NEW w \in Worker, Work(w) \/ Fault(w) PROVE StoresOne
  <2>1. CASE StoreRefusal(w) \/ Settle(w) \/ UNCHANGED storeVars
    BY <1>1, <2>1 DEF StoreRefusal, Settle, StoreTransactionEvent, storeVars
  <2> QED BY <1>3, <2>1, StoreCalls, SaveAccountStores, RefundStores
<1>4. CASE UNCHANGED vars
  BY <1>1, <1>4 DEF vars, storeVars
<1> QED BY <1>2, <1>3, <1>4 DEF Next

\* A transaction keeps the sum it was placed with.
LEMMA NextPlacedMoney == IInv /\ PlacedMoney /\ [Next]_vars => PlacedMoney'
<1> SUFFICES ASSUME IInv, PlacedMoney, [Next]_vars PROVE PlacedMoney'
  OBVIOUS
<1>0. tx \in [Tx -> TransactionState]
  BY DEF IInv, StoreInv, StoreTypeOK
<1>1. CASE UNCHANGED tx
  BY <1>1 DEF PlacedMoney
<1>2. ASSUME NEW w \in Worker, NEW e, e.agg = Current(w), pc[w] # "idle",
             e.kind \in {"TransactionFailed", "TransactionSucceeded"},
             StoreTransactionEvent(e)
      PROVE  PlacedMoney'
  <2>1. Current(w) \in Tx /\ tx[Current(w)].money \in Amount
    BY <1>2, CurrentMoney
  <2>2. tx' = [tx EXCEPT ![Current(w)] = HandleTransactionEvent(tx[Current(w)], e)]
    BY <1>0, <1>2, <2>1 DEF StoreTransactionEvent
  <2>3. HandleTransactionEvent(tx[Current(w)], e).money = tx[Current(w)].money
    BY <1>0, <1>2, <2>1 DEF HandleTransactionEvent, TransactionState
  <2> HIDE DEF Current
  <2> QED BY <1>0, <2>1, <2>2, <2>3 DEF PlacedMoney
<1>3. ASSUME NEW w \in Worker, Settle(w) PROVE PlacedMoney'
  BY <1>1, <1>2, <1>3 DEF Settle, TransactionEvent, storeVars
<1>4. ASSUME NEW w \in Worker, StoreRefusal(w) PROVE PlacedMoney'
  BY <1>2, <1>4 DEF StoreRefusal, FailureEvent, TransactionEvent
<1>5. ASSUME NEW t \in Tx, NEW from \in Party, NEW to \in Party, NEW money \in Amount,
             CreateTransaction(t, from, to, money)
      PROVE  PlacedMoney'
  <2> DEFINE e == TransactionCreated(t, from, to, money)
  <2>1. /\ tx' = [tx EXCEPT ![t] = HandleTransactionEvent(tx[t], e)]
        /\ e.kind = "TransactionCreated" /\ e.money = money
    BY <1>0, <1>5 DEF CreateTransaction, StoreTransactionEvent, TransactionCreated
  <2> HIDE DEF e
  <2>2. HandleTransactionEvent(tx[t], e).money \in Amount
    BY <2>1 DEF HandleTransactionEvent
  <2> QED BY <1>0, <2>1, <2>2 DEF PlacedMoney
<1>6. ASSUME NEW a \in Account, CreateAccount(a) \/ Freeze(a) PROVE PlacedMoney'
  BY <1>1, <1>6 DEF CreateAccount, Freeze, StoreAccountEvent
<1>7. ASSUME NEW w \in Worker, Work(w) \/ Fault(w)
      PROVE  PlacedMoney'
  <2>1. CASE SaveAccount(w) \/ Refund(w)
    BY <1>1, <2>1 DEF SaveAccount, Refund, StoreAccountEvent, storeVars
  <2> QED BY <1>1, <1>3, <1>4, <1>7, <2>1, StoreCalls DEF storeVars
<1>8. CASE UNCHANGED vars
  BY <1>1, <1>8 DEF vars, storeVars
<1> QED BY <1>5, <1>6, <1>7, <1>8 DEF Next, Command

\* An account exists if there is an event of it.
AccountKnown(a) ==
  /\ acc[a].version = 0 =>
       acc[a].status = "NONE" /\ acc[a].balance = 0 /\ \A i \in DOMAIN log : log[i].agg # a
  /\ acc[a].version > 0 => \E i \in DOMAIN log : log[i].agg = a

\* The first event of an account, and no other, creates it.
InOrder(events, i) ==
  events[i].agg \in Account =>
    /\ events[i].kind = "AccountCreated" =>
         events[i].money = 0 /\ \A j \in 1..(i - 1) : events[j].agg # events[i].agg
    /\ events[i].kind # "AccountCreated" =>
         \E j \in 1..(i - 1) : events[j].agg = events[i].agg
    /\ events[i].kind \in {"MoneyDeposited", "MoneyWithdrawn"} => events[i].money \in Amount
    /\ events[i].kind = "AccountFrozen" => events[i].agg \in Freezable
    /\ events[i].kind \in AccountKind

Stream ==
  /\ PlacedMoney
  /\ \A a \in Account : AccountKnown(a)
  /\ \A i \in DOMAIN log : InOrder(log, i)

\* At the start there is neither an event nor an account.
LEMMA InitStream == Init => Stream
BY EmptySeq DEF Init, StoreInit, Stream, PlacedMoney, AccountKnown, NewAccount, NewTransaction

\* The events of other aggregates keep the order; one of an account continues it.
LEMMA NextStream == IInv /\ Stream /\ [Next]_vars => Stream'
<1> SUFFICES ASSUME IInv, Stream, [Next]_vars PROVE Stream'
  OBVIOUS
<1>0. /\ log \in Seq(Event) /\ Len(log) \in Nat /\ DOMAIN log = 1..Len(log)
      /\ acc \in [Account -> AccountState]
  BY LenProperties DEF IInv, StoreInv, StoreTypeOK
<1>1. PlacedMoney' /\ StoresOne
  BY NextPlacedMoney, NextStores DEF Stream
<1>2. CASE UNCHANGED <<acc, log>>
  BY <1>1, <1>2 DEF Stream, AccountKnown
<1>3. ASSUME NEW e \in Event, log' = Append(log, e)
      PROVE  /\ DOMAIN log' = 1..(Len(log) + 1) /\ log'[Len(log) + 1] = e
             /\ \A i \in DOMAIN log : log'[i] = log[i] /\ i \in DOMAIN log' /\ InOrder(log', i)
  <2>1. /\ DOMAIN log' = 1..(Len(log) + 1) /\ log'[Len(log) + 1] = e
        /\ \A i \in DOMAIN log : log'[i] = log[i] /\ i \in DOMAIN log'
    BY <1>0, <1>3, AppendProperties
  <2>2. ASSUME NEW i \in DOMAIN log PROVE InOrder(log', i)
    <3>1. InOrder(log, i)
      BY DEF Stream
    <3>2. \A j \in 1..(i - 1) : log'[j] = log[j]
      BY <1>0, <2>1
    <3> QED BY <2>1, <3>1, <3>2 DEF InOrder
  <2> QED BY <2>1, <2>2
<1>4. ASSUME NEW e \in Event, log' = Append(log, e), e.agg \in Tx, acc' = acc
      PROVE  Stream'
  <2>1. \A a \in Account : AccountKnown(a)'
    <3> SUFFICES ASSUME NEW a \in Account PROVE AccountKnown(a)'
      OBVIOUS
    <3>1. e.agg # a
      BY <1>4, DomainAssumption
    <3> QED BY <1>0, <1>3, <1>4, <3>1 DEF AccountKnown, Stream
  <2>2. InOrder(log', Len(log) + 1)
    BY <1>3, <1>4, DomainAssumption DEF InOrder
  <2> QED BY <1>0, <1>1, <1>3, <1>4, <2>1, <2>2 DEF Stream
<1>5. ASSUME NEW e \in Event, StoresFor(e) PROVE Stream'
  <2>1. /\ DOMAIN log' = 1..(Len(log) + 1) /\ log'[Len(log) + 1] = e
        /\ \A i \in DOMAIN log : log'[i] = log[i] /\ i \in DOMAIN log' /\ InOrder(log', i)
    BY <1>3, <1>5 DEF StoresFor
  <2>2. /\ e.agg \in Account /\ acc'[e.agg].version > 0
        /\ \A a \in Account : a # e.agg => acc'[a] = acc[a]
    BY <1>0, <1>5 DEF StoresFor, HandleAccountEvent, AccountState
  <2>3. \A a \in Account : AccountKnown(a)'
    <3> SUFFICES ASSUME NEW a \in Account PROVE AccountKnown(a)'
      OBVIOUS
    <3>1. AccountKnown(a)
      BY DEF Stream
    <3>2. CASE a = e.agg
      <4>1. Len(log) + 1 \in DOMAIN log'
        BY <1>0, <2>1
      <4> QED BY <2>1, <2>2, <3>2, <4>1 DEF AccountKnown
    <3>3. CASE a # e.agg
      BY <1>0, <2>1, <2>2, <3>1, <3>3 DEF AccountKnown
    <3> QED BY <3>2, <3>3
  <2>4. InOrder(log', Len(log) + 1)
    <3>1. AccountKnown(e.agg) /\ acc[e.agg].version \in Nat
      BY <1>0, <2>2 DEF Stream, AccountState
    <3>2. \A j \in 1..((Len(log) + 1) - 1) : j \in DOMAIN log /\ log'[j] = log[j]
      BY <1>0, <2>1
    <3>3. e.kind = "AccountCreated" => \A j \in DOMAIN log : log[j].agg # e.agg
      BY <1>5, <3>1 DEF StoresFor, AccountKnown
    <3>4. e.kind # "AccountCreated" => \E j \in DOMAIN log : log[j].agg = e.agg
      BY <1>5, <3>1 DEF StoresFor, AccountKnown
    <3>5. \A j \in DOMAIN log : j \in 1..((Len(log) + 1) - 1)
      BY <1>0
    <3> QED BY <1>5, <2>1, <3>2, <3>3, <3>4, <3>5 DEF InOrder, StoresFor
  <2> QED BY <1>0, <1>1, <2>1, <2>3, <2>4 DEF Stream
<1> QED BY <1>1, <1>2, <1>4, <1>5 DEF StoresOne, StoresElse

\* Whatever interleaves, the log is such a stream.
LEMMA StreamInvariance == Spec => [](IInv /\ Stream)
<1>1. Init => IInv /\ Stream
  BY InitIInv, InitStream
<1>2. (IInv /\ Stream) /\ [Next]_vars => (IInv /\ Stream)'
  BY NextIInv, NextStream
<1> QED BY <1>1, <1>2, PTL DEF Spec
===============================================================================
