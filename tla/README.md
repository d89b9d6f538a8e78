# A verification of es-cqrs-bank-transfer

TLA+ modules that model the two services of this repository, the configurations
that check them with TLC, and theorems about them that TLAPS checks. Paths below
are relative to the root of the repository.

## 1. The system

A client opens accounts and places *money transactions* (a deposit, a withdrawal
or a transfer) through the REST API of the **account service**, the write side.
Both are aggregates of an event store in MongoDB. A *forwarder* publishes every
stored event to NATS. A *reactor* in the account service reads the events back and
carries out each transaction, leg by leg. A *projection* in the **balance service**,
the read side, keeps one Elasticsearch document per account up to date.

| Component | State | Operations | Interacts with |
|---|---|---|---|
| Aggregates (`account/internal/domain/entity`) | account: status, balance, version; transaction: status, from, to, money, version | `HandleEvent`; `Withdraw`, `Deposit`; `WithdrawFailed`, `DepositFailed`, `Succeeded` | called inside `Exec` by the services |
| Event store gateway (`account/internal/infra/gateway/esdb`, `account/migrations`) | collection `events`, unique on (aggregate id, version) and on the idempotency key | `CreateIfNew`, `Get`, `Exec` (= `HasIdempotencyKey`, `Retrieve`, insert) | the only state that reactor workers share |
| Transaction and account services (`account/internal/domain/app`) | none | `Create`, `TransactionCreated` (`whitdraw`, `deposit`, complete), `TransactionFailed` (rollback) | store, resume token |
| Reactor (`account/internal/infra/controller/reactor.go`) | resume token in MongoDB | `Handle`, `GetStreamResumeToken`, `SetStreamResumeToken` | bus, transaction service |
| Forwarder, NATS, gRPC replay (library, wired in `account/cmd/account/setup.go`) | position in the change stream | publish, deliver at least once, replay | store to reactor and projection |
| Leases and balancers (library, wired in both `setup.go`) | consul lock of `LOCK_EXPIRY` | one worker at a time, restarted when it stops | reactor, projection, forwarder |
| Balance projection (`balance/internal/domain/app`, `.../controller/projection.go`) | none | `Handle`, `AccountCreated`, `MoneyDeposited`, `MoneyWithdrawn` | bus, balance repository |
| Balance repository and resumer (`balance/internal/infra/gateway`) | documents; stored resume token | `CreateAccount`, `GetByID`, `Update`, `GetMaxSequence`; `Set`/`GetStreamResumeToken` | Elasticsearch |
| REST controllers, start-up, logging, code generator, e2e tests | none that is decided on | | |

What is hard here, and what each part must get right:

* **Store and aggregates.** `Exec` is three calls, not one. What a worker decided on
  may have changed when it inserts, and only the two indexes stand between that and
  an overdrawn account or a leg that is applied twice.
* **Transaction service.** A transaction takes up to three separate commits, and the
  worker may die, fail, or be overlapped by another after any of them. Every event
  may come again. A transaction must have one outcome, a success must have moved its
  money, a failure must have moved nothing or ask for exactly one refund.
* **Reactor.** The resume token is stored only by a success or a rollback. It must
  never pass an event that still needs handling, and every transaction must
  eventually be settled.
* **Projection.** A redelivered event is recognised by comparing its sequence with the
  greatest sequence of *all* documents, a restart resumes from it, and the write is a
  partial update without a version condition. Every event must reach its document, once.
* **The whole.** The two sides share nothing but the bus. What one publishes must be what
  the other was built for, and when clients stop, both must come to give the same answer.

The hazards, each at its line and with the properties that watch it, are listed in
`PROJECT.json`.

## 2. The modules

```
BankDomain      events, aggregates, guards of the commands          (pure)
  EventStore    the log with its two unique indexes
    Transfers   REST commands, reactor workers, delivery, faults
      TransferProperties   what the write side keeps; refinement of Ledger
        MCTransfers        symmetry and starting states for TLC
        TransferProofs     types, balances, outcomes
          VersionProofs        versions, and what a reader of the log may rely on
          LegProofs            the legs of the transactions
            LedgerProofs       the refinement of Ledger
            ResumeProofs       the resume token
            ConservationProofs conservation of money
  Ledger        abstract specification of the write side
  Projection    the read side and its properties
    MCProjection           symmetry for TLC
    ProjectionProofs       types, order, what is applied
EndToEnd        both services: instances of TransferProperties and Projection,
                the forwarder between them, queries, what the system promises
  MCEndToEnd               bound of the log and starting state for TLC
  EndToEndProofs           theorems about both services, from VersionProofs and
                           ProjectionProofs
```

**BankDomain** translates `HandleEvent` of `entity/account.go` and
`entity/transaction.go` and the guards of their commands. Ids are model values:
accounts and transactions have random UUIDs and never share one. `Nobody` is
`uuid.Nil`. An idempotency key `<id>/withdraw` is the pair of fields `tx` and `leg`
of the event record that stores it. Owners and reasons of failures are left out: no
decision depends on them. Sums and balances are `int64` of either sign, and `Wrap` is
what adding and subtracting does at the ends of the range; `MaxInt64` is a constant, so
that a small instance can overflow.

**EventStore** is the collection `events` as both repositories use it. `Conflicts`
is the violation of either index. The key index is over the whole collection, so a
key that a *transaction* stored (a refused leg) blocks the *account* as well. The
aggregates are kept beside the log, folded by the same operators, so that a Retrieve
is a lookup; snapshots (`SNAPSHOT_THRESHOLD`) only make that fold faster.

**Transfers** has one action per call that a handler makes to the store, and one
per way the call can end:

| Action | Code |
|---|---|
| `CreateAccount`, `CreateTransaction` | `Create` of the two services; one step, since the id is a fresh UUID |
| `Skip`, `Deliver`, `Redeliver` | subscription to `Reactor.Handle` |
| `LegDone`, `LegOpen` | `accID == uuid.Nil`, or `HasIdempotencyKey` in `AccountRepository.Exec` |
| `RetrieveAccount`, `UnknownAccount` | Retrieve in `Update`, then `Withdraw`/`Deposit`; `ErrUnknownAggregateID` |
| `SaveAccount`, `AccountConflict` | the insert, or a unique index refuses it |
| `FailureRecorded`, `FailureOpen`, `RetrieveTransaction`, `AlreadySettled`, `SaveFailure`, `FailureConflict` | the nested `TransactionRepository.Exec` when the account refused |
| `Complete` | the MongoDB transaction of `TransactionCreated`: `Succeeded` and `SetStreamResumeToken` |
| `Rollback`, `RollbackRefused` | the MongoDB transaction of `TransactionFailed` |
| `TransientError` | any call to the store fails without effect, or its transaction aborts |
| `AnswerLost` | the last call of a handler takes effect, but its answer is lost and the handler returns an error |
| `Restart` | the worker dies or loses its lease, and starts after the resume token |
| `Freeze` | external, see section 6 |

A handler that returns nil acknowledges its event (`Return`); one that returns an
error does not (`ReturnError`). What the last call of a handler does to the store is an
operator of its own, as it happens with either ending: `StoreRefusal` (in `SaveFailure`),
`Settle` (in `Complete`) and `Refund` (in `Rollback`), and each of them in `AnswerLost`.
The answer to an earlier call, `SaveAccount`, is lost when a `TransientError` follows it:
nothing is decided in between. `OrderedRetry` says whether such an event comes again
before the later ones or after some of them. Two workers stand for two replicas whose
leases overlap.

**Ledger** is the abstract specification: each leg of a transaction is applied or
refused at most once, in one atomic step, on the balance of that very moment; a
transaction has one outcome; a withdrawal whose deposit was refused is refunded at
most once. `TransferProperties!ImplementsLedger` reads a ledger off the store (the
state of a leg from the keys in the log) and says that every call of every worker is
a step of it or leaves it unchanged. The ledger lets a credit happen for a
transaction that has failed, which the code does (first finding).

**Projection** models the balance service in the same way: `IgnoreEvent`,
`AcceptEvent` (`Projection.Handle`), `CreateAccount`, `GetByID`, `UnknownAggregate`,
`Update`, `SetStreamResumeToken`, one step per request to Elasticsearch. `Merge` is
what a partial update does with a field that `omitempty` left out. `Publish` is the
environment, and it produces only feeds that an account service can produce (that it
does is `ImplementsProjection`, below). `CleanIndex` is what the repository's README
advises for starting afresh: with the projection stopped, delete the index.

**EndToEnd** composes the two. `W == INSTANCE TransferProperties` and `P == INSTANCE
Projection` run over its variables; the projection's `feed` is the published prefix of
the log, `[i \in 1..sent |-> View(log[i])]`. `Forward` publishes one event.
`ReactorStep` is `Work` of `Transfers` limited to what was published, `ProjectorStep`
is `Work` of `Projection`, and `AccountService` and `BalanceService` are what the two
`Setup` functions run side by side. `Balance` and `GetOne` are the queries of the two
REST APIs. Three properties speak of the whole:

* `ImplementsProjection == P!Spec`: every behaviour of the composed system is a
  behaviour of `Projection`. This discharges the assumption that `Projection` makes
  about its environment (`CanFollow`): the balance that the events on the bus add up to
  covers every withdrawal, because the write side has decided on the same balance.
* `AnswersAgree`: when the last event of an account is in its document, `GET
  /balance/:id` and `GET /accounts/:id` agree about it (unless it was once emptied,
  finding 4). The one is computed by `Merge` from what a worker read, the other by
  replaying the store.
* `EventuallyConsistent`: the system comes to rest with every transaction settled
  (or stuck behind an event that can never be handled) and all documents up to date.

## 3. The runs

Everything is checked exhaustively within these bounds. `w1, w2` are workers,
`faults` bounds crashes, errors and redeliveries together.

| Run | Instance | Shows |
|---|---|---|
| `contention` | 1 account that holds 1 or owes 1, 2 more transactions of 1 or -1, int64 of -2..1, 2 workers, 1 fault | `WithdrawalsCovered`, `VersionsContiguous`, `SucceededIsComplete`, `LedgerSteps` |
| `spending` | 1 account that holds 1 or 2, 2 more transactions of 1 or 2, 2 workers, 1 fault | `NoOverdraft` |
| `redelivery` | 2 accounts (one may be frozen), 1 transaction, amounts 0 and 1, 2 workers, 2 faults | `WithdrawnMoneyIsOwed`, `RefundJustified`, `OutcomeFinal`, `ImplementsLedger` |
| `recovery` | 2 accounts (one may be frozen), a deposit and 1 more transaction, fair worker, ordered retries, 3 faults | `TokenSafe`, `MoneyConserved`, `Settles`, `RefundArrives`, `TypeOK` |
| `projection_ordered` | 2 accounts, 4 events, amounts 1 and 2, int64 of -3..2, fair worker, 2 faults, ordered retries | `NothingPassedOver`, `AppliedOnce`, `CatchesUp` |
| `projection_unordered` | 5 events, failed events come again after later ones | `NeverGoesBack`, `TypeOK` |
| `end_to_end` | 1 account, a deposit and 1 more transaction of 1 or 2, 1 reactor worker, 1 projector, both fair, a fault of either | `ImplementsProjection`, `AnswersAgree`, `EventuallyConsistent` |
| `duplicate_credit`, `unknown_destination`, `lost_transaction`, `projection_zero`, `projection_overlap` | | the findings of section 4 |

Why the bounds are enough. Three transactions on one account are the least that let
money in (a deposit) and have two workers compete for it (two withdrawals). Without
the version index two withdrawals can go through only if the workers are on different
transactions, which takes a fault; `contention` and `spending` therefore start in a state
the program reaches by itself, in which the deposit is done (`MCTransfers!Funded`), and
spend their bounds on the two withdrawals and the fault. In `spending` an account that
holds 2 covers either withdrawal but not both, or both and no more. In `contention` the
sums are 1 and -1 and the integers end at 1, so that every command can be negative and a
second deposit overflows. `LedgerSteps` is the step part of `ImplementsLedger` under these
bounds, where the starting state is not the ledger's first. A refund
needs one transfer whose destination stops accepting, and the interesting cases need
the handler to be entered again after each of its commits: two workers with two
faults reach two overlapping handlings and a third one. The amount 0 gives a
withdrawal that an empty account accepts, so that transfers happen with only one
transaction. For the resume token, two transactions make one that is passed and one
that passes it. `recovery` and `end_to_end` start as soon as an account was created and a
deposit to it was placed, with nothing handled (`Begun` in their modules), which leaves the
bounds to what is done with the money: a transfer that is refused and refunded, or, in
`end_to_end`, a withdrawal of 1 from 2 that leaves a balance to compare. In the projection,
four events are enough for two accounts whose events alternate, one created and one changed,
and a fifth for an event that comes late.

In every passing run the properties are shown to depend on the code: `PROJECT.json`
lists for each a mutant of a definition (a missing index, a dropped key, a
success that does not check for pending, a conflict that is swallowed, ...) with
which TLC finds it violated. The mutants stand in the modules before the definition
they change.

**Fairness.** Of each component only `Work(w)` is weakly fair: a worker whose handler has a next call,
or whose subscription has a next event, eventually takes the step. The code justifies
this by `SingleBalancer`, which restarts the worker as long as its lease holds, and by
handlers that wait for nothing but the store. Clients, `Freeze` and faults are never
fair, and faults are bounded, which says that a worker is not interrupted for ever.
One action per worker is enough because from every program counter at most one of the
actions in `Work` is enabled. In `EndToEnd` the forwarder is fair as well, for the same
reason (`setup.go:151-152`); the reactor's step is fair once its event was published.
`CHECK_DEADLOCK FALSE` is there because the system stops
when all ids are used and all events handled.

`Settles` and `RefundArrives` except the events behind a *poison* event, one that the
handler can only fail on: with ordered retries it holds up everything after it. This
is how the code behaves and not an artefact; `unknown_destination` shows it.

## 4. What the checks found

1. **A failed transaction may credit its destination** (`duplicate_credit`,
   `account/internal/domain/app/transaction.go:63`). A refused withdrawal stores the
   key `<id>/withdraw` on the transaction and no resume token. When the event is
   handled again (a redelivery, a restart before the next success, or a retry because
   the answer to the refusal's insert was lost), the key
   makes `whitdraw` return true, and `deposit` pays out money nobody gave.
2. **Money for an unknown destination is lost** (`unknown_destination`,
   `transaction.go:128`). The rollback is asked for inside the callback of `Exec`,
   which is not called when the account does not exist. The event fails for ever, and
   `Create` does not check the accounts.
3. **The resume token may pass a pending transaction** (`lost_transaction`,
   `transaction.go:112`). A worker that overlaps another sees the balance after the
   other's withdrawal, is refused, finds the key stored, and acknowledges the event.
   If the other one then dies, nobody completes the transaction.
4. **A balance of zero is not projected** (`projection_zero`,
   `balance/internal/infra/gateway/repository.go:222`). The field is `omitempty`, so
   the partial update leaves the old balance in the document.
5. **Overlapping projections add an event twice** (`projection_overlap`,
   `repository.go:230`). The guard against redelivery (`projection.go:121`) reads the
   greatest sequence some requests before the document is written, and the write has no
   condition on the version that was read. Two workers that overlap while a lease passes
   from one to the other both pass the guard, and the second adds to what the first wrote.

## 5. What is proved

The theorems hold for any sets of accounts, transactions and workers, any number of
faults and either order of retries, except where the table names a condition. They rest
on the assumptions named in the modules and on nothing else: `DomainAssumption` (ids
are distinct, amounts are `int64`), `TransfersAssumption` and `ProjectionAssumption`
(ranges of the other constants), and `EndToEndAssumption`, which says the same of the
constants of the composition. Every safety property of a passing run is stated by one.

| Theorem | Says | Condition |
|---|---|---|
| **TransferProofs** | | |
| `Invariance` | `Spec => []IInv`, the inductive invariant | |
| `TypeCorrect` | `Spec => []TypeOK` | |
| `NoUncoveredWithdrawal` | `Spec => WithdrawalsCovered` | |
| `NeverOverdrawn` | `Spec /\ []Headroom => []NoOverdraft` | `Amount \subseteq Nat` |
| `OutcomesAreFinal` | `Spec => OutcomeFinal` | |
| **VersionProofs** | | |
| `VersionsAreContiguous` | `Spec => []VersionsContiguous` | |
| `StreamInvariance` | `Spec => [](IInv /\ Stream)`: what a reader of the log may rely on | |
| **LegProofs** | | |
| `LegsInvariance` | `Spec => [](IInv /\ LegInv)`, the invariant about the legs | |
| `SuccessIsComplete` | `Spec => []SucceededIsComplete` | |
| `FailureOwesRefund` | `Spec => []WithdrawnMoneyIsOwed` | |
| `RefundIsJustified` | `Spec => []RefundJustified` | |
| **LedgerProofs** | | |
| `WriteSideImplementsLedger` | `Spec => ImplementsLedger` | |
| `StoreStepsAreLedgerSteps` | `Spec => LedgerSteps` | |
| **ResumeProofs** | | |
| `TokenIsSafe` | `Spec => []TokenSafe` | one worker, `OrderedRetry` |
| **ConservationProofs** | | |
| `BooksBalance` | `Spec => [](IInv /\ LegInv /\ ConservationInv)` | finitely many accounts and transactions |
| `MoneyIsConserved` | `Spec => []MoneyConserved` | the same |
| `UndisturbedCreditsNobody` | `Spec /\ Undisturbed => []FailedCreditsNobody` | one worker; `Undisturbed`: no restart, no second delivery, no stored refusal of a withdrawal whose answer is lost |
| **ProjectionProofs** | | |
| `ProjectionTypes` | `Spec => []TypeOK` | |
| `DocumentsNeverGoBack` | `Spec => NeverGoesBack` | one worker |
| `NoEventIsPassedOver` | `Spec => []NothingPassedOver` | one worker, `OrderedRetry` |
| `EventsAreAppliedOnce` | `Spec => []AppliedOnce` | one worker, `OrderedRetry` |
| **EndToEndProofs** | | |
| `LogInvariance` | `Spec => [](IInv /\ Stream /\ LogInv)`: the log adds up to the balances | |
| `SystemImplementsProjection` | `Spec /\ [](Len(log) <= FeedBound) => ImplementsProjection` | `Freezable = {}` |
| `ServicesAgree` | `Spec /\ [](Len(log) <= FeedBound) => []AnswersAgree` | the same, one projection worker, `OrderedRetry` |

**The conditions** are not there for the prover. With two overlapping workers
`TokenSafe` and `AppliedOnce` are false (findings 3 and 5), and so they are when a failed
event may come after later ones. The read side has no event for an account that leaves
`OPEN`, and the program no operation that does it: `Freezable = {}` is the program as
shipped. `FeedBound` is a bound of `Projection`, for TLC; as the theorems hold for
every value, they hold of every execution up to any length. A sum over infinitely
many accounts has no meaning. `NoOverdraft` needs what nothing in the program
enforces: no layer rejects a negative amount (`Amount \subseteq Nat`), and none stops
a deposit from overflowing `int64` (`Headroom`, that there is room on every account
for every sum).

**Balances and outcomes.** The argument is the one for optimistic concurrency, and it
is spread over three places in the code. `NoOverdraft` is not inductive: nothing in it
tells that a worker that is about to store a withdrawal decided on the current balance.
`IInv` adds

* `Covered` and `LogOK`: the stored versions of an aggregate are exactly 1..n, where n
  is its version. Hence a free version is n + 1 (`FreeVersion`);
* `WorkerOK`: a worker at its insert has seen a version that is at most the current
  one, and *if it is the current one* the aggregate still accepts what was decided.

So when an insert goes through, the version was free, the worker's version is the
current one, and its decision is right for the aggregate as it is now
(`SaveAccountDecided`, `StoreRefusalDecided`). `Grows` is what one worker may assume
of the steps of the others: aggregates change only by getting a higher version. There
is one lemma for each action. `WithdrawalsCovered` follows without any condition on the
sums: the guard of `Withdraw` is right for negative sums and negative balances too.

**Versions.** `VersionsContiguous` is inductive together with `Counted`, that the number
of events stored for an aggregate is its version: the event a step appends has the
next one. `Stream` says what the log looks like to a reader: an account is created by its
first event and no other, and every later one is of a kind and a sum the services store.

**Legs.** `LegInv` ties three things together that the code keeps in different places:
the idempotency keys in the log, the outcome of the transaction, and the program
counters. A leg is applied or refused and never both; a transaction has failed exactly
when it refused a leg; a refund was asked for exactly when the refused leg is the deposit
of a transaction with a source, whose withdrawal was then applied (`TransactionOK`); a
worker on the second leg, or about to complete, has the keys of the legs before
(`LegsOK`). The key of a leg alone does not tell whether it was applied: that is why a
redelivery can credit the destination of a failed transaction (finding 1). It does as
long as the transaction is pending, which is what `SucceededIsComplete` needs.

**The ledger.** Besides the commands four calls store something: `SaveAccount`,
`StoreRefusal`, `Settle` and `Refund` (`StoreCalls`). `LegProofs` says for each what it
does to the legs (`SaveAccountLegs`, `RefundLegs`, ...), and `LedgerProofs` that this is
the step of `Ledger`, whether or not the worker gets the answer; all other steps leave
the ledger unchanged (`OtherSteps`).

**The resume token.** `ResumeInv`: everything up to the token, and up to the cursor of
the worker, is done, and the worker handles at most the next event. A cursor moves only
when the event is done, except by `FailureRecorded`, which acknowledges an event
because the key of its leg exists. A worker that is alone has just seen that it does not.

**Money.** `MoneyConserved` speaks only of a store at rest. `ConservationInv` says it of
every state, without that premise: the balances add up, modulo the width of `int64`, to
what the applied legs brought in less what they took out (`Flow`). Each step changes
one term on both sides by the same sum, or none. At rest the flow of a transaction is
what it should have added (`FlowAtRest`), by `TransactionOK`.

It keeps one premise, `FailedCreditsNobody`, which the code violates (finding 1).
`UndisturbedCreditsNobody` says when it holds: with one worker, as long as it is not
restarted, no event is delivered twice, and no refusal of a withdrawal is stored without
the worker getting the answer. Storing the refusal is the last call of its handler, which
then returns nil (`RefusalAnswered`), so the creation of a transaction whose withdrawal
was refused lies behind the cursor (`Behind`) and nothing takes it up again. Every other
call may fail, with or without effect. So the finding takes a restart, a second delivery, an
overlap of workers, or a stored refusal whose answer is lost.

**The projection.** Four layers: `TypeInv`; with one worker, that an event past the guard is
newer than every document (`AheadInv`); with ordered retries as well, that everything
before the greatest sequence was applied (`OrderInv`); and that a document shows the sum of
the events up to its sequence (`BalanceInv`).

**Both services.** `EndToEnd` is made of instances of the two sides, and what was proved of
each is brought in by instances of their proof modules (`WP`, `PP`), after a lemma that
both names of a specification mean the same. The projection assumes of its
environment that no withdrawal exceeds the balance that *it* computes from the events so
far. The account decided long before the event is published, so what was true at that
time is kept as a fact about the log: `LogInv` says that each stored withdrawal is
covered by the balance that the events before it add up to, and that all events of an
account add up to its balance. With `EventsAreAppliedOnce` this gives `ServicesAgree`.

**Recursion.** `Replay` and the sums of `MoneyConserved` are defined by recursion over
data, and the induction rules of the library cannot be used here (they take an
operator as a parameter). Instead a counterexample is taken that is minimal, with `WFMin` of
`WellFoundedInduction`, and refuted: the least natural number (`Least` in
`ProjectionProofs`), the smallest subset of a finite set (`Smallest` in
`ConservationProofs`, with the general facts about sums, up to `SumChange`).

**Only model-checked** are the liveness properties, as the prover has no rule for fairness
with `ENABLED`: `Settles`, `RefundArrives`, `CatchesUp` and `EventuallyConsistent`. So
are the violations of section 4, which are counterexamples.

## 6. Assumptions, and what is not modelled

* The library `quintans/eventsourcing` is not part of the repository and is modelled
  from its use. `Update` fails with `ErrUnknownAggregateID` before it calls back,
  stores nothing for a nil aggregate or one without new events, and inserts with the
  version that was retrieved. An empty idempotency key is never found. A function run
  by `WithTx` takes effect as a whole or not at all.
* **`Retrieve` of an unknown id.** `CreateIfNew` goes on only if it returns no aggregate
  and no error, while the 404 of `Balance` (`NotFound`) needs `Get` to return an error
  for an id that is not there. Both call `Retrieve`; the model assumes of each what its
  caller needs, as only the library could tell.
* **An empty index.** `GetMaxSequence` sorts on `sequence`, which the mapping that the
  repository documents does not declare. That Elasticsearch answers this query with no
  documents, and not with an error, as long as the index is empty is assumed: otherwise
  no first event would get past the guard.
* **Lost answers on the read side.** A request to Elasticsearch or MongoDB that takes effect
  although it fails is `Update` (or `CreateAccount`) followed by a `TransientError`, or, for
  `SetStreamResumeToken`, which is the last one, followed by a `Redeliver`.
* **Order of retries.** What the bus does with an event whose handler failed is the
  library's choice. Runs about the resume token and progress take `OrderedRetry =
  TRUE`, and so do the violations, which need no other order; `contention`, `spending`,
  `redelivery` and `projection_unordered` take `FALSE`, where a failed event comes again,
  at the price of a fault, at any later time. Section 5 says which theorems need it.
* **Freeze is external.** `FROZEN` and `CLOSED` are declared and checked but nothing
  in the repository sets them. `Freezable = {}` is the program as shipped, in which no
  deposit to an existing account is ever refused and no rollback happens; the runs with
  a freezable account check the rollback path that the code has for that case.
* Commands use every combination of accounts, including ones that do not exist and
  both sides missing, as the REST layer lets through. An account is created only with
  an id that no transaction names, since its id is random and not known earlier.
* The passing runs of the read side have one worker. With two overlapping ones its
  writes have no protection (finding 5).
* **One sequence per event.** A stored event is published once, at its position in
  commit order. Whether a forwarder that starts again publishes an event a second time
  under another sequence is decided by the library (`mongodb.NewFeed` and its
  `SetSeqRepository`); the guard of the projection, which compares positions only, could not tell.
* `CleanIndex` happens with the projection stopped. In `end_to_end` the faults of both
  consumers share one bound.
* A sequence or a listed balance beyond 2^53 loses precision in `repository.go:100-110`
  (decoded as `float64`); sequences in the models are exact.
* The stored resume token of the balance service is written and never read
  (`projection_resumer.go`): the model has it as `resume`, and `Restart` ignores it.
* Not modelled: the listing of all documents (Elasticsearch sorts it and, as no size is
  asked for, cuts it off), HTTP but for 404, `UpdateOwner` (nothing calls it), owner, kind and
  status of the documents, snapshots, consul, gRPC catch-up as something different from
  the bus, start-up, logging. The generator and the wrappers it has written
  (`*_gog.go`) add logging around the services, and `Setup` does not use them.
  The `/rebuild` endpoint that the repository's README mentions does not exist.

## 7. Plan

Done, in this order: aggregates and store, reactor with its workers and faults,
ledger and refinement, inductive invariant and first theorems, projection; then `int64`
and the theorem about withdrawals of any sign, the deletion of the index, overlapping
projections, and the composition of both services; then the proofs of every safety
property, of the refinement of the ledger, and of the composition.

What is left:

* what overlapping workers of the projection do keep (finding 5 says what they do not):
  the sequence of a document never names an event of another account;
* a version of `ServicesAgree` for accounts that may be frozen, which needs a kind of
  event that the read side ignores.

A lease as a module of its own (holder, expiry, a paused holder that goes on) would
model consul and the balancer library rather than code of this repository: that two
workers may overlap is all the services see of it, and `Worker` says just that.
