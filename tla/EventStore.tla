------------------------------ MODULE EventStore ------------------------------
(***************************************************************************)
(* The MongoDB collection "events" that both repositories of the account   *)
(* service write to, as they use it: an append-only log of event records   *)
(* with two unique indexes,                                                *)
(*   unique_aggregate_version  (aggregate_id, aggregate_version)           *)
(*   idx_idempotency           (idempotency_key), empty keys exempted.     *)
(* The first makes Update an optimistic concurrency check, the second      *)
(* makes a keyed update happen at most once, whichever aggregate it is on. *)
(*                                                                         *)
(* The aggregates a client retrieves (the replay of their events) are kept *)
(* beside the log, so that Retrieve is a lookup.                           *)
(***************************************************************************)
EXTENDS BankDomain, Sequences

VARIABLES
  log,    \* the stored events, in commit order
  acc,    \* acc[a]: account a as Retrieve rebuilds it
  tx      \* tx[t]: transaction t as Retrieve rebuilds it

storeVars == <<log, acc, tx>>

StoreInit ==
  /\ log = << >>
  /\ acc = [a \in Account |-> NewAccount]
  /\ tx  = [t \in Tx |-> NewTransaction]

StoreTypeOK ==
  /\ log \in Seq(Event)
  /\ acc \in [Account -> AccountState]
  /\ tx  \in [Tx -> TransactionState]

HasIdempotencyKey(t, leg) ==
  \E i \in DOMAIN log : log[i].tx = t /\ log[i].leg = leg

VersionTaken(g, version) ==
  \E i \in DOMAIN log : log[i].agg = g /\ log[i].version = version

\* Mutant: the index on (aggregate_id, aggregate_version) is missing.
ConflictsOnKeyOnly(e) == e.leg # "none" /\ HasIdempotencyKey(e.tx, e.leg)

\* Would inserting this event violate one of the unique indexes?
Conflicts(e) ==
  \/ VersionTaken(e.agg, e.version)
  \/ e.leg # "none" /\ HasIdempotencyKey(e.tx, e.leg)

StoreAccountEvent(e) ==
  /\ ~Conflicts(e)
  /\ log' = Append(log, e)
  /\ acc' = [acc EXCEPT ![e.agg] = HandleAccountEvent(@, e)]
  /\ UNCHANGED tx

StoreTransactionEvent(e) ==
  /\ ~Conflicts(e)
  /\ log' = Append(log, e)
  /\ tx' = [tx EXCEPT ![e.agg] = HandleTransactionEvent(@, e)]
  /\ UNCHANGED acc
===============================================================================
