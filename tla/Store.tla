------------------------------- MODULE Store -------------------------------
(***************************************************************************)
(* The durable store of telegram-bot-mux (internal/store/store.go): the    *)
(* tables clients, updates and deliveries and the upstream offset.         *)
(*                                                                         *)
(* The database is used over one connection (db.SetMaxOpenConns(1)) and    *)
(* every write happens in a transaction, so a committed transaction is one *)
(* atomic action and a rolled back one changes nothing.  A GetUpdates call *)
(* is several transactions: this module defines each of them, and module   *)
(* Mux interleaves them.                                                   *)
(*                                                                         *)
(* On its own the store is run against an environment that may ingest any  *)
(* batch (redelivered and out of order ones included), acknowledge any     *)
(* offset and reopen the database under any configuration.                 *)
(*                                                                         *)
(* In this module and the ones above it a definition named Faulty... is    *)
(* the definition that follows it with a plausible mistake.  No action     *)
(* uses it; put in the other's place it breaks a property.                 *)
(***************************************************************************)
EXTENDS Integers, FiniteSets, FiniteSetsExt

CONSTANTS
    Client,       \* every client id some configuration names
    MaxId,        \* math.MaxInt64, scaled down
    PageLimit,    \* 100: the cap of one getUpdates page
    SafetyWindow, \* retention.acknowledged_safety_window
    Configs       \* the configurations the database may be opened with

UpdateId == 0..MaxId

Config == [clients    : SUBSET Client,
           maxPending : Nat \ {0},
           targets    : [UpdateId -> SUBSET Client]]

(***************************************************************************)
(* What config.Validate guarantees of a configuration: at least one        *)
(* client, a positive backlog limit, a nonnegative window, and every       *)
(* update routed to at least one configured client.                        *)
(***************************************************************************)
ASSUME StoreAssumption ==
    /\ MaxId \in Nat
    /\ PageLimit \in Nat \ {0}
    /\ SafetyWindow \in Nat
    /\ Configs # {}
    /\ \A k \in Configs :
          /\ k \in Config
          /\ k.clients # {}
          /\ \A u \in UpdateId : k.targets[u] # {} /\ k.targets[u] \subseteq k.clients

VARIABLES
    cfg,            \* the configuration of the running process (Store, Router)
    clients,        \* rows of table clients
    ackOffset,      \* clients.ack_offset, 0 for a client without a row
    updates,        \* update_id of the rows of table updates
    deliveries,     \* rows of table deliveries, pairs <<client, update>>
    upstreamOffset, \* schema_meta.upstream_offset, 0 before the first batch
    ingested        \* history: every update some committed batch contained

tables    == <<clients, ackOffset, updates, deliveries, upstreamOffset>>
storeVars == <<cfg, clients, ackOffset, updates, deliveries, upstreamOffset, ingested>>

----------------------------------------------------------------------------
(* Queries *)

PendingIn(rows, c) == {u \in UpdateId : <<c, u>> \in rows}
Pending(c)         == PendingIn(deliveries, c)

(* ORDER BY update_id LIMIT n, and ORDER BY update_id DESC LIMIT n *)
FirstN(S, n) == {u \in S : Cardinality({v \in S : v < u}) < n}
LastN(S, n)  == {u \in S : Cardinality({v \in S : v > u}) < n}

NormalizeLimit(n) == IF n \in 1..PageLimit THEN n ELSE PageLimit

(* Faulty: pages resume behind the offset; a page holds the newest. *)
FaultyQueryAfter(c, off, limit) ==
    FirstN({u \in Pending(c) : off = 0 \/ u > off}, NormalizeLimit(limit))
FaultyQueryNewest(c, off, limit) ==
    LastN({u \in Pending(c) : off = 0 \/ u >= off}, NormalizeLimit(limit))

(* The page of GetUpdates for an offset that is already resolved. *)
QueryUpdates(c, off, limit) ==
    FirstN({u \in Pending(c) : off = 0 \/ u >= off}, NormalizeLimit(limit))

(* Two's complement negation: the smallest integer is its own negation. *)
MinOffset   == -(MaxId + 1)
Negate(off) == IF off = MinOffset THEN off ELSE -off

(* The update a negative offset resolves to; a negative LIMIT is no limit. *)
NegativeOffset(c, count) ==
    LET last == IF count < 0 THEN Pending(c)
                             ELSE LastN(Pending(c), Min({count, PageLimit}))
    IN  IF last = {} THEN 0 ELSE Min(last)

----------------------------------------------------------------------------
(* Transactions *)

(* Acknowledged updates older than the safety window; rows is what is left *)
(* of table deliveries.                                                    *)
HighestRow     == IF updates = {} THEN 0 ELSE Max(updates)

(* Faulty: the window is one too small; pending updates are pruned too. *)
FaultyWindow(rows)    == {u \in updates : /\ u <= HighestRow - SafetyWindow + 1
                                            /\ \A c \in Client : <<c, u>> \notin rows}
FaultyUnchecked(rows) == {u \in updates : u <= HighestRow - SafetyWindow}

Prunable(rows) == {u \in updates : /\ u <= HighestRow - SafetyWindow
                                   /\ \A c \in Client : <<c, u>> \notin rows}

(* Faulty: the offset itself is acknowledged; so are other clients' rows. *)
FaultyThrough(c, off)   == {d \in deliveries : d[1] # c \/ d[2] > off}
FaultyEveryone(c, off)  == {d \in deliveries : d[2] >= off}

(* DELETE FROM deliveries WHERE client_id = c AND update_id < off: the rest. *)
Unacknowledged(c, off)  == {d \in deliveries : d[1] # c \/ d[2] >= off}

(* acknowledge(c, off), off > 0.  A deleted update row takes the delivery  *)
(* rows that refer to it along (ON DELETE CASCADE).                        *)
Acknowledge(c, off) ==
    LET left   == Unacknowledged(c, off)
        pruned == Prunable(left)
    IN  /\ deliveries' = {d \in left : d[2] \notin pruned}
        /\ updates' = updates \ pruned
        /\ ackOffset' = [ackOffset EXCEPT ![c] = IF c \in clients THEN Max({@, off}) ELSE @]
        /\ UNCHANGED <<cfg, clients, upstreamOffset, ingested>>

(* Faulty: the largest integer is incremented; a redelivered update is     *)
(* routed; the limit is compared before the insert.                        *)
FaultyIncrement(batch) == TRUE
FaultyReroute(batch)   == {d \in Client \X batch : d[1] \in cfg.targets[d[2]]}
FaultyFits(batch)      == \A c \in cfg.clients : Cardinality(Pending(c)) <= cfg.maxPending

(* incrementUpdateID fails for the largest integer. *)
CanIncrement(batch) == MaxId \notin batch

(* insertDeliveries fails on a target that has no row in table clients. *)
RoutesExist(batch) == \A u \in batch \ updates : cfg.targets[u] \subseteq clients

(* Only an update whose row is new is routed: a redelivered one is not. *)
RoutedBy(batch) == {d \in Client \X (batch \ updates) : d[1] \in cfg.targets[d[2]]}

BacklogFits(batch) ==
    \A c \in cfg.clients :
        Cardinality(PendingIn(deliveries \cup RoutedBy(batch), c)) <= cfg.maxPending

(* The offset in schema_meta only ever rises. *)
RaiseOffset(batch) == Max({upstreamOffset} \cup {u + 1 : u \in batch})

(* The outcomes of Ingest for a batch that is not empty: committed, rolled *)
(* back with ErrBacklogFull, rolled back with another error.  The limit is *)
(* examined after the whole batch was inserted.                            *)
IngestCommits(batch) ==
    /\ CanIncrement(batch)
    /\ RoutesExist(batch)
    /\ BacklogFits(batch)
    /\ updates' = updates \cup batch
    /\ deliveries' = deliveries \cup RoutedBy(batch)
    /\ upstreamOffset' = RaiseOffset(batch)
    /\ ingested' = ingested \cup batch
    /\ UNCHANGED <<cfg, clients, ackOffset>>

BacklogFull(batch) == CanIncrement(batch) /\ RoutesExist(batch) /\ ~BacklogFits(batch)
IngestFails(batch) == ~CanIncrement(batch) \/ ~RoutesExist(batch)

(* reconcileClients: register the configured clients, delete the others    *)
(* and, by ON DELETE CASCADE, their deliveries.                            *)
Reconcile(k) ==
    /\ clients' = k.clients
    /\ ackOffset' = [c \in Client |-> IF c \in k.clients THEN ackOffset[c] ELSE 0]
    /\ deliveries' = {d \in deliveries : d[1] \in k.clients}
    /\ UNCHANGED <<updates, upstreamOffset, ingested>>

Open(k) == cfg' = k /\ Reconcile(k)

----------------------------------------------------------------------------

(* A new database: migrate, then reconcileClients. *)
StoreInit ==
    /\ cfg \in Configs
    /\ clients = cfg.clients
    /\ ackOffset = [c \in Client |-> 0]
    /\ updates = {}
    /\ deliveries = {}
    /\ upstreamOffset = 0
    /\ ingested = {}

AnyIngest      == \E batch \in (SUBSET UpdateId) \ {{}} : IngestCommits(batch)
AnyAcknowledge == \E c \in cfg.clients, off \in UpdateId \ {0} : Acknowledge(c, off)
AnyOpen        == \E k \in Configs : Open(k)

StoreNext == AnyIngest \/ AnyAcknowledge \/ AnyOpen

StoreSpec == StoreInit /\ [][StoreNext]_storeVars

----------------------------------------------------------------------------
(* Properties *)

(* Every table and the history hold what their columns allow. *)
StoreTypeOK ==
    /\ cfg \in Configs
    /\ clients \subseteq Client
    /\ ackOffset \in [Client -> UpdateId]
    /\ updates \subseteq UpdateId
    /\ deliveries \subseteq Client \X UpdateId
    /\ upstreamOffset \in UpdateId
    /\ ingested \subseteq UpdateId

(* Every delivery row has its client and its update: a pending update that *)
(* counts against the backlog is also one the JOIN of queryUpdates returns *)
Referential == \A d \in deliveries : d[1] \in clients /\ d[2] \in updates

(* Everything stored lies below the upstream offset, and everything within *)
(* the safety window below it still has its row: prune (acknowledge) and   *)
(* the offset (ingestTransaction) agree on what is old.                    *)
WindowRetained ==
    /\ updates \subseteq ingested
    /\ \A u \in ingested : u < upstreamOffset
    /\ \A u \in ingested : u + SafetyWindow >= upstreamOffset => u \in updates

StoreInv == Referential /\ WindowRetained

(* An update is routed a second time only when it is older than the safety *)
(* window: ON CONFLICT DO NOTHING in insertUpdate absorbs the redelivery   *)
(* of every update the prune in acknowledge has not removed.               *)
RoutedOnceInWindow ==
    [][\A d \in deliveries' \ deliveries :
          d[2] \in ingested => d[2] + SafetyWindow < upstreamOffset]_storeVars

(* A client's acknowledgment takes nothing from another client: a step     *)
(* that removes deliveries of two clients, or any without an               *)
(* acknowledgment, removes them because their client was deconfigured.     *)
AcksAreIndependent ==
    [][\A d, e \in deliveries \ deliveries' :
          d[1] \in clients' /\ e[1] \in clients' => d[1] = e[1] /\ d[2] < ackOffset'[d[1]]]_storeVars

(* No queue grows past the limit of the configuration that routes to it,   *)
(* whatever limit it was filled under (enforceBacklogLimit).               *)
BacklogBound ==
    [][\A c \in Client :
          Cardinality(Pending(c)') > Cardinality(Pending(c)) =>
              Cardinality(Pending(c)') <= cfg.maxPending]_storeVars
=============================================================================
