------------------------------- MODULE MCMux -------------------------------
(* Instances of the multiplexer for TLC. *)
EXTENDS Queues, TLC

CONSTANTS openclaw, unyolo, r1, r2

OneClient   == {openclaw}
TwoClients  == {openclaw, unyolo}
OneRequest  == {r1}
TwoRequests == {r1, r2}

Broadcast(cs, limit) ==
    [clients |-> cs, maxPending |-> limit, targets |-> [u \in UpdateId |-> cs]]

OneConfigs == {Broadcast(OneClient, 2)}

(* One pending update fills the queue. *)
FullConfigs == {Broadcast(OneClient, 1)}

(* Even updates to one bot, the others to the other. *)
Exclusive(limit) ==
    [clients |-> TwoClients, maxPending |-> limit,
     targets |-> [u \in UpdateId |-> {IF u % 2 = 0 THEN openclaw ELSE unyolo}]]

(* The policy changes, and a client is removed. *)
QueueConfigs == {Broadcast(TwoClients, 2), Exclusive(1), Broadcast(OneClient, 1)}

Minus1 == {-1}

(* The last update, and the smallest integer. *)
LastAndSmallest == {-1, MinOffset}
RequestSymmetry == Permutations(TwoRequests)
=============================================================================
