------------------------------ MODULE MCStore ------------------------------
(* Instances of the store for TLC. *)
EXTENDS Store, TLC

CONSTANTS openclaw, unyolo

TwoClients == {openclaw, unyolo}

(* A configuration that broadcasts to cs, and one that routes exclusively: *)
(* even updates to one client, the others to the other.                    *)
Broadcast(cs, limit) ==
    [clients |-> cs, maxPending |-> limit, targets |-> [u \in UpdateId |-> cs]]
Exclusive(limit) ==
    [clients |-> TwoClients, maxPending |-> limit,
     targets |-> [u \in UpdateId |-> {IF u % 2 = 0 THEN openclaw ELSE unyolo}]]

(* Tighter and wider limits, a changed policy, a client removed. *)
MCConfigs == {Broadcast(TwoClients, 3), Exclusive(1), Broadcast({openclaw}, 2)}
=============================================================================
