------------------------------ MODULE MCPoller ------------------------------
(* Instances of the poller, with tools run beside it, for TLC. *)
EXTENDS Tools, TLC

CONSTANTS openclaw, unyolo

TwoClients == {openclaw, unyolo}

Broadcast(cs, limit) ==
    [clients |-> cs, maxPending |-> limit, targets |-> [u \in UpdateId |-> cs]]
Exclusive(limit) ==
    [clients |-> TwoClients, maxPending |-> limit,
     targets |-> [u \in UpdateId |-> {IF u % 2 = 0 THEN openclaw ELSE unyolo}]]

OneClient == {openclaw}

(* Safety: a policy change and the removal of a client between restarts. *)
SafetyConfigs == {Exclusive(1), Broadcast(OneClient, 2)}

(* The configuration file before and after a client was taken out. *)
EditedConfigs == {Broadcast(TwoClients, 2), Broadcast(OneClient, 2)}

(* The limit leaves no room for a full answer. *)
TightConfigs == {Broadcast(TwoClients, 1)}
=============================================================================
