----------------------------- MODULE MCRecovery -----------------------------
(* Instances of backups and restorations for TLC. *)
EXTENDS Recovery, TLC

CONSTANT openclaw

OneClient  == {openclaw}

Broadcast(cs, limit) ==
    [clients |-> cs, maxPending |-> limit, targets |-> [u \in UpdateId |-> cs]]

RoomyConfigs == {Broadcast(OneClient, 2)}
=============================================================================
