------------------------------- MODULE FanOut -------------------------------
(***************************************************************************)
(* What telegram-bot-mux promises its clients, without transactions,       *)
(* offsets, requests or crashes: each client has a queue of its own.  An   *)
(* update that arrives is put, once and at the end, into the queue of      *)
(* every client the policy routes it to.  An update leaves a queue from    *)
(* the front only, because its client received it, because the client      *)
(* dropped it, or because the client was removed from the configuration.   *)
(*                                                                         *)
(* Module Queues shows that module Mux implements this.                    *)
(***************************************************************************)
EXTENDS Integers

CONSTANTS
    Client,   \* the clients
    UpdateId, \* the ids of the updates
    Configs   \* the policies the service may be started with

VARIABLES
    policy,   \* the policy in force
    arrived,  \* every update that arrived
    queue,    \* of each client, the updates it is owed
    received, \* of each client, the updates it received
    dropped   \* of each client, the updates it dropped without receiving

fanOutVars == <<policy, arrived, queue, received, dropped>>

(* P can be taken from the front of client c's queue. *)
IsFront(c, P) ==
    /\ P \subseteq queue[c]
    /\ \A u \in P, v \in queue[c] : v < u => v \in P

Extend(f, c, P) == [f EXCEPT ![c] = @ \cup P]
Reduce(f, c, P) == [f EXCEPT ![c] = @ \ P]

----------------------------------------------------------------------------

FanOutInit ==
    /\ policy \in Configs
    /\ arrived = {}
    /\ queue = [c \in Client |-> {}]
    /\ received = [c \in Client |-> {}]
    /\ dropped = [c \in Client |-> {}]

(* Updates arrive, after all that arrived before. *)
Arrive(B) ==
    /\ \A u \in B, v \in arrived : v < u
    /\ arrived' = arrived \cup B
    /\ queue' = [c \in Client |-> queue[c] \cup {u \in B : c \in policy.targets[u]}]
    /\ UNCHANGED <<policy, received, dropped>>

(* Client c receives the front P of its queue.  The answer may have been   *)
(* under way for a while: with it come updates the client dropped since.   *)
Receive(c, P, late) ==
    /\ IsFront(c, P)
    /\ late \subseteq dropped[c]
    /\ queue' = Reduce(queue, c, P)
    /\ received' = Extend(received, c, P \cup late)
    /\ dropped' = Reduce(dropped, c, late)
    /\ UNCHANGED <<policy, arrived>>

(* Client c drops the front of its queue. *)
Drop(c, P) ==
    /\ IsFront(c, P)
    /\ queue' = Reduce(queue, c, P)
    /\ dropped' = Extend(dropped, c, P)
    /\ UNCHANGED <<policy, arrived, received>>

(* The service is started with policy k, and clients k does not name lose  *)
(* their queues.                                                           *)
Reconfigure(k) ==
    /\ policy' = k
    /\ queue' = [c \in Client |-> IF c \in k.clients THEN queue[c] ELSE {}]
    /\ UNCHANGED <<arrived, received, dropped>>

FanOutNext ==
    \/ \E B \in SUBSET UpdateId : Arrive(B)
    \/ \E c \in Client, P, late \in SUBSET UpdateId : Receive(c, P, late)
    \/ \E c \in Client, P \in SUBSET UpdateId : Drop(c, P)
    \/ \E k \in Configs : Reconfigure(k)

FanOutSpec == FanOutInit /\ [][FanOutNext]_fanOutVars

----------------------------------------------------------------------------
(* Properties *)

(* What a client has had lies before all it is still owed: it sees its     *)
(* updates in the order of the stream (ORDER BY update_id), and each for   *)
(* the first time once.                                                    *)
InOrder ==
    \A c \in Client : \A u \in received[c] \cup dropped[c], v \in queue[c] : u < v

(* Every update a client has or is owed did arrive. *)
OnlyArrived == \A c \in Client : queue[c] \cup received[c] \cup dropped[c] \subseteq arrived

FanOutInv == InOrder /\ OnlyArrived
=============================================================================
