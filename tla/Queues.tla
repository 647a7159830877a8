------------------------------- MODULE Queues -------------------------------
(***************************************************************************)
(* The multiplexer implements the queues of module FanOut.                 *)
(*                                                                         *)
(* A client's queue is what it is owed and has not had.  It is not the     *)
(* rows of table deliveries: a row stays after its update was received,    *)
(* until the client's next offset acknowledges it, and an answer that is   *)
(* lost or given up takes nothing from the queue.                          *)
(***************************************************************************)
EXTENDS Mux

QueueOf(c) == {u \in UpdateId : <<c, u>> \in owed} \ (seen[c] \cup forgotten[c])

F == INSTANCE FanOut WITH
        policy   <- cfg,
        arrived  <- ingested,
        queue    <- [c \in Client |-> QueueOf(c)],
        received <- seen,
        dropped  <- [c \in Client |-> forgotten[c] \ seen[c]]

(* Every step of the multiplexer is a step of the queues or none at all:   *)
(* routed once, in order, received or dropped from the front, and lost     *)
(* neither by transactions that interleave nor by a crash.                 *)
ImplementsFanOut == F!FanOutSpec

(* Every bot gets its updates in the order of the stream. *)
BotsSeeOrder == F!FanOutInv
=============================================================================
