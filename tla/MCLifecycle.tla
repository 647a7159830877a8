---------------------------- MODULE MCLifecycle ----------------------------
(* Instances of the process for TLC: two connections. *)
EXTENDS Lifecycle

CONSTANTS r1, r2

Requests == {r1, r2}
=============================================================================
