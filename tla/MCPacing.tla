------------------------------ MODULE MCPacing ------------------------------
(* Instances of the poller's pauses for TLC: a second is 4, durations have *)
(* eight bits, and the maximum is 5 seconds, no power of two.              *)
EXTENDS Pacing
=============================================================================
