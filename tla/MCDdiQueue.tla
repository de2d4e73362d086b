----------------------------- MODULE MCDdiQueue ------------------------------
(* The documented use of the queue: one producer thread, one consumer.      *)
EXTENDS DdiQueue
=============================================================================
