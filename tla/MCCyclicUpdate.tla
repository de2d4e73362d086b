---------------------------- MODULE MCCyclicUpdate ----------------------------
(* One callback or none, three cycles, one of three job results each,       *)
(* differences of two sizes, a first one that is cut.                       *)
EXTENDS CyclicUpdate
=============================================================================
