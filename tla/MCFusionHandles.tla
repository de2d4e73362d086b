---------------------------- MODULE MCFusionHandles ----------------------------
(* Two fusions on the first master and, if there are two, one on the other. *)
(* One of them has two UART modules, or each has one.                       *)
EXTENDS FusionHandles
CONSTANTS f1, f2, f3
MasterOfEach == [s \in Fusions |-> IF s = f3 THEN 1 ELSE 0]
OneWithUarts == [s \in Fusions |-> IF s = f2 THEN <<1, 0>> ELSE <<>>]
EachWithUarts == [s \in Fusions |-> <<0>>]
=============================================================================
