------------------------------ MODULE MCSeqPlayer ------------------------------
(* Two tracks over three seconds of four nanoseconds, with events at the   *)
(* same time, a gap to sleep in, and two events a nanosecond apart that    *)
(* have the same seconds as a double: from the third second on, doubles    *)
(* are two nanoseconds apart.                                              *)
EXTENDS SeqPlayer

At(s, n) == [sec |-> s, ns |-> n]
TwoTracks == << <<At(0, 1), At(1, 3), At(2, 3)>>, <<At(0, 1), At(2, 2)>> >>

Rounded ==
  [t \in NTimes |-> IF t.sec < 2 THEN Value(t) ELSE 2 * (Value(t) \div 2)]
=============================================================================
