--------------------------------- MODULE NTime ---------------------------------
(* Times of seconds and nanoseconds (ddi_ntime.c).  The loops that carry and *)
(* borrow a second at a time are written as a quotient and a remainder; the  *)
(* seconds wrap as the 32-bit field does.                                    *)
EXTENDS Integers

CONSTANTS
  NSEC_PER_SEC,  \* nanoseconds in a second
  SecWidth       \* the values a seconds field takes, 2^32

ASSUME NTimeAssumption ==
  /\ NSEC_PER_SEC \in Nat /\ NSEC_PER_SEC > 0
  /\ SecWidth \in Nat /\ SecWidth > 0

Seconds == 0 .. SecWidth - 1
NTimes == [sec : Seconds, ns : 0 .. NSEC_PER_SEC - 1]

Zero == [sec |-> 0, ns |-> 0]

(* The nanoseconds a time stands for *)
Value(t) == t.sec * NSEC_PER_SEC + t.ns

(* ddi_ntime_diff_ns *)
DiffNs(t0, t1) ==
  LET dt_sec == t0.sec - t1.sec
  IN IF dt_sec = 0 THEN t0.ns - t1.ns
     ELSE IF dt_sec < 0 THEN (dt_sec + 1) * NSEC_PER_SEC - ((NSEC_PER_SEC - t0.ns) + t1.ns)
     ELSE (dt_sec - 1) * NSEC_PER_SEC + ((NSEC_PER_SEC - t1.ns) + t0.ns)

(* The time of sec seconds and nsec nanoseconds, nsec of any size and sign *)
Normalized(sec, nsec) ==
  [sec |-> (sec + nsec \div NSEC_PER_SEC) % SecWidth, ns |-> nsec % NSEC_PER_SEC]

(* ddi_ntime_add_ns *)
AddNs(t0, sec, ns) == Normalized(t0.sec + sec, ns + t0.ns)

(* Mutant: the borrowed second is not paid back. *)
SubNsNoBorrow(t0, sec, ns) ==
  IF t0.sec < sec \/ (t0.sec = sec /\ t0.ns <= ns) THEN Zero
  ELSE [sec |-> (t0.sec - sec) % SecWidth, ns |-> (t0.ns - ns) % NSEC_PER_SEC]

(* ddi_ntime_sub_ns: nothing is earlier than zero *)
SubNs(t0, sec, ns) ==
  IF t0.sec < sec \/ (t0.sec = sec /\ t0.ns <= ns) THEN Zero
  ELSE Normalized(t0.sec - sec, t0.ns - ns)
=============================================================================
