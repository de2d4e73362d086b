------------------------------ MODULE TimingProofs ------------------------------
(***************************************************************************)
(* Two parts that nothing but time puts in order: the player of timed      *)
(* sequences, and the calibration of a thermocouple card.                  *)
(*                                                                         *)
(* The sequence player calls its events in order and on time, for any      *)
(* tracks, length of a second and latency of the scheduler, and any calls  *)
(* of the application.  It rests on the arithmetic of ddi_ntime.c, which   *)
(* is that of nanoseconds: the borrows of DiffNs and the carries of AddNs  *)
(* and SubNs lose nothing.  The invariant follows the player around its    *)
(* loop: how far the time of the call may have come at each place of it,   *)
(* against the times of the events that are left.                          *)
(*                                                                         *)
(* The calibration sets what it should and reads what it asked for, for    *)
(* any channels and samples and any frames lost that its sleeps make up    *)
(* for.  Its programs are put together from pieces; what matters of a      *)
(* piece is how its reads, commands and sleeps lie, and putting pieces     *)
(* together keeps that.  The invariant follows a command to the card and   *)
(* its answer back, against the cycles of the sleep.                       *)
(***************************************************************************)
EXTENDS SeqPlayer, TcCalibration, SequenceTheorems, WellFoundedInduction, TLAPS

----------------------------------------------------------------------------
(* Times *)

(* Seconds add up, and more seconds are not less. *)
LEMMA Distributes ==
  ASSUME NEW a \in Int, NEW b \in Int, NEW n \in Int
  PROVE  (a + b) * n = a * n + b * n /\ (a - b) * n = a * n - b * n
  BY SMT

LEMMA Grows ==
  ASSUME NEW a \in Int, NEW b \in Int, NEW n \in Nat, a <= b
  PROVE  a * n <= b * n
  <1>1. PICK d \in Nat : b = a + d
    BY SMT
  <1>2. d * n >= 0
    BY SMT
  <1> QED
    BY <1>1, <1>2, Distributes

(* A quotient and a remainder are what was divided. *)
LEMMA Division ==
  ASSUME NEW x \in Int, NEW n \in Nat, n > 0
  PROVE  /\ x \div n \in Int
         /\ x % n \in 0 .. n - 1
         /\ x = (x \div n) * n + (x % n)
  BY SMT

(* Seconds and nanoseconds that carry keep their value, unless the seconds *)
(* go out of the field.                                                    *)
LEMMA NormalizedValue ==
  ASSUME NEW sec \in Int, NEW nsec \in Int,
         sec * NSEC_PER_SEC + nsec \in 0 .. SecWidth * NSEC_PER_SEC - 1
  PROVE  /\ Normalized(sec, nsec) \in NTimes
         /\ Value(Normalized(sec, nsec)) = sec * NSEC_PER_SEC + nsec
  <1> DEFINE N == NSEC_PER_SEC  q == nsec \div N  r == nsec % N  s == sec + q
  <1>1. q \in Int /\ r \in 0 .. N - 1 /\ nsec = q * N + r
    BY Division, NTimeAssumption
  <1>2. sec * N + nsec = s * N + r
    <2>1. s * N = sec * N + q * N
      BY <1>1, Distributes, NTimeAssumption
    <2>2. sec * N \in Int /\ q * N \in Int
      BY <1>1, NTimeAssumption
    <2> QED
      BY <1>1, <2>1, <2>2
  <1>3. s \in Seconds
    <2> s * N \in Int /\ s \in Int /\ SecWidth * N \in Int
      BY <1>1, NTimeAssumption
    <2>1. ~(s <= -1)
      BY <1>1, <1>2, Grows, NTimeAssumption
    <2>2. ~(SecWidth <= s)
      BY <1>1, <1>2, Grows, NTimeAssumption
    <2> QED
      BY <2>1, <2>2, NTimeAssumption DEF Seconds
  <1>4. s % SecWidth = s
    BY <1>3, NTimeAssumption DEF Seconds
  <1>5. Normalized(sec, nsec) = [sec |-> s, ns |-> r]
    BY <1>4 DEF Normalized
  <1> QED
    BY <1>1, <1>2, <1>3, <1>5 DEF NTimes, Value

(* ddi_ntime_diff_ns: the difference of two times is that of their         *)
(* nanoseconds, whichever is later and however far they are apart.         *)
THEOREM DiffIsDifference ==
  ASSUME NEW t0 \in NTimes, NEW t1 \in NTimes
  PROVE  DiffNs(t0, t1) = Value(t0) - Value(t1)
  <1> DEFINE N == NSEC_PER_SEC  d == t0.sec - t1.sec
  <1>1. /\ t0.sec \in Int /\ t1.sec \in Int /\ t0.ns \in Int /\ t1.ns \in Int
        /\ N \in Int /\ d \in Int
    BY NTimeAssumption DEF NTimes, Seconds
  <1>2. d * N = t0.sec * N - t1.sec * N
    BY <1>1, Distributes
  <1>3. (d + 1) * N = d * N + N /\ (d - 1) * N = d * N - N
    BY <1>1, SMT
  <1>4. t0.sec * N \in Int /\ t1.sec * N \in Int
    BY <1>1
  <1>5. CASE d = 0
    <2>1. t0.sec = t1.sec
      BY <1>1, <1>5
    <2> QED
      BY <1>1, <1>4, <1>5, <2>1 DEF DiffNs, Value
  <1>6. CASE d # 0
    BY <1>1, <1>2, <1>3, <1>4, <1>6 DEF DiffNs, Value
  <1> QED
    BY <1>5, <1>6

(* ddi_ntime_add_ns: any seconds and nanoseconds may be added, as long as  *)
(* the sum fits the seconds field.                                         *)
THEOREM AddIsSum ==
  ASSUME NEW t0 \in NTimes, NEW sec \in Nat, NEW ns \in Nat,
         Value(t0) + sec * NSEC_PER_SEC + ns < SecWidth * NSEC_PER_SEC
  PROVE  /\ AddNs(t0, sec, ns) \in NTimes
         /\ Value(AddNs(t0, sec, ns)) = Value(t0) + sec * NSEC_PER_SEC + ns
  <1> DEFINE N == NSEC_PER_SEC
  <1>1. t0.sec \in Nat /\ t0.ns \in Nat /\ N \in Nat /\ SecWidth \in Nat
    BY NTimeAssumption DEF NTimes, Seconds
  <1>2. (t0.sec + sec) * N = t0.sec * N + sec * N
    BY <1>1, Distributes
  <1>3. t0.sec * N \in Nat /\ sec * N \in Nat /\ SecWidth * N \in Nat
    BY <1>1, SMT
  <1>4. (t0.sec + sec) * N + (ns + t0.ns) = Value(t0) + sec * N + ns
    BY <1>1, <1>2, <1>3 DEF Value
  <1>5. (t0.sec + sec) * N + (ns + t0.ns) \in 0 .. SecWidth * N - 1
    BY <1>1, <1>3, <1>4 DEF Value
  <1> QED
    BY <1>1, <1>4, <1>5, NormalizedValue DEF AddNs

(* ddi_ntime_sub_ns: what is subtracted, of less than a second's           *)
(* nanoseconds, is paid back exactly, and nothing is earlier than zero.    *)
THEOREM SubIsDifference ==
  ASSUME NEW t0 \in NTimes, NEW sec \in Nat, NEW ns \in 0 .. NSEC_PER_SEC - 1
  PROVE  LET left == Value(t0) - (sec * NSEC_PER_SEC + ns)
         IN  /\ SubNs(t0, sec, ns) \in NTimes
             /\ Value(SubNs(t0, sec, ns)) = IF left > 0 THEN left ELSE 0
  <1> DEFINE N == NSEC_PER_SEC  left == Value(t0) - (sec * N + ns)
             early == t0.sec < sec \/ (t0.sec = sec /\ t0.ns <= ns)
  <1>1. /\ t0.sec \in 0 .. SecWidth - 1 /\ t0.ns \in 0 .. N - 1 /\ ns \in 0 .. N - 1
        /\ N \in Nat /\ N > 0 /\ SecWidth \in Nat /\ SecWidth > 0
    BY NTimeAssumption DEF NTimes, Seconds
  <1>2. t0.sec * N \in Nat /\ sec * N \in Nat /\ SecWidth * N \in Nat
    BY <1>1, SMT
  <1>3. CASE early
    <2>1. left <= 0
      <3>1. CASE t0.sec + 1 <= sec
        <4>1. (t0.sec + 1) * N <= sec * N /\ (t0.sec + 1) * N = t0.sec * N + N
          BY <1>1, <3>1, Grows, Distributes, SMT
        <4> QED
          BY <1>1, <1>2, <4>1 DEF Value
      <3>2. CASE t0.sec = sec /\ t0.ns <= ns
        BY <1>1, <1>2, <3>2 DEF Value
      <3> QED
        BY <1>1, <1>3, <3>1, <3>2
    <2>2. SubNs(t0, sec, ns) = Zero
      BY <1>3 DEF SubNs
    <2>3. Zero \in NTimes /\ Value(Zero) = 0
      BY <1>1 DEF Zero, NTimes, Seconds, Value
    <2> QED
      BY <2>1, <2>2, <2>3, <1>1, <1>2 DEF Value
  <1>4. CASE ~early
    <2>1. left > 0
      <3>1. CASE sec + 1 <= t0.sec
        <4>1. (sec + 1) * N <= t0.sec * N /\ (sec + 1) * N = sec * N + N
          BY <1>1, <3>1, Grows, Distributes, SMT
        <4> QED
          BY <1>1, <1>2, <4>1 DEF Value
      <3>2. CASE t0.sec = sec /\ t0.ns > ns
        BY <1>1, <1>2, <3>2 DEF Value
      <3> QED
        BY <1>1, <1>4, <3>1, <3>2
    <2>2. (t0.sec - sec) * N + (t0.ns - ns) = left
      BY <1>1, <1>2, Distributes DEF Value
    <2>3. Value(t0) < SecWidth * N
      <3>1. (t0.sec + 1) * N <= SecWidth * N /\ (t0.sec + 1) * N = t0.sec * N + N
        BY <1>1, Grows, Distributes, SMT
      <3> QED
        BY <1>1, <1>2, <3>1 DEF Value
    <2>4. (t0.sec - sec) * N + (t0.ns - ns) \in 0 .. SecWidth * N - 1
      BY <1>1, <1>2, <2>1, <2>2, <2>3 DEF Value
    <2>5. SubNs(t0, sec, ns) = Normalized(t0.sec - sec, t0.ns - ns)
      BY <1>4 DEF SubNs
    <2> QED
      BY <1>1, <2>1, <2>2, <2>4, <2>5, NormalizedValue
  <1> QED
    BY <1>3, <1>4

(* A time is a natural number of nanoseconds. *)
LEMMA ValueIsNat == ASSUME NEW t \in NTimes PROVE Value(t) \in Nat
  <1>1. t.sec \in Nat /\ t.ns \in Nat /\ NSEC_PER_SEC \in Nat
    BY NTimeAssumption DEF NTimes, Seconds
  <1> QED
    BY <1>1 DEF Value

LEMMA ZeroIsTime == Zero \in NTimes /\ Value(Zero) = 0
  BY NTimeAssumption DEF Zero, NTimes, Seconds, Value

(* The time between two times is what ddi_ntime_sub_ns leaves of the       *)
(* later.                                                                  *)
LEMMA SubOfTimes ==
  ASSUME NEW t0 \in NTimes, NEW t1 \in NTimes, Value(t1) <= Value(t0)
  PROVE  /\ SubNs(t0, t1.sec, t1.ns) \in NTimes
         /\ Value(SubNs(t0, t1.sec, t1.ns)) = Value(t0) - Value(t1)
  <1>1. t1.sec \in Nat /\ t1.ns \in 0 .. NSEC_PER_SEC - 1
    BY NTimeAssumption DEF NTimes, Seconds
  <1>2. Value(t1) = t1.sec * NSEC_PER_SEC + t1.ns
    BY DEF Value
  <1>3. Value(t0) \in Nat /\ Value(t1) \in Nat
    BY ValueIsNat
  <1>4. /\ SubNs(t0, t1.sec, t1.ns) \in NTimes
        /\ Value(SubNs(t0, t1.sec, t1.ns)) =
             IF Value(t0) - Value(t1) > 0 THEN Value(t0) - Value(t1) ELSE 0
    BY <1>1, <1>2, SubIsDifference
  <1> QED
    BY <1>3, <1>4

----------------------------------------------------------------------------
(* Events *)

(* Where a track can stand *)
Indices == {i \in [DOMAIN Track -> Nat] : \A t \in DOMAIN Track : i[t] <= Len(Track[t])}

(* The time, in nanoseconds, of the next event of a track *)
Due(i, t) == Value(EventTime(i, t))

LEMMA Tracks ==
  /\ DOMAIN Track \in SUBSET Nat
  /\ \A t \in DOMAIN Track : Track[t] \in Seq(NTimes) /\ Len(Track[t]) \in Nat \ {0}
  <1>1. Track \in Seq(Seq(NTimes) \ {<<>>})
    BY SeqAssumption
  <1>2. ASSUME NEW t \in DOMAIN Track PROVE Track[t] \in Seq(NTimes) \ {<<>>}
    BY <1>1, ElementOfSeq
  <1>3. ASSUME NEW s \in Seq(NTimes), s # <<>> PROVE Len(s) \in Nat \ {0}
    BY <1>3, EmptySeq
  <1>4. DOMAIN Track \in SUBSET Nat
    BY <1>1
  <1> QED
    BY <1>2, <1>3, <1>4

LEMMA DueIsNat ==
  ASSUME NEW i \in Indices, NEW t \in Pending(i)
  PROVE  t \in Nat /\ EventTime(i, t) \in NTimes /\ Due(i, t) \in Nat
  <1>1. t \in DOMAIN Track /\ i[t] \in Nat /\ i[t] < Len(Track[t])
    BY DEF Pending, Indices
  <1>2. Track[t] \in Seq(NTimes) /\ i[t] + 1 \in 1 .. Len(Track[t]) /\ t \in Nat
    BY <1>1, Tracks
  <1>3. EventTime(i, t) \in NTimes
    BY <1>2, ElementOfSeq DEF EventTime
  <1> QED
    BY <1>2, <1>3, ValueIsNat DEF Due

LEMMA LeastOf ==
  ASSUME NEW T \in SUBSET Nat, T # {}
  PROVE  \E i \in T : \A j \in T : i <= j
  <1>1. PICK i \in T : \A j \in T : <<j, i>> \notin OpToRel(<, Nat)
    BY NatLessThanWellFounded, WFMin
  <1>2. \A j \in T : ~(j < i)
    BY <1>1 DEF OpToRel
  <1> QED
    BY <1>2

(* seq_get_next_event finds an event if there is one, and the earliest.    *)
LEMMA NextIsFirst ==
  ASSUME NEW i \in Indices, Pending(i) # {}
  PROVE  /\ NextTrack(i) \in Pending(i)
         /\ \A u \in Pending(i) : Due(i, NextTrack(i)) <= Due(i, u)
  <1> DEFINE First(t) == \A u \in Pending(i) :
               LET d == DiffNs(EventTime(i, t), EventTime(i, u)) IN d < 0 \/ (d = 0 /\ t <= u)
             dues == {Due(i, t) : t \in Pending(i)}
  <1>1. \A t, u \in Pending(i) : DiffNs(EventTime(i, t), EventTime(i, u)) = Due(i, t) - Due(i, u)
    BY DueIsNat, DiffIsDifference DEF Due
  <1>2. PICK least \in dues : \A d \in dues : least <= d
    <2>1. dues \in SUBSET Nat /\ dues # {}
      BY DueIsNat
    <2> QED
      BY <2>1, LeastOf
  <1> DEFINE firsts == {t \in Pending(i) : Due(i, t) = least}
  <1>3. PICK t \in firsts : \A u \in firsts : t <= u
    <2>1. firsts \in SUBSET Nat /\ firsts # {}
      BY DueIsNat
    <2> QED
      BY <2>1, LeastOf
  <1>4. First(t)
    <2> SUFFICES ASSUME NEW u \in Pending(i)
                 PROVE  \/ DiffNs(EventTime(i, t), EventTime(i, u)) < 0
                        \/ DiffNs(EventTime(i, t), EventTime(i, u)) = 0 /\ t <= u
      OBVIOUS
    <2>1. Due(i, t) = least /\ Due(i, t) \in Nat /\ Due(i, u) \in Nat /\ least <= Due(i, u)
      BY <1>2, DueIsNat
    <2>2. Due(i, u) = least => t <= u
      BY <1>3
    <2> QED
      BY <1>1, <2>1, <2>2
  <1>5. NextTrack(i) = CHOOSE n \in Pending(i) : First(n)
    BY DEF NextTrack
  <1>6. NextTrack(i) \in Pending(i) /\ First(NextTrack(i))
    <2> HIDE DEF First
    <2> QED
      BY <1>4, <1>5
  <1>7. ASSUME NEW u \in Pending(i) PROVE Due(i, NextTrack(i)) <= Due(i, u)
    <2> DEFINE d == DiffNs(EventTime(i, NextTrack(i)), EventTime(i, u))
    <2>1. Due(i, NextTrack(i)) \in Nat /\ Due(i, u) \in Nat
      BY <1>6, <1>7, DueIsNat
    <2>2. d = Due(i, NextTrack(i)) - Due(i, u)
      BY <1>1, <1>6, <1>7
    <2>3. d < 0 \/ d = 0
      BY <1>6, <1>7
    <2> HIDE DEF d
    <2> QED
      BY <2>1, <2>2, <2>3
  <1> QED
    BY <1>6, <1>7

(* An event that was called is behind; what its track has next is later.   *)
LEMMA NextIsLater ==
  ASSUME NEW i \in Indices, NEW n \in Pending(i), NEW j, j = [i EXCEPT ![n] = @ + 1]
  PROVE  /\ j \in Indices /\ Pending(j) \subseteq Pending(i)
         /\ \A u \in Pending(j) : Due(i, u) <= Due(j, u)
  <1>1. n \in DOMAIN Track /\ i[n] \in Nat /\ i[n] < Len(Track[n]) /\ Len(Track[n]) \in Nat
    BY Tracks DEF Pending, Indices
  <1>2. j \in Indices
    BY <1>1, Tracks DEF Indices
  <1>3. \A u \in DOMAIN Track : j[u] = IF u = n THEN i[u] + 1 ELSE i[u]
    BY <1>1 DEF Indices
  <1>4. Pending(j) \subseteq Pending(i)
    BY <1>1, <1>3, Tracks DEF Pending
  <1>5. ASSUME NEW u \in Pending(j) PROVE Due(i, u) <= Due(j, u)
    <2>1. CASE u # n
      <3>1. Due(j, u) = Due(i, u)
        BY <1>3, <2>1 DEF Due, EventTime, Pending
      <3>2. Due(i, u) \in Nat
        BY <1>4, DueIsNat
      <3> QED
        BY <3>1, <3>2
    <2>2. CASE u = n
      <3>1. j[n] = i[n] + 1 /\ i[n] + 1 \in DOMAIN Track[n] /\ i[n] + 2 \in DOMAIN Track[n]
        BY <1>1, <1>3, <2>2, Tracks, <1>5 DEF Pending
      <3>2. Value(Track[n][i[n] + 1]) <= Value(Track[n][i[n] + 2])
        BY <1>1, <3>1, SeqAssumption
      <3> QED
        BY <1>1, <2>2, <3>1, <3>2 DEF Due, EventTime
    <2> QED
      BY <2>1, <2>2
  <1> QED
    BY <1>2, <1>4, <1>5

(* The latest of the last events' times, where seq_run is to stop, is one. *)
LEMMA LastTimeIsTime == LastTime \in NTimes
  <1> DEFINE times == {Zero} \cup {Track[t][Len(Track[t])] : t \in DOMAIN Track}
             bound == SecWidth * NSEC_PER_SEC
             short == {bound - Value(v) : v \in times}
  <1>1. bound \in Nat
    BY NTimeAssumption
  <1>2. ASSUME NEW t \in NTimes PROVE Value(t) \in Nat /\ Value(t) <= bound
    <2>1. t.sec \in Nat /\ t.sec + 1 <= SecWidth /\ t.ns \in 0 .. NSEC_PER_SEC - 1
      BY NTimeAssumption DEF NTimes, Seconds
    <2>2. (t.sec + 1) * NSEC_PER_SEC <= bound
      BY <2>1, Grows, NTimeAssumption
    <2>3. (t.sec + 1) * NSEC_PER_SEC = t.sec * NSEC_PER_SEC + NSEC_PER_SEC
      BY <2>1, Distributes, NTimeAssumption
    <2>4. t.sec * NSEC_PER_SEC \in Nat /\ NSEC_PER_SEC \in Nat
      BY <2>1, NTimeAssumption
    <2> HIDE DEF bound
    <2> QED
      BY <1>1, <2>1, <2>2, <2>3, <2>4 DEF Value
  <1>3. ASSUME NEW t \in DOMAIN Track PROVE Track[t][Len(Track[t])] \in NTimes
    BY Tracks, ElementOfSeq
  <1> HIDE DEF bound
  <1>4. \A v \in times : v \in NTimes /\ Value(v) \in Nat /\ Value(v) <= bound
    BY <1>1, <1>2, <1>3, ZeroIsTime
  <1>5. short \in SUBSET Nat /\ short # {}
    BY <1>1, <1>4
  <1>6. PICK s \in short : \A r \in short : s <= r
    BY <1>5, LeastOf
  <1>7. PICK x \in times : s = bound - Value(x)
    BY <1>6
  <1>8. ASSUME NEW y \in times PROVE Value(y) <= Value(x)
    <2>1. bound - Value(y) \in short
      BY <1>8
    <2> HIDE DEF times, short
    <2> QED
      BY <1>1, <1>4, <1>6, <1>7, <1>8, <2>1
  <1>9. LastTime = CHOOSE t \in times : \A u \in times : Value(u) <= Value(t)
    BY DEF LastTime
  <1>10. LastTime \in times
    <2> HIDE DEF times
    <2> QED
      BY <1>8, <1>9
  <1> QED
    BY <1>4, <1>10

(* Rounding exchanges no times: the later double is of the later time.     *)
LEMMA AfterIsLater ==
  ASSUME NEW t \in NTimes, NEW u \in NTimes, After(t, u)
  PROVE  Value(t) > Value(u)
  <1>1. ddi_ntime_to_time[t] \in Nat /\ ddi_ntime_to_time[u] \in Nat
    BY SeqAssumption
  <1>2. ~ (Value(t) <= Value(u))
    BY <1>1, SeqAssumption DEF After
  <1> QED
    BY <1>2, ValueIsNat

----------------------------------------------------------------------------
(* The player *)

(* What bounds the clock of the model: 32 bits of seconds, which are 136   *)
(* years after the system has started.                                     *)
ClockFits == MaxClock < SecWidth * NSEC_PER_SEC

(* Sequence time is never ahead of the clock; in a call its origin and     *)
(* the clock tell the time, which the loop knows where it compares.        *)
TimeInv ==
  /\ Value(clock) <= MaxClock
  /\ Value(ntime) <= Value(clock)
  /\ ticked => at = "refresh"
  /\ at # "idle" =>
       /\ Pending(idx) # {} /\ status = "running"
       /\ Value(T0) <= Value(clock) /\ elapsed = Value(clock) - Value(T0)
  /\ at = "test" => Value(Tseq) = elapsed

(* How late the player may be for an event that is left: asleep it is to   *)
(* wake up in time for it, and each turn of the loop costs a nanosecond.   *)
LateInv ==
  \A t \in Pending(idx) :
    /\ at = "test" => elapsed <= Due(idx, t) + 1 \/ elapsed <= from + 1
    /\ at = "sleep" => /\ Value(clock) <= wake + wake_latency
                       /\ wake + wake_latency <= Value(T0) + Due(idx, t)
    /\ at = "refresh" => /\ ticked => elapsed <= Due(idx, t) + 1
                         /\ ~ticked => elapsed <= Due(idx, t)

(* No event is left that is earlier than one already called, and none that *)
(* was due is left by a run that went well.                                *)
OrderInv ==
  /\ \A t \in Pending(idx) : Due(idx, t) >= heard
  /\ status = "ok" => \A t \in Pending(idx) : Due(idx, t) > Value(tstop)

PlayInv == TypeOK /\ TimeInv /\ LateInv /\ OrderInv

(* The types, as the proofs use them *)
LEMMA TypeFacts ==
  ASSUME TypeOK
  PROVE  /\ idx \in Indices
         /\ clock \in NTimes /\ ntime \in NTimes /\ T0 \in NTimes /\ Tseq \in NTimes
         /\ Value(clock) \in Nat /\ Value(ntime) \in Nat /\ Value(T0) \in Nat
         /\ Value(Tseq) \in Nat
         /\ tstop \in NTimes /\ Value(tstop) \in Nat /\ wake \in Nat /\ calls \in Nat /\ from \in Nat /\ elapsed \in Nat
         /\ heard \in Nat /\ ticked \in BOOLEAN
         /\ wake_latency \in Nat /\ scheduler_uncertainty \in Nat /\ MaxClock \in Nat
  BY ValueIsNat, SeqAssumption DEF TypeOK, Indices

LEMMA InitPlays == Init => PlayInv
  <1> SUFFICES ASSUME Init PROVE PlayInv
    OBVIOUS
  <1>1. idx \in Indices
    BY Tracks DEF Init, Indices
  <1>2. TypeOK
    <2>1. {clock, ntime, T0, Tseq, tstop} \subseteq NTimes
      BY ZeroIsTime DEF Init
    <2>2. {wake, calls, from, elapsed, heard} \subseteq Nat
      BY DEF Init
    <2> QED
      BY <1>1, <2>1, <2>2 DEF Init, TypeOK, Indices
  <1>3. \A t \in Pending(idx) : Due(idx, t) \in Nat
    BY <1>1, DueIsNat
  <1> QED
    BY <1>2, <1>3, ZeroIsTime, SeqAssumption DEF Init, PlayInv, TimeInv, LateInv, OrderInv

(* The next event and the time until it, where the loop looks at them      *)
LEMMA Comparison ==
  ASSUME TypeOK, TimeInv, at = "test"
  PROVE  LET n == NextTrack(idx)
         IN  /\ n \in Pending(idx) /\ Due(idx, n) \in Nat
             /\ \A t \in Pending(idx) : Due(idx, n) <= Due(idx, t)
             /\ Value(Tevent) = Due(idx, n)
             /\ dt = elapsed - Due(idx, n)
  <1>1. Pending(idx) # {} /\ Value(Tseq) = elapsed
    BY DEF TimeInv
  <1>2. NextTrack(idx) \in Pending(idx) /\ EventTime(idx, NextTrack(idx)) \in NTimes
    BY <1>1, TypeFacts, NextIsFirst, DueIsNat
  <1>3. dt = Value(Tseq) - Due(idx, NextTrack(idx))
    BY <1>2, TypeFacts, DiffIsDifference DEF dt, Tevent, Due
  <1> QED
    BY <1>1, <1>2, <1>3, TypeFacts, NextIsFirst, DueIsNat DEF Tevent, Due

(* The application's calls *)
LEMMA CallPlays ==
  ASSUME PlayInv, NEW stop \in NTimes, Call(stop)
  PROVE  PlayInv'
  <1> USE TypeFacts DEF PlayInv
  <1>1. /\ at = "idle" /\ tstop' = stop /\ calls' = calls + 1
        /\ UNCHANGED <<clock, ntime, idx, ticked, heard>>
    BY DEF Call
  <1>2. ticked' = FALSE
    BY <1>1 DEF TimeInv
  <1>3. CASE Pending(idx) = {}
    <2>1. Return("not_ok")
      BY <1>3 DEF Call
    <2>2. TypeOK'
      BY <1>1, <2>1, ZeroIsTime DEF TypeOK, Return
    <2>3. TimeInv' /\ OrderInv'
      BY <1>1, <1>2, <1>3, <2>1 DEF TimeInv, OrderInv, Return, Pending
    <2>4. LateInv'
      BY <2>1 DEF LateInv, Return
    <2> QED
      BY <2>2, <2>3, <2>4
  <1>4. CASE Pending(idx) # {}
    <2>1. /\ at' = "test" /\ status' = "running" /\ wake' = wake
          /\ Tseq' = ntime /\ T0' = SubNs(clock, ntime.sec, ntime.ns)
          /\ from' = Value(ntime) /\ elapsed' = Value(ntime)
      BY <1>4 DEF Call
    <2>2. T0' \in NTimes /\ Value(T0') = Value(clock) - Value(ntime)
      BY <2>1, SubOfTimes DEF TimeInv
    <2>3. TypeOK'
      <3>1. {clock', ntime', T0', Tseq', tstop'} \subseteq NTimes
        BY <1>1, <2>1, <2>2
      <3>2. {wake', calls', from', elapsed', heard'} \subseteq Nat
        BY <1>1, <2>1
      <3> QED
        BY <1>1, <2>1, <3>1, <3>2 DEF TypeOK
    <2>4. TimeInv'
      BY <1>1, <1>2, <1>4, <2>1, <2>2 DEF TimeInv, Pending
    <2>5. LateInv'
      BY <2>1 DEF LateInv
    <2>6. OrderInv'
      BY <1>1, <2>1 DEF OrderInv, Pending, Due, EventTime
    <2> QED
      BY <2>3, <2>4, <2>5, <2>6
  <1> QED
    BY <1>3, <1>4

LEMMA SetIndexPlays == PlayInv /\ seq_set_index => PlayInv'
  <1> SUFFICES ASSUME PlayInv, seq_set_index PROVE PlayInv'
    OBVIOUS
  <1> USE TypeFacts DEF PlayInv
  <1>1. /\ at = "idle" /\ at' = "idle" /\ heard' = 0 /\ status' = "set" /\ calls' = calls + 1
        /\ UNCHANGED <<clock, ntime, T0, Tseq, tstop, wake, ticked, from, elapsed>>
    BY DEF seq_set_index
  <1>2. idx' \in Indices
    <2>1. PICK index \in UNION {0 .. Len(Track[t]) : t \in DOMAIN Track} :
            idx' = [t \in DOMAIN Track |->
                      IF Len(Track[t]) > index THEN index ELSE Len(Track[t]) - 1]
      BY DEF seq_set_index
    <2>2. index \in Nat
      BY <2>1, Tracks
    <2>3. ASSUME NEW t \in DOMAIN Track
          PROVE  idx'[t] \in Nat /\ idx'[t] <= Len(Track[t])
      <3>1. idx'[t] = IF Len(Track[t]) > index THEN index ELSE Len(Track[t]) - 1
        BY <2>1
      <3>2. Len(Track[t]) \in Nat \ {0}
        BY Tracks
      <3> QED
        BY <3>1, <3>2, <2>2
    <2> QED
      BY <2>1, <2>3 DEF Indices
  <1>3. TypeOK'
    BY <1>1, <1>2 DEF TypeOK, Indices
  <1>4. TimeInv' /\ LateInv'
    BY <1>1 DEF TimeInv, LateInv
  <1>5. OrderInv'
    <2>1. \A t \in Pending(idx') : Due(idx', t) \in Nat
      BY <1>2, DueIsNat
    <2>2. \A t \in Pending(idx)' : Due(idx, t)' \in Nat
      BY <2>1 DEF Pending, Due, EventTime
    <2> QED
      BY <1>1, <2>2 DEF OrderInv
  <1> QED
    BY <1>3, <1>4, <1>5

(* An event is called. *)
LEMMA LatePlays == PlayInv /\ Late => PlayInv'
  <1> SUFFICES ASSUME PlayInv, Late PROVE PlayInv'
    OBVIOUS
  <1> USE TypeFacts DEF PlayInv
  <1> DEFINE n == NextTrack(idx)  j == idx'
  <1>1. /\ at = "test" /\ dt >= 0 /\ j = [idx EXCEPT ![n] = @ + 1] /\ heard' = Value(Tevent)
        /\ UNCHANGED <<clock, ntime, ticked, tstop, calls>>
    BY DEF Late
  <1>2. /\ n \in Pending(idx) /\ Due(idx, n) \in Nat /\ heard' = Due(idx, n)
        /\ \A t \in Pending(idx) : Due(idx, n) <= Due(idx, t)
        /\ Value(Tevent) = Due(idx, n)
    BY <1>1, Comparison
  <1>3. /\ j \in Indices /\ Pending(j) \subseteq Pending(idx)
        /\ \A u \in Pending(j) : Due(idx, u) <= Due(j, u)
    BY <1>1, <1>2, NextIsLater
  <1> HIDE DEF n, j
  <1>4. \A u \in Pending(j) :
          /\ u \in Pending(idx) /\ Due(j, u) \in Nat /\ Due(idx, u) \in Nat
          /\ Due(idx, u) <= Due(j, u) /\ Due(idx, n) <= Due(j, u)
    BY <1>2, <1>3, DueIsNat
  <1>5. Pending(j) = Pending(idx)' /\ \A u : Due(j, u) = Due(idx, u)'
    BY DEF j, Pending, Due, EventTime
  <1>6. \A u \in Pending(idx)' : heard' <= Due(idx, u)'
    BY <1>2, <1>4, <1>5
  <1>8. status = "running" /\ ticked' = FALSE /\ Value(clock) <= MaxClock
        /\ Value(ntime) <= Value(clock)
    BY <1>1 DEF TimeInv
  <1>9. idx' \in Indices
    BY <1>3 DEF j
  <1>10. CASE Return("ok") /\ (Pending(j) = {} \/ After(EventTime(j, NextTrack(j)), tstop))
    <2>1. \A u \in Pending(j) : Due(j, u) > Value(tstop)
      <3>1. CASE Pending(j) = {}
        BY <3>1
      <3>2. CASE Pending(j) # {} /\ After(EventTime(j, NextTrack(j)), tstop)
        <4>1. NextTrack(j) \in Pending(j)
              /\ \A u \in Pending(j) : Due(j, NextTrack(j)) <= Due(j, u)
          BY <1>3, <3>2, NextIsFirst
        <4>2. EventTime(j, NextTrack(j)) \in NTimes
          BY <1>3, <4>1, DueIsNat
        <4>3. Due(j, NextTrack(j)) > Value(tstop)
          BY <3>2, <4>2, AfterIsLater DEF Due
        <4> QED
          BY <1>4, <4>1, <4>3
      <3> QED
        BY <1>10, <3>1, <3>2
    <2>2. TypeOK'
      <3>1. {clock, ntime, T0, Tseq, tstop}' \subseteq NTimes
        BY <1>1, <1>10, ZeroIsTime DEF Return
      <3>2. {wake, calls, from, elapsed, heard}' \subseteq Nat
        BY <1>1, <1>2, <1>10 DEF Return
      <3> QED
        BY <1>1, <1>9, <1>10, <3>1, <3>2 DEF TypeOK, Return, Indices
    <2>3. TimeInv' /\ LateInv'
      BY <1>1, <1>8, <1>10 DEF TimeInv, LateInv, Return
    <2>4. \A u \in Pending(idx)' : Due(idx, u)' > Value(tstop)'
      BY <1>1, <1>5, <2>1
    <2>5. at' = "idle"
      BY <1>10 DEF Return
    <2>6. OrderInv'
      BY <1>6, <2>4, <2>5 DEF OrderInv
    <2> QED
      BY <2>2, <2>3, <2>6
  <1>11. CASE /\ UNCHANGED <<at, status, locals>>
              /\ Pending(j) # {}
    <2>1. at' = at /\ status' = status /\ UNCHANGED <<T0, Tseq, wake, from, elapsed>>
      BY <1>11 DEF locals
    <2>3. TypeOK'
      <3>1. {clock, ntime, T0, Tseq, tstop}' \subseteq NTimes
        BY <1>1, <2>1
      <3>2. {wake, calls, from, elapsed, heard}' \subseteq Nat
        BY <1>1, <1>2, <2>1
      <3> QED
        BY <1>1, <1>8, <1>9, <2>1, <3>1, <3>2 DEF TypeOK, Indices
    <2>4. TimeInv'
      BY <1>1, <1>5, <1>8, <1>11, <2>1 DEF TimeInv
    <2>5. LateInv'
      <3> SUFFICES ASSUME NEW u \in Pending(idx)'
                   PROVE  elapsed <= Due(idx, u)' + 1 \/ elapsed <= from + 1
        BY <1>1, <2>1 DEF LateInv
      <3>1. u \in Pending(idx) /\ Due(idx, u) <= Due(idx, u)' /\ Due(idx, u) \in Nat
            /\ Due(idx, u)' \in Nat
        BY <1>4, <1>5
      <3>2. elapsed <= Due(idx, u) + 1 \/ elapsed <= from + 1
        BY <1>1, <3>1 DEF LateInv
      <3> QED
        BY <3>1, <3>2
    <2>6. OrderInv'
      BY <1>1, <1>6, <1>8, <2>1 DEF OrderInv
    <2> QED
      BY <2>3, <2>4, <2>5, <2>6
  <1>12. \/ Return("ok") /\ (Pending(j) = {} \/ After(EventTime(j, NextTrack(j)), tstop))
         \/ /\ UNCHANGED <<at, status, locals>>
            /\ Pending(j) # {}
    BY DEF Late, j
  <1> QED
    BY <1>10, <1>11, <1>12

(* The rest of the loop *)
LEMMA LoopPlays ==
  ASSUME PlayInv, Sleep \/ WakeUp \/ Spin \/ Refresh
  PROVE  PlayInv'
  <1> USE TypeFacts DEF PlayInv
  <1>1. /\ UNCHANGED <<clock, idx, status, elapsed, heard, T0, tstop, calls, from>>
        /\ at # "idle" /\ at' # "idle" /\ at' \in {"test", "sleep", "refresh"}
    BY DEF Sleep, WakeUp, Spin, Refresh, call
  <1>2. OrderInv'
    BY <1>1 DEF OrderInv, TimeInv, Pending, Due, EventTime
  <1>3. \A t \in Pending(idx) : Due(idx, t) \in Nat
    BY DueIsNat
  <1>4. Pending(idx)' = Pending(idx) /\ \A t : Due(idx, t)' = Due(idx, t)
    BY <1>1 DEF Pending, Due, EventTime
  <1>5. elapsed = Value(clock) - Value(T0) /\ Value(T0) <= Value(clock) /\ Pending(idx) # {}
        /\ status = "running" /\ Value(clock) <= MaxClock /\ Value(ntime) <= Value(clock)
    BY <1>1 DEF TimeInv
  <1>6. CASE Sleep
    <2> DEFINE n == NextTrack(idx)
    <2>1. /\ at = "test" /\ at' = "sleep" /\ wake' = Value(clock) - dt - wake_latency
          /\ -dt > wake_latency + scheduler_uncertainty
          /\ ntime' = ntime /\ Tseq' = Tseq /\ ticked' = ticked
      BY <1>6 DEF Sleep
    <2>2. /\ dt = elapsed - Due(idx, n) /\ n \in Pending(idx)
          /\ \A t \in Pending(idx) : Due(idx, n) <= Due(idx, t)
      BY <2>1, Comparison
    <2> HIDE DEF n
    <2>3. dt \in Int /\ Due(idx, n) \in Nat
      BY <1>3, <2>2
    <2>4. /\ wake' \in Nat /\ Value(clock) <= wake' + wake_latency
          /\ wake' + wake_latency = Value(T0) + Due(idx, n)
      BY <1>5, <2>1, <2>2, <2>3
    <2>5. TypeOK'
      BY <1>1, <2>1, <2>4 DEF TypeOK
    <2>6. TimeInv'
      BY <1>1, <1>4, <1>5, <2>1 DEF TimeInv
    <2>7. ASSUME NEW t \in Pending(idx)
          PROVE  wake' + wake_latency <= Value(T0) + Due(idx, t)
      BY <1>3, <2>2, <2>3, <2>4, <2>7
    <2>8. LateInv'
      BY <1>1, <1>4, <2>1, <2>4, <2>7 DEF LateInv
    <2> QED
      BY <1>2, <2>5, <2>6, <2>8
  <1>7. CASE WakeUp
    <2>1. /\ at = "sleep" /\ at' = "refresh" /\ wake' = 0
          /\ ntime' = ntime /\ Tseq' = Tseq /\ ticked' = ticked
      BY <1>7 DEF WakeUp
    <2>2. TypeOK'
      BY <1>1, <2>1 DEF TypeOK
    <2>3. TimeInv'
      BY <1>1, <1>4, <1>5, <2>1 DEF TimeInv
    <2>4. ASSUME NEW t \in Pending(idx) PROVE elapsed <= Due(idx, t)
      <3>1. Value(clock) <= wake + wake_latency /\ wake + wake_latency <= Value(T0) + Due(idx, t)
        BY <2>1 DEF LateInv
      <3> QED
        BY <1>3, <1>5, <3>1
    <2>5. LateInv'
      BY <1>1, <1>3, <1>4, <2>1, <2>4 DEF LateInv
    <2> QED
      BY <1>2, <2>2, <2>3, <2>5
  <1>8. CASE Spin
    <2>1. /\ at = "test" /\ at' = "refresh" /\ wake' = wake
          /\ ntime' = ntime /\ Tseq' = Tseq /\ ticked' = ticked
          /\ -dt \in 1 .. wake_latency + scheduler_uncertainty
      BY <1>8 DEF Spin
    <2>2. TypeOK'
      BY <1>1, <2>1 DEF TypeOK
    <2>3. TimeInv'
      BY <1>1, <1>4, <1>5, <2>1 DEF TimeInv
    <2>4. ASSUME NEW t \in Pending(idx) PROVE elapsed <= Due(idx, t)
      <3> DEFINE n == NextTrack(idx)
      <3>1. /\ dt = elapsed - Due(idx, n) /\ Due(idx, n) \in Nat /\ Due(idx, n) <= Due(idx, t)
        BY <2>1, Comparison
      <3> HIDE DEF n
      <3>2. dt \in Int /\ Due(idx, t) \in Nat
        BY <1>3, <3>1
      <3> QED
        BY <2>1, <3>1, <3>2
    <2>5. LateInv'
      BY <1>1, <1>3, <1>4, <2>1, <2>4 DEF LateInv
    <2> QED
      BY <1>2, <2>2, <2>3, <2>5
  <1>9. CASE Refresh
    <2>1. /\ at = "refresh" /\ at' = "test" /\ wake' = wake /\ ticked' = FALSE
          /\ Tseq' = SubNs(clock, T0.sec, T0.ns) /\ ntime' = SubNs(clock, T0.sec, T0.ns)
      BY <1>9 DEF Refresh
    <2>2. /\ Tseq' \in NTimes /\ ntime' = Tseq' /\ Value(Tseq') = Value(clock) - Value(T0)
      BY <1>5, <2>1, SubOfTimes
    <2>3. TypeOK'
      BY <1>1, <2>1, <2>2 DEF TypeOK
    <2>4. TimeInv'
      BY <1>1, <1>4, <1>5, <2>1, <2>2 DEF TimeInv
    <2>5. ASSUME NEW t \in Pending(idx) PROVE elapsed <= Due(idx, t) + 1
      BY <1>3, <2>1, <2>5 DEF LateInv
    <2>6. LateInv'
      BY <1>1, <1>4, <2>1, <2>5 DEF LateInv
    <2> QED
      BY <1>2, <2>3, <2>4, <2>6
  <1> QED
    BY <1>6, <1>7, <1>8, <1>9

(* A sleep is interrupted: the call ends where it is. *)
LEMMA InterruptedPlays == PlayInv /\ Interrupted => PlayInv'
  <1> SUFFICES ASSUME PlayInv, Interrupted PROVE PlayInv'
    OBVIOUS
  <1> USE TypeFacts DEF PlayInv
  <1>1. /\ at = "sleep" /\ at' = "idle" /\ status' = "interrupted"
        /\ T0' = Zero /\ Tseq' = Zero /\ wake' = 0 /\ from' = 0 /\ elapsed' = 0
        /\ UNCHANGED <<clock, ntime, idx, ticked, heard, tstop, calls>>
    BY DEF Interrupted, Return
  <1>2. TypeOK'
    <2>1. {clock, ntime, T0, Tseq, tstop}' \subseteq NTimes
      BY <1>1, ZeroIsTime
    <2> QED
      BY <1>1, <2>1 DEF TypeOK
  <1> QED
    BY <1>1, <1>2 DEF TimeInv, LateInv, OrderInv, Pending, Due, EventTime

(* The clock ticks: the width of its seconds is not reached. *)
LEMMA TickPlays == ASSUME ClockFits PROVE PlayInv /\ Tick => PlayInv'
  <1> SUFFICES ASSUME PlayInv, Tick PROVE PlayInv'
    OBVIOUS
  <1> USE TypeFacts DEF PlayInv
  <1>1. /\ Value(clock) < MaxClock /\ clock' = AddNs(clock, 0, 1)
        /\ \/ at = "idle"
           \/ at = "sleep" /\ Value(clock) < wake + wake_latency
           \/ at = "refresh" /\ ~ticked
        /\ ticked' = (at = "refresh")
        /\ elapsed' = IF at = "idle" THEN elapsed ELSE elapsed + 1
        /\ UNCHANGED <<ntime, idx, at, Tseq, wake, status, heard, T0, tstop, calls, from>>
    BY DEF Tick, call
  <1>2. clock' \in NTimes /\ Value(clock') = Value(clock) + 1
    <2>1. 0 * NSEC_PER_SEC = 0
      BY NTimeAssumption
    <2>2. SecWidth * NSEC_PER_SEC \in Nat
      BY NTimeAssumption
    <2>3. Value(clock) + 0 * NSEC_PER_SEC + 1 < SecWidth * NSEC_PER_SEC
      BY <1>1, <2>1, <2>2 DEF ClockFits
    <2> QED
      BY <1>1, <2>1, <2>3, AddIsSum
  <1>3. ticked' \in BOOLEAN
    BY <1>1
  <1>4. TypeOK'
    <2>1. {clock, ntime, T0, Tseq, tstop}' \subseteq NTimes
      BY <1>1, <1>2
    <2>2. {wake, calls, from, elapsed, heard}' \subseteq Nat
      BY <1>1
    <2> QED
      BY <1>1, <1>3, <2>1, <2>2 DEF TypeOK
  <1>5. Pending(idx)' = Pending(idx) /\ \A t : Due(idx, t)' = Due(idx, t)
    BY <1>1 DEF Pending, Due, EventTime
  <1>6. TimeInv'
    BY <1>1, <1>2, <1>5 DEF TimeInv
  <1>7. LateInv'
    <2> SUFFICES ASSUME NEW t \in Pending(idx)
                 PROVE  /\ at = "sleep" =>
                             /\ Value(clock') <= wake + wake_latency
                             /\ wake + wake_latency <= Value(T0) + Due(idx, t)
                        /\ at = "refresh" => ticked' /\ elapsed' <= Due(idx, t) + 1
      BY <1>1, <1>5 DEF LateInv
    <2>1. Due(idx, t) \in Nat
      BY DueIsNat
    <2>2. CASE at = "sleep"
      BY <1>1, <1>2, <2>1, <2>2 DEF LateInv
    <2>3. CASE at = "refresh"
      <3>1. ~ticked /\ elapsed' = elapsed + 1 /\ ticked'
        BY <1>1, <2>3
      <3>2. elapsed <= Due(idx, t)
        BY <2>3, <3>1 DEF LateInv
      <3> QED
        BY <2>1, <2>3, <3>1, <3>2
    <2> QED
      BY <2>2, <2>3
  <1>8. OrderInv'
    BY <1>1, <1>5 DEF OrderInv
  <1> QED
    BY <1>4, <1>6, <1>7, <1>8

LEMMA PlayInvariant == ASSUME ClockFits PROVE Spec => []PlayInv
  <1>1. PlayInv /\ [Next]_vars => PlayInv'
    <2> SUFFICES ASSUME PlayInv, [Next]_vars PROVE PlayInv'
      OBVIOUS
    <2>1. CASE seq_run
      BY <2>1, LastTimeIsTime, CallPlays DEF seq_run
    <2>2. CASE seq_run_to_ntime
      <3>1. PICK stop \in NTimes : Call(stop)
        BY <2>2 DEF seq_run_to_ntime
      <3> QED
        BY <3>1, CallPlays
    <2>3. CASE UNCHANGED vars
      BY <2>3 DEF vars, call, PlayInv, TypeOK, TimeInv, LateInv, OrderInv, Pending, Due, EventTime
    <2> QED
      BY <2>1, <2>2, <2>3, SetIndexPlays, LatePlays, LoopPlays, InterruptedPlays, TickPlays
      DEF Next, Application, Player
  <1> QED
    BY <1>1, InitPlays, PTL DEF Spec

(* The types hold, and a run that returns ok leaves no event behind that   *)
(* is due by its end (seq_proc), however the doubles it compares by round, *)
(* as long as they exchange no two times.                                  *)
THEOREM RunsPlayWhatTheyShould == ASSUME ClockFits PROVE Spec => []PlayerInv
  <1>1. PlayInv => PlayerInv
    BY DEF PlayInv, OrderInv, Due, PlayerInv, OkMeansPlayed
  <1> QED
    BY <1>1, PlayInvariant, PTL

(* Where an event is called, it is the next and due. *)
LEMMA CalledIsNext ==
  ASSUME PlayInv, [Next]_vars, NEW t \in DOMAIN Track, Called(t)
  PROVE  t \in Pending(idx) /\ Due(idx, t) \in Nat /\ elapsed >= Due(idx, t)
  <1> USE TypeFacts DEF PlayInv
  <1>1. at = "test" /\ idx'[t] = idx[t] + 1 /\ idx[t] \in Nat
    BY DEF Called, Indices
  <1>2. Late
    <2>1. idx' # idx
      BY <1>1
    <2> QED
      BY <1>1, <2>1 DEF Next, vars, Application, seq_run, seq_run_to_ntime, Call, seq_set_index, Player,
                        Sleep, WakeUp, Interrupted, Spin, Refresh, Tick
  <1>3. idx' = [idx EXCEPT ![NextTrack(idx)] = @ + 1] /\ dt >= 0
    BY <1>2 DEF Late
  <1>4. t = NextTrack(idx)
    BY <1>1, <1>3 DEF Indices
  <1> QED
    BY <1>1, <1>3, <1>4, Comparison

(* No event is called before its time, and none more than a nanosecond     *)
(* late that was not late when the call began, for any latency of the      *)
(* wake-up the player is told of.                                          *)
THEOREM EventsArePunctual == ASSUME ClockFits PROVE Spec => Punctual
  <1>1. PlayInv /\ [Next]_vars =>
          [\A t \in DOMAIN Track : Called(t) =>
             LET due == Value(EventTime(idx, t))
             IN elapsed >= due /\ elapsed <= Max({due, from}) + 1]_vars
    <2> SUFFICES ASSUME PlayInv, [Next]_vars, NEW t \in DOMAIN Track, Called(t)
                 PROVE  elapsed >= Due(idx, t) /\ elapsed <= Max({Due(idx, t), from}) + 1
      BY DEF Due
    <2> DEFINE due == Due(idx, t)
    <2>1. t \in Pending(idx) /\ due \in Nat /\ elapsed >= due
      BY CalledIsNext
    <2>2. elapsed \in Nat /\ from \in Nat /\ (elapsed <= due + 1 \/ elapsed <= from + 1)
      BY <2>1, TypeFacts DEF PlayInv, LateInv, Called
    <2> HIDE DEF due
    <2>3. \A x \in {due, from} : Max({due, from}) \in Nat /\ Max({due, from}) >= x
      <3>1. \E x \in {due, from} : \A y \in {due, from} : x >= y
        BY <2>1, <2>2
      <3> QED
        BY <2>1, <2>2, <3>1 DEF Max
    <2> QED
      BY <2>1, <2>2, <2>3 DEF due
  <1> QED
    BY <1>1, PlayInvariant, PTL DEF Spec, Punctual

(* Events are called in the order of their times, over all tracks and      *)
(* calls, until the application sets the index.                            *)
THEOREM EventsAreInOrder == ASSUME ClockFits PROVE Spec => InOrder
  <1>1. PlayInv /\ [Next]_vars =>
          [\A t \in DOMAIN Track : Called(t) => Value(EventTime(idx, t)) >= heard]_vars
    BY CalledIsNext DEF PlayInv, OrderInv, Due
  <1> QED
    BY <1>1, PlayInvariant, PTL DEF Spec, InOrder

----------------------------------------------------------------------------
(* The calibration's programs *)

ParameterWrites ==
  {Out(TC_PARM_REG + i - 1, Parameter("run", g, i)) : g \in Groups, i \in 1 .. NUM_TC_CHANNELS}

Instructions ==
  {Command(c) : c \in Commands} \cup ParameterWrites
    \cup {Read(r) : r \in Registers} \cup {Usleep}

(* Every read comes after a sleep, or after another read that does. *)
Timed(p) ==
  \A j \in 1 .. Len(p) : p[j].op = "read" => j > 1 /\ p[j - 1].op \in {"sleep", "read"}

(* Every read has a command before it that asks for its register. *)
Asks(c, r) ==
  \/ c[1] = "display"
  \/ c[1] = "get" /\ r - TC_PARM_REG + 1 \in 1 .. Words(c[2])

AskedAt(p, k, j, c) ==
  /\ p[k] = Command(c)
  /\ \A l \in k + 1 .. j - 1 : p[l].op # "out"
  /\ Asks(c, p[j].reg)

Asked(p) ==
  \A j \in 1 .. Len(p) : p[j].op = "read" =>
    \E k \in 1 .. j - 1, c \in Commands : AskedAt(p, k, j, c)

(* A set command comes after all words of its group and is withdrawn after *)
(* a sleep.                                                                *)
SetAt(p, j, g) ==
  /\ j > Words(g) + 1 /\ j + 2 <= Len(p)
  /\ \A i \in 1 .. Words(g) :
       p[j - Words(g) - 2 + i] = Out(TC_PARM_REG + i - 1, Parameter("run", g, i))
  /\ p[j - 1] = Usleep /\ p[j + 1] = Usleep /\ p[j + 2] = Command(Normal)

SetInPlace(p) ==
  \A j \in 1 .. Len(p), g \in Groups : p[j] = Command(<<"set", g>>) => SetAt(p, j, g)

Orderly(p) ==
  p \in Seq(Instructions) /\ Timed(p) /\ Asked(p) /\ SetInPlace(p)

(* A program that sets groups, those of G among them, and one that reads *)
Sets(p, G) ==
  /\ Orderly(p)
  /\ \A j \in 1 .. Len(p) : p[j].op # "read"
  /\ \A g \in G : \E j \in 1 .. Len(p) : p[j] = Command(<<"set", g>>)

Displays(p) ==
  /\ Orderly(p)
  /\ \A j \in 1 .. Len(p), g \in Groups : p[j] # Command(<<"set", g>>)

----------------------------------------------------------------------------
(* The invariant *)

Program == Programs[test]

CalibrationTypes ==
  /\ CalibrationTypeOK
  /\ frame \in {NoFrame, <<"lost">>} \/ (frame[1] = "back" /\ DOMAIN frame[2] = Registers)
  /\ store = [g \in Groups |-> store[g]]
  /\ ~ At("sleep") => slept = 0

(* The card has been given the output image and knows no more to do; *)
Given ==
  /\ command = output[TC_OFFSET_NORMAL] /\ show = Showing(output)
  /\ store = Stored(output)

(* its answer is on its way; *)
Answered == Given /\ frame = <<"back", Showing(output)>>

(* it has arrived, and so will every other one. *)
Settled ==
  /\ Given /\ input = Showing(output)
  /\ frame \in {NoFrame, <<"lost">>, <<"back", Showing(output)>>}

(* In a sleep a cycle that brings this about no further has lost a frame. *)
UnderWay == IF frame = NoFrame THEN 0 ELSE 1

DeliveryInv ==
  /\ Given \/ slept + UnderWay <= lost + 1
  /\ Answered \/ Settled \/ slept + UnderWay <= lost + 2
  /\ Settled \/ slept <= lost + 2

SettledInv == pc > 1 /\ Program[pc - 1].op \in {"sleep", "read"} => Settled

(* The output image has what was last written to each of its words. *)
LastWrite(k) ==
  /\ Program[k].op = "out"
  /\ \A l \in k + 1 .. pc - 1 : Program[l].op = "out" => Program[l].reg # Program[k].reg

OutputInv ==
  \A k \in 1 .. pc - 1 : LastWrite(k) => output[Program[k].reg] = Program[k].val

(* A set command is there from its writing to the next sleep's end. *)
SetInv ==
  \A g \in Groups : output[TC_OFFSET_NORMAL] = <<"set", g>> =>
    \E j \in 1 .. Len(Program) : Program[j] = Command(<<"set", g>>) /\ pc \in {j + 1, j + 2}

(* After that sleep the card has the group. *)
StoreInv ==
  /\ ParametersWhole
  /\ \A j \in 1 .. Len(Program), g \in Groups :
       Program[j] = Command(<<"set", g>>) /\ j + 1 < pc => store[g] = OfRun[g]
  /\ test # "calibrate" => store = Flash

ReadInv ==
  last # NoRead =>
    LET r == Program[pc - 1].reg
    IN /\ pc > 1 /\ Program[pc - 1].op = "read"
       /\ last = <<output[TC_OFFSET_NORMAL], r, Showing(output)[r]>>

CalibrationInv ==
  CalibrationTypes /\ DeliveryInv /\ SettledInv /\ OutputInv /\ SetInv /\ StoreInv /\ ReadInv

(* Two programs one after the other *)
LEMMA Joined ==
  ASSUME NEW S, NEW p \in Seq(S), NEW q \in Seq(S)
  PROVE  /\ p \o q \in Seq(S) /\ Len(p) \in Nat /\ Len(q) \in Nat
         /\ Len(p \o q) = Len(p) + Len(q)
         /\ \A j \in 1 .. Len(p) : (p \o q)[j] = p[j]
         /\ \A j \in 1 .. Len(q) : (p \o q)[Len(p) + j] = q[j]
         /\ \A j \in 1 .. Len(p \o q) :
              j \in 1 .. Len(p) \/ \E m \in 1 .. Len(q) : j = Len(p) + m
  <1>1. /\ p \o q \in Seq(S) /\ Len(p) \in Nat /\ Len(q) \in Nat
        /\ Len(p \o q) = Len(p) + Len(q)
        /\ \A j \in 1 .. Len(p) : (p \o q)[j] = p[j]
        /\ \A j \in 1 .. Len(q) : (p \o q)[Len(p) + j] = q[j]
    OBVIOUS
  <1>2. ASSUME NEW j \in 1 .. Len(p \o q), j \notin 1 .. Len(p)
        PROVE  \E m \in 1 .. Len(q) : j = Len(p) + m
    <2>1. j - Len(p) \in 1 .. Len(q) /\ j = Len(p) + (j - Len(p))
      BY <1>1, <1>2
    <2> QED
      BY <2>1
  <1> QED
    BY <1>1, <1>2

LEMMA WordsCount ==
  ASSUME NEW g \in Groups
  PROVE  Words(g) \in 1 .. NUM_TC_CHANNELS /\ Shown(g) \in 1 .. Words(g)
  BY CalibrationAssumption DEF Groups, Words, Shown

LEMMA OrderlyJoin ==
  ASSUME NEW p, NEW q, Orderly(p), Orderly(q)
  PROVE  Orderly(p \o q)
  <1> DEFINE r == p \o q
  <1>1. /\ p \in Seq(Instructions) /\ q \in Seq(Instructions)
        /\ r \in Seq(Instructions) /\ Len(p) \in Nat /\ Len(q) \in Nat
        /\ Len(r) = Len(p) + Len(q)
    BY Joined DEF Orderly
  <1>2. \A j \in 1 .. Len(p) : r[j] = p[j]
    BY Joined DEF Orderly
  <1>3. \A j \in 1 .. Len(q) : r[Len(p) + j] = q[j]
    BY Joined DEF Orderly
  <1>4. \A j \in 1 .. Len(r) : j \in 1 .. Len(p) \/ \E m \in 1 .. Len(q) : j = Len(p) + m
    BY Joined DEF Orderly
  <1> HIDE DEF r
  <1>5. Timed(r)
    <2> SUFFICES ASSUME NEW j \in 1 .. Len(r), r[j].op = "read"
                 PROVE  j > 1 /\ r[j - 1].op \in {"sleep", "read"}
      BY DEF Timed
    <2>1. CASE j \in 1 .. Len(p)
      <3>1. j > 1 /\ p[j - 1].op \in {"sleep", "read"}
        BY <2>1, <1>2 DEF Orderly, Timed
      <3>2. j - 1 \in 1 .. Len(p)
        BY <2>1, <3>1, <1>1
      <3> QED
        BY <3>1, <3>2, <1>2
    <2>2. CASE \E m \in 1 .. Len(q) : j = Len(p) + m
      <3>1. PICK m \in 1 .. Len(q) : j = Len(p) + m
        BY <2>2
      <3>2. m > 1 /\ q[m - 1].op \in {"sleep", "read"}
        BY <3>1, <1>3 DEF Orderly, Timed
      <3>3. m - 1 \in 1 .. Len(q) /\ j - 1 = Len(p) + (m - 1) /\ j > 1
        BY <3>1, <3>2, <1>1
      <3> QED
        BY <3>2, <3>3, <1>3
    <2> QED
      BY <2>1, <2>2, <1>4
  <1>6. Asked(r)
    <2> SUFFICES ASSUME NEW j \in 1 .. Len(r), r[j].op = "read"
                 PROVE  \E k \in 1 .. j - 1, c \in Commands : AskedAt(r, k, j, c)
      BY DEF Asked
    <2>1. CASE j \in 1 .. Len(p)
      <3>1. PICK k \in 1 .. j - 1, c \in Commands : AskedAt(p, k, j, c)
        BY <2>1, <1>2 DEF Orderly, Asked
      <3>2. \A l \in k .. j : l \in 1 .. Len(p) /\ r[l] = p[l]
        BY <2>1, <1>1, <1>2
      <3>3. AskedAt(r, k, j, c)
        BY <3>1, <3>2, <2>1, <1>1 DEF AskedAt
      <3> QED
        BY <3>3
    <2>2. CASE \E m \in 1 .. Len(q) : j = Len(p) + m
      <3>1. PICK m \in 1 .. Len(q) : j = Len(p) + m
        BY <2>2
      <3>2. PICK k \in 1 .. m - 1, c \in Commands : AskedAt(q, k, m, c)
        BY <3>1, <1>3 DEF Orderly, Asked
      <3>3. /\ Len(p) + k \in 1 .. j - 1
            /\ r[Len(p) + k] = q[k] /\ r[j] = q[m]
        <4>1. k \in 1 .. Len(q) /\ Len(p) + k \in 1 .. j - 1
          BY <3>1, <1>1
        <4> QED
          BY <4>1, <3>1, <1>3
      <3>4. ASSUME NEW l \in Len(p) + k + 1 .. j - 1
            PROVE  r[l].op # "out"
        <4>1. l - Len(p) \in k + 1 .. m - 1 /\ l - Len(p) \in 1 .. Len(q) /\ l = Len(p) + (l - Len(p))
          BY <3>1, <1>1
        <4>2. r[l] = q[l - Len(p)]
          BY <4>1, <1>3
        <4> QED
          BY <4>1, <4>2, <3>2 DEF AskedAt
      <3>5. AskedAt(r, Len(p) + k, j, c)
        BY <3>2, <3>3, <3>4 DEF AskedAt
      <3> QED
        BY <3>3, <3>5
    <2> QED
      BY <2>1, <2>2, <1>4
  <1>7. SetInPlace(r)
    <2> SUFFICES ASSUME NEW j \in 1 .. Len(r), NEW g \in Groups, r[j] = Command(<<"set", g>>)
                 PROVE  SetAt(r, j, g)
      BY DEF SetInPlace
    <2>w. Words(g) \in 1 .. NUM_TC_CHANNELS /\ NUM_TC_CHANNELS \in Nat
      BY WordsCount, CalibrationAssumption
    <2>1. CASE j \in 1 .. Len(p)
      <3>1. SetAt(p, j, g)
        BY <2>1, <1>2 DEF Orderly, SetInPlace
      <3>2. \A l \in 1 .. j + 2 : r[l] = p[l]
        BY <2>1, <3>1, <1>1, <1>2 DEF SetAt
      <3>3. /\ j > Words(g) + 1 /\ j + 2 <= Len(r)
            /\ r[j - 1] = Usleep /\ r[j + 1] = Usleep /\ r[j + 2] = Command(Normal)
        BY <2>1, <2>w, <3>1, <3>2, <1>1 DEF SetAt
      <3>4. ASSUME NEW i \in 1 .. Words(g)
            PROVE  r[j - Words(g) - 2 + i] = Out(TC_PARM_REG + i - 1, Parameter("run", g, i))
        <4>1. j - Words(g) - 2 + i \in 1 .. j + 2
          BY <2>1, <2>w, <3>3, <1>1
        <4> QED
          BY <4>1, <3>1, <3>2 DEF SetAt
      <3> QED
        BY <3>3, <3>4 DEF SetAt
    <2>2. CASE \E m \in 1 .. Len(q) : j = Len(p) + m
      <3>1. PICK m \in 1 .. Len(q) : j = Len(p) + m
        BY <2>2
      <3>2. SetAt(q, m, g)
        BY <3>1, <1>3 DEF Orderly, SetInPlace
      <3>3. m > Words(g) + 1 /\ m + 2 <= Len(q)
        BY <3>2 DEF SetAt
      <3>4. /\ m - 1 \in 1 .. Len(q) /\ j - 1 = Len(p) + (m - 1)
            /\ m + 1 \in 1 .. Len(q) /\ j + 1 = Len(p) + (m + 1)
            /\ m + 2 \in 1 .. Len(q) /\ j + 2 = Len(p) + (m + 2)
            /\ j > Words(g) + 1 /\ j + 2 <= Len(r)
        BY <3>1, <3>3, <2>w, <1>1
      <3>5. r[j - 1] = q[m - 1] /\ r[j + 1] = q[m + 1] /\ r[j + 2] = q[m + 2]
        BY <3>4, <1>3
      <3>6. ASSUME NEW i \in 1 .. Words(g)
            PROVE  r[j - Words(g) - 2 + i] = Out(TC_PARM_REG + i - 1, Parameter("run", g, i))
        <4> DEFINE w == Words(g)
        <4>0. w \in Nat /\ i \in 1 .. w /\ m > w + 1 /\ m + 2 <= Len(q)
          BY <2>w, <3>3
        <4> HIDE DEF w
        <4>1. m - w - 2 + i \in 1 .. Len(q) /\ j - w - 2 + i = Len(p) + (m - w - 2 + i)
          BY <4>0, <3>1, <1>1
        <4>2. r[j - w - 2 + i] = q[m - w - 2 + i]
          BY <4>1, <1>3
        <4> QED
          BY <4>2, <3>2 DEF SetAt, w
      <3> QED
        BY <3>2, <3>4, <3>5, <3>6 DEF SetAt
    <2> QED
      BY <2>1, <2>2, <1>4
  <1> QED
    BY <1>1, <1>5, <1>6, <1>7 DEF Orderly, r

LEMMA SetsJoin ==
  ASSUME NEW p, NEW q, NEW G, NEW H, Sets(p, G), Sets(q, H)
  PROVE  Sets(p \o q, G \cup H)
  <1> DEFINE r == p \o q
  <1>1. p \in Seq(Instructions) /\ q \in Seq(Instructions) /\ Orderly(r)
    BY OrderlyJoin DEF Sets, Orderly
  <1>2. Len(p) \in Nat /\ Len(q) \in Nat /\ Len(r) = Len(p) + Len(q)
    BY <1>1
  <1>3. \A j \in 1 .. Len(p) : r[j] = p[j] /\ j \in 1 .. Len(r)
    BY <1>1
  <1>4. \A j \in 1 .. Len(q) : r[Len(p) + j] = q[j] /\ Len(p) + j \in 1 .. Len(r)
    BY <1>1
  <1>5. \A j \in 1 .. Len(r) : j \in 1 .. Len(p) \/ \E m \in 1 .. Len(q) : j = Len(p) + m
    BY <1>1, Joined
  <1> HIDE DEF r
  <1>6. ASSUME NEW j \in 1 .. Len(r) PROVE r[j].op # "read"
    <2>1. /\ \A m \in 1 .. Len(p) : p[m].op # "read"
          /\ \A m \in 1 .. Len(q) : q[m].op # "read"
      BY DEF Sets
    <2>2. CASE j \in 1 .. Len(p)
      BY <2>1, <2>2, <1>3
    <2>3. ASSUME NEW m \in 1 .. Len(q), j = Len(p) + m PROVE r[j].op # "read"
      BY <2>1, <2>3, <1>4
    <2> QED
      BY <2>2, <2>3, <1>5
  <1>7. ASSUME NEW g \in G \cup H PROVE \E j \in 1 .. Len(r) : r[j] = Command(<<"set", g>>)
    <2>1. CASE g \in G
      <3>1. PICK j \in 1 .. Len(p) : p[j] = Command(<<"set", g>>)
        BY <2>1 DEF Sets
      <3> QED
        BY <3>1, <1>3
    <2>2. CASE g \in H
      <3>1. PICK j \in 1 .. Len(q) : q[j] = Command(<<"set", g>>)
        BY <2>2 DEF Sets
      <3> QED
        BY <3>1, <1>4
    <2> QED
      BY <2>1, <2>2
  <1> QED
    BY <1>1, <1>6, <1>7 DEF Sets, r

LEMMA DisplaysJoin ==
  ASSUME NEW p, NEW q, Displays(p), Displays(q)
  PROVE  Displays(p \o q)
  <1> DEFINE r == p \o q
  <1>1. p \in Seq(Instructions) /\ q \in Seq(Instructions) /\ Orderly(r)
    BY OrderlyJoin DEF Displays, Orderly
  <1>2. /\ \A j \in 1 .. Len(p) : r[j] = p[j]
        /\ \A j \in 1 .. Len(q) : r[Len(p) + j] = q[j]
        /\ \A j \in 1 .. Len(r) : j \in 1 .. Len(p) \/ \E m \in 1 .. Len(q) : j = Len(p) + m
    BY <1>1, Joined
  <1> HIDE DEF r
  <1>3. ASSUME NEW j \in 1 .. Len(r), NEW g \in Groups PROVE r[j] # Command(<<"set", g>>)
    BY <1>2 DEF Displays
  <1> QED
    BY <1>1, <1>3 DEF Displays, r

----------------------------------------------------------------------------
(* The programs of the source *)

LEMMA InstructionsAre ==
  /\ \A c \in Commands : Command(c) \in Instructions
  /\ \A r \in Registers : Read(r) \in Instructions
  /\ Usleep \in Instructions
  /\ \A g \in Groups : \A i \in 1 .. NUM_TC_CHANNELS :
       Out(TC_PARM_REG + i - 1, Parameter("run", g, i)) \in Instructions
  BY DEF Instructions, ParameterWrites

LEMMA CommandsAre ==
  /\ Normal \in Commands
  /\ \A g \in Groups : <<"set", g>> \in Commands /\ <<"get", g>> \in Commands
  /\ \A m \in Modes : <<"display", m>> \in Commands
  BY DEF Commands, Normal

LEMMA CommandsDiffer ==
  /\ \A g, h : <<"set", g>> # <<"get", h>> /\ <<"set", g>> # <<"display", h>>
  /\ \A g \in Groups : <<"set", g>> # Normal
  <1>1. \A g, h : <<"set", g>>[1] = "set" /\ <<"get", h>>[1] = "get" /\ <<"display", h>>[1] = "display"
    OBVIOUS
  <1>2. Normal[1] = "normal"
    BY DEF Normal
  <1> QED
    BY <1>1, <1>2

(* A group is set in place. *)
LEMMA SetGroup == ASSUME NEW g \in Groups PROVE Sets(set_group(g), {g})
  <1> DEFINE w == Words(g)
             a == [i \in 1 .. w |-> Out(TC_PARM_REG + i - 1, Parameter("run", g, i))]
             b == send_cal_command(<<"set", g>>)
             p == a \o b
  <1>w. w \in 1 .. NUM_TC_CHANNELS /\ NUM_TC_CHANNELS \in Nat /\ w \in Nat
    BY WordsCount, CalibrationAssumption
  <1>1. a \in Seq(Instructions) /\ Len(a) = w
    <2> HIDE DEF w
    <2>1. \A i \in 1 .. w : a[i] \in Instructions
      BY <1>w, InstructionsAre
    <2> QED
      BY <2>1, <1>w
  <1>2. b \in Seq(Instructions) /\ Len(b) = 5
    <2>1. Usleep \in Instructions /\ Command(<<"set", g>>) \in Instructions
          /\ Command(Normal) \in Instructions
      BY InstructionsAre, CommandsAre
    <2> QED
      BY <2>1 DEF send_cal_command
  <1>b. /\ b[1] = Usleep /\ b[2] = Command(<<"set", g>>) /\ b[3] = Usleep
        /\ b[4] = Command(Normal) /\ b[5] = Usleep
    BY DEF send_cal_command
  <1> HIDE DEF a, b, w
  <1>3. p \in Seq(Instructions) /\ Len(p) = w + 5
        /\ (\A i \in 1 .. w : p[i] = a[i]) /\ (\A i \in 1 .. 5 : p[w + i] = b[i])
    <2>1. /\ p \in Seq(Instructions) /\ Len(p) = Len(a) + Len(b)
          /\ \A i \in 1 .. Len(a) : p[i] = a[i]
          /\ \A i \in 1 .. Len(b) : p[Len(a) + i] = b[i]
      <3>1. a \in Seq(Instructions) /\ b \in Seq(Instructions)
        BY <1>1, <1>2
      <3> QED
        BY <3>1, Joined
    <2> QED
      BY <2>1, <1>1, <1>2
  <1> HIDE DEF p
  <1>4. /\ \A i \in 1 .. w : p[i] = a[i]
        /\ p[w + 1] = Usleep /\ p[w + 2] = Command(<<"set", g>>) /\ p[w + 3] = Usleep
        /\ p[w + 4] = Command(Normal) /\ p[w + 5] = Usleep
    <2>1. p[w + 1] = b[1] /\ p[w + 2] = b[2] /\ p[w + 3] = b[3] /\ p[w + 4] = b[4]
          /\ p[w + 5] = b[5]
      BY <1>3
    <2> QED
      BY <1>3, <1>b, <2>1
  <1>5. \A i \in 1 .. w : p[i] = Out(TC_PARM_REG + i - 1, Parameter("run", g, i))
    BY <1>4 DEF a
  <1>6. \A j \in 1 .. w + 5 : j \in 1 .. w \/ j \in {w + 1, w + 2, w + 3, w + 4, w + 5}
    BY <1>w
  <1>7. ASSUME NEW j \in 1 .. Len(p) PROVE p[j].op # "read"
    <2>1. CASE j \in 1 .. w
      <3>1. p[j] = Out(TC_PARM_REG + j - 1, Parameter("run", g, j))
        BY <2>1, <1>5
      <3> QED
        BY <3>1 DEF Out
    <2>2. CASE j \in {w + 1, w + 2, w + 3, w + 4, w + 5}
      BY <2>2, <1>4 DEF Out, Usleep, Command
    <2> QED
      BY <2>1, <2>2, <1>3, <1>6
  <1>8. ASSUME NEW j \in 1 .. Len(p), NEW h \in Groups, p[j] = Command(<<"set", h>>)
        PROVE  j = w + 2 /\ h = g
    <2>1. p[j].op = "out" /\ p[j].reg = 0 /\ p[j].val = <<"set", h>>
      BY <1>8 DEF Command, Out, TC_OFFSET_NORMAL
    <2>2. j \notin 1 .. w
      <3> SUFFICES ASSUME j \in 1 .. w PROVE FALSE
        OBVIOUS
      <3>1. p[j].reg = TC_PARM_REG + j - 1
        <4>1. p[j] = Out(TC_PARM_REG + j - 1, Parameter("run", g, j))
          BY <1>5
        <4> QED
          BY <4>1 DEF Out
      <3> QED
        BY <3>1, <2>1, <1>w DEF TC_PARM_REG
    <2>3. j # w + 1 /\ j # w + 3 /\ j # w + 5
      BY <1>4, <2>1 DEF Usleep
    <2>4. j # w + 4
      BY <1>4, <2>1, CommandsDiffer DEF Command, Out
    <2>5. j = w + 2
      BY <2>2, <2>3, <2>4, <1>6, <1>3
    <2>6. <<"set", h>> = <<"set", g>>
      BY <2>5, <2>1, <1>4 DEF Command, Out
    <2> QED
      BY <2>5, <2>6
  <1>9. ASSUME NEW j, j = w + 2 PROVE SetAt(p, j, g)
    <2>1. /\ j > w + 1 /\ j + 2 <= Len(p)
          /\ j - 1 = w + 1 /\ j + 1 = w + 3 /\ j + 2 = w + 4
          /\ \A i \in 1 .. w : j - w - 2 + i = i
      BY <1>w, <1>3, <1>9
    <2>2. \A i \in 1 .. w :
            p[j - w - 2 + i] = Out(TC_PARM_REG + i - 1, Parameter("run", g, i))
      BY <2>1, <1>5
    <2>3. p[j - 1] = Usleep /\ p[j + 1] = Usleep /\ p[j + 2] = Command(Normal)
      BY <2>1, <1>4
    <2> QED
      BY <2>1, <2>2, <2>3 DEF SetAt, w
  <1>10. SetInPlace(p)
    BY <1>8, <1>9 DEF SetInPlace
  <1>11. Timed(p) /\ Asked(p)
    BY <1>7 DEF Timed, Asked
  <1>12. w + 2 \in 1 .. Len(p)
    BY <1>w, <1>3
  <1>13. Sets(p, {g})
    BY <1>3, <1>4, <1>7, <1>10, <1>11, <1>12 DEF Sets, Orderly
  <1> QED
    BY <1>13 DEF p, a, b, w, set_group

(* A command, a sleep and then only reads of what it asks for, and sleeps *)
LEMMA Asking ==
  ASSUME NEW c \in Commands, \A g \in Groups : c # <<"set", g>>,
         NEW q \in Seq(Instructions),
         \A j \in 1 .. Len(q) :
           q[j].op = "sleep" \/ (q[j].op = "read" /\ Asks(c, q[j].reg))
  PROVE  Displays(<<Command(c), Usleep>> \o q)
  <1> DEFINE p == <<Command(c), Usleep>> \o q
  <1>1. <<Command(c), Usleep>> \in Seq(Instructions) /\ Len(q) \in Nat
    BY InstructionsAre
  <1>2. p \in Seq(Instructions) /\ Len(p) = Len(q) + 2
    BY <1>1
  <1>3. p[1] = Command(c) /\ p[2] = Usleep
    BY <1>1
  <1>4. \A j \in 3 .. Len(p) : p[j] = q[j - 2] /\ j - 2 \in 1 .. Len(q)
    BY <1>1
  <1> HIDE DEF p
  <1>5. ASSUME NEW j \in 3 .. Len(p)
        PROVE  p[j].op = "sleep" \/ (p[j].op = "read" /\ Asks(c, p[j].reg))
    BY <1>4
  <1>6. \A j \in 1 .. Len(p) : j = 1 \/ j = 2 \/ j \in 3 .. Len(p)
    BY <1>1, <1>2
  <1>7. p[1].op = "out" /\ p[2].op = "sleep"
    BY <1>3 DEF Command, Out, Usleep
  <1>8. \A j \in 2 .. Len(p) : p[j].op \in {"sleep", "read"}
    BY <1>5, <1>7, <1>2, <1>1
  <1>9. \A j \in 1 .. Len(p) : p[j].op = "read" => j \in 3 .. Len(p)
    BY <1>6, <1>7
  <1>10. Timed(p)
    <2> SUFFICES ASSUME NEW j \in 1 .. Len(p), p[j].op = "read"
                 PROVE  j > 1 /\ p[j - 1].op \in {"sleep", "read"}
      BY DEF Timed
    <2>1. j > 1 /\ j - 1 \in 2 .. Len(p)
      BY <1>9, <1>2, <1>1
    <2> QED
      BY <2>1, <1>8
  <1>11. Asked(p)
    <2> SUFFICES ASSUME NEW j \in 1 .. Len(p), p[j].op = "read"
                 PROVE  1 \in 1 .. j - 1 /\ AskedAt(p, 1, j, c)
      BY DEF Asked
    <2>1. j \in 3 .. Len(p)
      BY <1>9
    <2>2. \A l \in 1 + 1 .. j - 1 : l \in 2 .. Len(p)
      BY <2>1, <1>1, <1>2
    <2>3. \A l \in 1 + 1 .. j - 1 : p[l].op # "out"
      BY <2>2, <1>8
    <2> QED
      BY <2>1, <2>3, <1>3, <1>5 DEF AskedAt
  <1>12. ASSUME NEW j \in 1 .. Len(p), NEW g \in Groups PROVE p[j] # Command(<<"set", g>>)
    <2>1. Command(<<"set", g>>).op = "out" /\ Command(<<"set", g>>).val = <<"set", g>>
          /\ Command(c).val = c
      BY DEF Command, Out
    <2>2. CASE j = 1
      BY <2>1, <2>2, <1>3
    <2>3. CASE j # 1
      BY <2>1, <2>3, <1>8, <1>2, <1>1
    <2> QED
      BY <2>2, <2>3
  <1> QED
    BY <1>2, <1>10, <1>11, <1>12 DEF Displays, Orderly, SetInPlace, p

LEMMA DisplayGroup == ASSUME NEW g \in Groups PROVE Displays(display_group(g))
  <1> DEFINE c == <<"get", g>>
             q == [i \in 1 .. Shown(g) |-> Read(TC_PARM_REG + i - 1)]
  <1>1. c \in Commands /\ \A h \in Groups : c # <<"set", h>>
    BY CommandsAre, CommandsDiffer
  <1>2. ASSUME NEW i \in 1 .. Shown(g), NEW r, r = TC_PARM_REG + i - 1
        PROVE  r \in Registers /\ r - TC_PARM_REG + 1 \in 1 .. Words(g)
    BY <1>2, WordsCount, CalibrationAssumption DEF TC_PARM_REG, Registers
  <1>3. Shown(g) \in Nat
    BY WordsCount, CalibrationAssumption
  <1>4. \A i \in 1 .. Shown(g) : Read(TC_PARM_REG + i - 1) \in Instructions
    BY <1>2, InstructionsAre
  <1>5. q \in Seq(Instructions) /\ Len(q) = Shown(g)
    BY <1>3, <1>4
  <1>6. ASSUME NEW j \in 1 .. Len(q) PROVE q[j].op = "read" /\ Asks(c, q[j].reg)
    <2>1. j \in 1 .. Shown(g) /\ q[j] = Read(TC_PARM_REG + j - 1)
      BY <1>5
    <2>2. q[j].op = "read" /\ q[j].reg = TC_PARM_REG + j - 1
      BY <2>1 DEF Read
    <2>4. q[j].reg - TC_PARM_REG + 1 \in 1 .. Words(g)
      BY <2>1, <2>2, <1>2
    <2>3. c[1] = "get" /\ c[2] = g
      OBVIOUS
    <2> HIDE DEF c, q
    <2> QED
      BY <2>2, <2>3, <2>4 DEF Asks
  <1> HIDE DEF c, q
  <1>7. Displays(<<Command(c), Usleep>> \o q)
    BY <1>1, <1>5, <1>6, Asking
  <1> QED
    BY <1>7 DEF display_group, c, q

(* The display is returned to normal. *)
LEMMA ToNormal == Displays(<<Command(Normal)>>) /\ Displays(<<Command(Normal), Usleep>>)
  <1>1. Normal \in Commands /\ \A g \in Groups : Normal # <<"set", g>>
    BY CommandsAre, CommandsDiffer
  <1>2. Command(Normal) \in Instructions /\ Usleep \in Instructions
    BY <1>1, InstructionsAre
  <1>3. Command(Normal).op = "out" /\ Usleep.op = "sleep" /\ Command(Normal).val = Normal
    BY DEF Command, Out, Usleep
  <1>4. \A g : Command(<<"set", g>>).op = "out" /\ Command(<<"set", g>>).val = <<"set", g>>
    BY DEF Command, Out
  <1>5. ASSUME NEW p \in Seq(Instructions),
               \A j \in 1 .. Len(p) : p[j] \in {Command(Normal), Usleep}
        PROVE  Displays(p)
    <2>1. \A j \in 1 .. Len(p), g \in Groups : p[j] # Command(<<"set", g>>)
      BY <1>1, <1>3, <1>4, <1>5
    <2>2. \A j \in 1 .. Len(p) : p[j].op # "read"
      BY <1>3, <1>5
    <2> QED
      BY <2>1, <2>2 DEF Displays, Orderly, Timed, Asked, SetInPlace
  <1>6. <<Command(Normal)>> \in Seq(Instructions) /\ <<Command(Normal), Usleep>> \in Seq(Instructions)
    BY <1>2
  <1>7. \A j \in 1 .. Len(<<Command(Normal)>>) : <<Command(Normal)>>[j] \in {Command(Normal), Usleep}
    OBVIOUS
  <1>8. \A j \in 1 .. Len(<<Command(Normal), Usleep>>) :
          <<Command(Normal), Usleep>>[j] \in {Command(Normal), Usleep}
    OBVIOUS
  <1> QED
    BY <1>5, <1>6, <1>7, <1>8

LEMMA Sampling ==
  ASSUME NEW m \in Modes, NEW rounds \in Nat, NEW n \in 1 .. 2 * NUM_TC_CHANNELS
  PROVE  Displays(<<Command(<<"display", m>>), Usleep>> \o Samples(rounds, n))
  <1> DEFINE c == <<"display", m>>
             q == Samples(rounds, n)
             N == rounds * (n + 1)
  <1>1. c \in Commands /\ \A h \in Groups : c # <<"set", h>>
    BY CommandsAre, CommandsDiffer
  <1>2. n \in Nat /\ NUM_TC_CHANNELS \in Nat
    BY CalibrationAssumption
  <1>3. N \in Nat
    BY <1>2
  <1> HIDE DEF N
  <1>4. ASSUME NEW k \in 1 .. N
        PROVE  (k - 1) % (n + 1) \in 0 .. n
    BY <1>2, <1>3
  <1>5. ASSUME NEW k \in 1 .. N, (k - 1) % (n + 1) # 0
        PROVE  TC_OFFSET_NORMAL + ((k - 1) % (n + 1)) - 1 \in Registers
    <2>1. \A i \in 1 .. n : TC_OFFSET_NORMAL + i - 1 \in Registers
      BY <1>2 DEF TC_OFFSET_NORMAL, Registers
    <2> DEFINE i == (k - 1) % (n + 1)
    <2>2. i \in 1 .. n
      BY <1>2, <1>4, <1>5
    <2> HIDE DEF i
    <2>3. TC_OFFSET_NORMAL + i - 1 \in Registers
      BY <2>1, <2>2
    <2> QED
      BY <2>3 DEF i
  <1>6. q = [k \in 1 .. N |->
               IF (k - 1) % (n + 1) = 0 THEN Usleep
               ELSE Read(TC_OFFSET_NORMAL + ((k - 1) % (n + 1)) - 1)]
    BY DEF Samples, N
  <1> HIDE DEF q
  <1>7. ASSUME NEW k \in 1 .. N
        PROVE  /\ q[k] \in Instructions
               /\ q[k].op = "sleep" \/ (q[k].op = "read" /\ Asks(c, q[k].reg))
    <2>1. CASE (k - 1) % (n + 1) = 0
      <3>1. q[k] = Usleep
        BY <2>1, <1>6
      <3> QED
        BY <3>1, InstructionsAre DEF Usleep
    <2>2. CASE (k - 1) % (n + 1) # 0
      <3>1. PICK r \in Registers : q[k] = Read(r)
        BY <2>2, <1>5, <1>6
      <3> QED
        BY <3>1, InstructionsAre DEF Read, Asks
    <2> QED
      BY <2>1, <2>2
  <1>8. q \in Seq(Instructions) /\ Len(q) = N
    <2>1. DOMAIN q = 1 .. N /\ q = [k \in 1 .. N |-> q[k]]
      BY <1>6
    <2> QED
      BY <2>1, <1>3, <1>7
  <1> HIDE DEF c
  <1>9. \A j \in 1 .. Len(q) : q[j].op = "sleep" \/ (q[j].op = "read" /\ Asks(c, q[j].reg))
    BY <1>7, <1>8
  <1>10. Displays(<<Command(c), Usleep>> \o q)
    BY <1>1, <1>8, <1>9, Asking
  <1> QED
    BY <1>10 DEF c, q

LEMMA SetCalParms == Sets(set_cal_parms, Groups)
  <1> DEFINE a1 == set_group("version")
             a2 == a1 \o set_group("date")
             a3 == a2 \o set_group("uv_intercept_lo")
             a4 == a3 \o set_group("uv_intercept_hi")
             a5 == a4 \o set_group("uv_slope_lo")
             a6 == a5 \o set_group("uv_slope_hi")
             a7 == a6 \o set_group("ua_slope")
             a8 == a7 \o set_group("tc_ohms")
             a9 == a8 \o set_group("cj_intercept")
             a10 == a9 \o set_group("cj_slope")
  <1>1. \A g \in Groups : Sets(set_group(g), {g})
    BY SetGroup
  <1>2. \A p, q, G, H : Sets(p, G) /\ Sets(q, H) => Sets(p \o q, G \cup H)
    BY SetsJoin
  <1>3. Sets(a1, {"version"})
    BY <1>1 DEF Groups
  <1>4. Sets(a2, {"version", "date"})
    <2>1. Sets(a2, {"version"} \cup {"date"})
      BY <1>1, <1>2, <1>3 DEF Groups
    <2> QED
      BY <2>1
  <1>5. Sets(a3, {"version", "date", "uv_intercept_lo"})
    <2>1. Sets(a3, {"version", "date"} \cup {"uv_intercept_lo"})
      BY <1>1, <1>2, <1>4 DEF Groups
    <2> QED
      BY <2>1
  <1>6. Sets(a4, {"version", "date", "uv_intercept_lo", "uv_intercept_hi"})
    <2>1. Sets(a4, {"version", "date", "uv_intercept_lo"} \cup {"uv_intercept_hi"})
      BY <1>1, <1>2, <1>5 DEF Groups
    <2> QED
      BY <2>1
  <1>7. Sets(a5, {"version", "date", "uv_intercept_lo", "uv_intercept_hi", "uv_slope_lo"})
    <2>1. Sets(a5, {"version", "date", "uv_intercept_lo", "uv_intercept_hi"} \cup {"uv_slope_lo"})
      BY <1>1, <1>2, <1>6 DEF Groups
    <2> QED
      BY <2>1
  <1>8. Sets(a6, {"version", "date", "uv_intercept_lo", "uv_intercept_hi", "uv_slope_lo", "uv_slope_hi"})
    <2>1. Sets(a6, {"version", "date", "uv_intercept_lo", "uv_intercept_hi", "uv_slope_lo"} \cup {"uv_slope_hi"})
      BY <1>1, <1>2, <1>7 DEF Groups
    <2> QED
      BY <2>1
  <1>9. Sets(a7, {"version", "date", "uv_intercept_lo", "uv_intercept_hi", "uv_slope_lo", "uv_slope_hi", "ua_slope"})
    <2>1. Sets(a7, {"version", "date", "uv_intercept_lo", "uv_intercept_hi", "uv_slope_lo", "uv_slope_hi"} \cup {"ua_slope"})
      BY <1>1, <1>2, <1>8 DEF Groups
    <2> QED
      BY <2>1
  <1>10. Sets(a8, {"version", "date", "uv_intercept_lo", "uv_intercept_hi", "uv_slope_lo", "uv_slope_hi", "ua_slope", "tc_ohms"})
    <2>1. Sets(a8, {"version", "date", "uv_intercept_lo", "uv_intercept_hi", "uv_slope_lo", "uv_slope_hi", "ua_slope"} \cup {"tc_ohms"})
      BY <1>1, <1>2, <1>9 DEF Groups
    <2> QED
      BY <2>1
  <1>11. Sets(a9, {"version", "date", "uv_intercept_lo", "uv_intercept_hi", "uv_slope_lo", "uv_slope_hi", "ua_slope", "tc_ohms", "cj_intercept"})
    <2>1. Sets(a9, {"version", "date", "uv_intercept_lo", "uv_intercept_hi", "uv_slope_lo", "uv_slope_hi", "ua_slope", "tc_ohms"} \cup {"cj_intercept"})
      BY <1>1, <1>2, <1>10 DEF Groups
    <2> QED
      BY <2>1
  <1>12. Sets(a10, {"version", "date", "uv_intercept_lo", "uv_intercept_hi", "uv_slope_lo", "uv_slope_hi", "ua_slope", "tc_ohms", "cj_intercept", "cj_slope"})
    <2>1. Sets(a10, {"version", "date", "uv_intercept_lo", "uv_intercept_hi", "uv_slope_lo", "uv_slope_hi", "ua_slope", "tc_ohms", "cj_intercept"} \cup {"cj_slope"})
      BY <1>1, <1>2, <1>11 DEF Groups
    <2> QED
      BY <2>1
  <1> QED
    BY <1>12 DEF set_cal_parms, Groups

LEMMA DisplayCalParms == Displays(display_cal_parms)
  <1> DEFINE a1 == display_group("version")
             a2 == a1 \o display_group("date")
             a3 == a2 \o display_group("uv_intercept_lo")
             a4 == a3 \o display_group("uv_intercept_hi")
             a5 == a4 \o display_group("uv_slope_lo")
             a6 == a5 \o display_group("uv_slope_hi")
             a7 == a6 \o display_group("ua_slope")
             a8 == a7 \o display_group("tc_ohms")
             a9 == a8 \o display_group("cj_intercept")
             a10 == a9 \o display_group("cj_slope")
  <1>1. \A g \in Groups : Displays(display_group(g))
    BY DisplayGroup
  <1>2. \A p, q : Displays(p) /\ Displays(q) => Displays(p \o q)
    BY DisplaysJoin
  <1>3. Displays(a1)
    BY <1>1 DEF Groups
  <1>4. Displays(a2)
    BY <1>1, <1>2, <1>3 DEF Groups
  <1>5. Displays(a3)
    BY <1>1, <1>2, <1>4 DEF Groups
  <1>6. Displays(a4)
    BY <1>1, <1>2, <1>5 DEF Groups
  <1>7. Displays(a5)
    BY <1>1, <1>2, <1>6 DEF Groups
  <1>8. Displays(a6)
    BY <1>1, <1>2, <1>7 DEF Groups
  <1>9. Displays(a7)
    BY <1>1, <1>2, <1>8 DEF Groups
  <1>10. Displays(a8)
    BY <1>1, <1>2, <1>9 DEF Groups
  <1>11. Displays(a9)
    BY <1>1, <1>2, <1>10 DEF Groups
  <1>12. Displays(a10)
    BY <1>1, <1>2, <1>11 DEF Groups
  <1>13. Displays(a10 \o <<Command(Normal)>>)
    BY <1>2, <1>12, ToNormal
  <1> QED
    BY <1>13 DEF display_cal_parms

LEMMA Measured ==
  ASSUME NEW m \in Modes, NEW n \in 1 .. 2 * NUM_TC_CHANNELS
  PROVE  Displays(measure(m, n))
  <1>1. Displays(<<Command(<<"display", m>>), Usleep>> \o Samples(Rounds, n))
    BY Sampling, CalibrationAssumption
  <1> QED
    BY <1>1, ToNormal, DisplaysJoin DEF measure

LEMMA Verified == Displays(Programs["verify"]) /\ Displays(Programs["no_table"])
  <1>1. 2 * NUM_TC_CHANNELS \in 1 .. 2 * NUM_TC_CHANNELS /\ "tc_uvolts" \in Modes
    BY CalibrationAssumption DEF Modes
  <1>2. Displays(verify_tc)
    BY <1>1, Sampling DEF verify_tc
  <1>3. Displays(display_cal_parms \o verify_tc)
    BY <1>2, DisplayCalParms, DisplaysJoin
  <1>4. Displays(TCVerify)
    BY <1>3, DisplayCalParms, DisplaysJoin DEF TCVerify
  <1> QED
    BY <1>4, DisplayCalParms DEF Programs, TCVerify_without_table

(* A program that sets, followed by one that displays *)
Continues(r, p) ==
  /\ Orderly(r) /\ Len(p) <= Len(r)
  /\ \A j \in 1 .. Len(p) : r[j] = p[j]

LEMMA ContinuesJoin ==
  ASSUME NEW p, p \in Seq(Instructions), NEW r, Continues(r, p), NEW q, Displays(q)
  PROVE  Continues(r \o q, p)
  <1>1. r \in Seq(Instructions) /\ q \in Seq(Instructions) /\ Orderly(r \o q)
    BY OrderlyJoin DEF Continues, Displays, Orderly
  <1>2. /\ Len(r \o q) = Len(r) + Len(q) /\ Len(r) \in Nat /\ Len(q) \in Nat
        /\ \A j \in 1 .. Len(r) : (r \o q)[j] = r[j]
    BY <1>1, Joined
  <1>3. Len(p) \in Nat /\ Len(p) <= Len(r) /\ \A j \in 1 .. Len(p) : r[j] = p[j]
    BY DEF Continues
  <1>4. Len(p) <= Len(r \o q) /\ \A j \in 1 .. Len(p) : (r \o q)[j] = p[j]
    BY <1>2, <1>3
  <1> QED
    BY <1>1, <1>4 DEF Continues

(* calibrate_tc is orderly and begins with setting all groups. *)
LEMMA Calibrated == Continues(Programs["calibrate"], set_cal_parms)
  <1> DEFINE p == set_cal_parms
  <1>1. Orderly(p) /\ p \in Seq(Instructions)
    BY SetCalParms DEF Sets, Orderly
  <1>2. Continues(p, p)
    BY <1>1 DEF Continues
  <1>3. /\ 2 * NUM_TC_CHANNELS \in 1 .. 2 * NUM_TC_CHANNELS /\ 2 \in 1 .. 2 * NUM_TC_CHANNELS
        /\ "tc_uvolts" \in Modes /\ "tc_ohms" \in Modes /\ "cj_uvolts" \in Modes
    BY CalibrationAssumption DEF Modes
  <1>4. /\ Displays(calibrate_tc_slope_and_intercept)
        /\ Displays(calculate_tc_ohms) /\ Displays(calculate_cj_parms)
    BY <1>3, Measured DEF calibrate_tc_slope_and_intercept, calculate_tc_ohms, calculate_cj_parms
  <1> HIDE DEF p
  <1>5. Continues(p \o display_cal_parms, p)
    BY <1>1, <1>2, DisplayCalParms, ContinuesJoin
  <1>6. Continues(p \o display_cal_parms \o calibrate_tc_slope_and_intercept, p)
    BY <1>1, <1>4, <1>5, ContinuesJoin
  <1>7. Continues(p \o display_cal_parms \o calibrate_tc_slope_and_intercept
                    \o calculate_tc_ohms, p)
    BY <1>1, <1>4, <1>6, ContinuesJoin
  <1>8. Continues(p \o display_cal_parms \o calibrate_tc_slope_and_intercept
                    \o calculate_tc_ohms \o calculate_cj_parms, p)
    BY <1>1, <1>4, <1>7, ContinuesJoin
  <1> QED
    BY <1>8 DEF Programs, calibrate_tc, p

(* What the invariant needs to know of the program that runs *)
LEMMA ProgramOrderly ==
  ASSUME test \in DOMAIN Programs
  PROVE  Orderly(Program) /\ Program \in Seq(Instructions) /\ Len(Program) \in Nat
  <1>1. DOMAIN Programs = {"calibrate", "verify", "no_table"}
    BY DEF Programs
  <1>2. Orderly(Program)
    BY <1>1, Verified, Calibrated DEF Displays, Continues, Program
  <1> QED
    BY <1>2 DEF Orderly

----------------------------------------------------------------------------
(* What the steps rely on *)

(* The shortest sleep is long enough for a command and its answer, and for *)
(* a cycle more for each frame lost.                                       *)
SleepsSuffice == SleepCycles >= MaxLost + 3

LEMMA InstructionKinds ==
  ASSUME test \in DOMAIN Programs, NEW j \in 1 .. Len(Program)
  PROVE  LET x == Program[j]
         IN /\ x.op \in {"out", "read", "sleep"}
            /\ x.op \in {"out", "read"} => x.reg \in Registers
            /\ x.op = "out" /\ x.reg = TC_OFFSET_NORMAL => x.val \in Commands /\ x = Command(x.val)
  <1> DEFINE x == Program[j]
  <1>1. x \in Instructions
    BY ProgramOrderly
  <1> HIDE DEF x
  <1>2. CASE x = Usleep
    BY <1>2 DEF Usleep, x
  <1>3. CASE \E r \in Registers : x = Read(r)
    BY <1>3 DEF Read, x
  <1>4. CASE \E c \in Commands : x = Command(c)
    <2>1. TC_OFFSET_NORMAL \in Registers
      BY CalibrationAssumption DEF Registers, TC_OFFSET_NORMAL
    <2> QED
      BY <1>4, <2>1 DEF Command, Out, x
  <1>5. CASE x \in ParameterWrites
    <2>1. PICK g \in Groups, i \in 1 .. NUM_TC_CHANNELS :
            x = Out(TC_PARM_REG + i - 1, Parameter("run", g, i))
      BY <1>5 DEF ParameterWrites
    <2>2. x.op = "out" /\ x.reg = TC_PARM_REG + i - 1
      BY <2>1 DEF Out
    <2>3. TC_PARM_REG + i - 1 \in Registers /\ TC_PARM_REG + i - 1 # TC_OFFSET_NORMAL
      BY CalibrationAssumption DEF TC_PARM_REG, Registers, TC_OFFSET_NORMAL
    <2> QED
      BY <2>2, <2>3 DEF x
  <1> QED
    BY <1>1, <1>2, <1>3, <1>4, <1>5 DEF Instructions

LEMMA FramesDiffer ==
  /\ <<"lost">> # NoFrame /\ <<"lost">>[1] = "lost"
  /\ \A w : /\ <<"back", w>> # NoFrame /\ <<"back", w>> # <<"lost">>
            /\ <<"back", w>>[1] = "back" /\ <<"back", w>>[2] = w
  BY DEF NoFrame

(* With a set command in the image the registers hold the group. *)
LEMMA RegistersHold ==
  ASSUME CalibrationInv, NEW g \in Groups, output[TC_OFFSET_NORMAL] = <<"set", g>>
  PROVE  Stored(output)[g] = OfRun[g]
  <1> DEFINE w == Words(g)
  <1>1. w \in 1 .. NUM_TC_CHANNELS /\ NUM_TC_CHANNELS \in Nat
    BY WordsCount, CalibrationAssumption
  <1>2. test \in DOMAIN Programs /\ pc \in 1 .. Len(Program) + 1
    BY DEF CalibrationInv, CalibrationTypes, CalibrationTypeOK, Program
  <1>3. PICK j \in 1 .. Len(Program) : Program[j] = Command(<<"set", g>>) /\ pc \in {j + 1, j + 2}
    BY DEF CalibrationInv, SetInv
  <1>4. SetAt(Program, j, g) /\ Len(Program) \in Nat
    BY <1>2, <1>3, ProgramOrderly DEF Orderly, SetInPlace
  <1> HIDE DEF w
  <1>5. /\ j > w + 1 /\ Program[j - 1] = Usleep /\ Program[j + 1] = Usleep
        /\ \A i \in 1 .. w :
             Program[j - w - 2 + i] = Out(TC_PARM_REG + i - 1, Parameter("run", g, i))
    BY <1>4 DEF SetAt, w
  <1>6. ASSUME NEW i \in 1 .. w
        PROVE  output[TC_PARM_REG + i - 1] = Parameter("run", g, i)
    <2> DEFINE k == j - w - 2 + i
    <2>1. k \in 1 .. pc - 1
      BY <1>1, <1>2, <1>3, <1>4, <1>5
    <2>2. Program[k].op = "out" /\ Program[k].reg = TC_PARM_REG + i - 1
          /\ Program[k].val = Parameter("run", g, i)
      <3>1. Program[k] = Out(TC_PARM_REG + i - 1, Parameter("run", g, i))
        BY <1>5
      <3> HIDE DEF k
      <3> QED
        BY <3>1 DEF Out
    <2>3. ASSUME NEW l \in k + 1 .. pc - 1, Program[l].op = "out"
          PROVE  Program[l].reg # TC_PARM_REG + i - 1
      <3>1. CASE l = j
        <4>1. Program[l].reg = 0
          BY <3>1, <1>3 DEF Command, Out, TC_OFFSET_NORMAL
        <4> QED
          BY <4>1, <1>1 DEF TC_PARM_REG
      <3>2. l # j - 1 /\ l # j + 1
        BY <1>5, <2>3 DEF Usleep
      <3>3. CASE l < j - 1
        <4> DEFINE m == l - j + w + 2
        <4>1. m \in 1 .. w /\ m > i /\ l = j - w - 2 + m
          <5>1. l \in Int /\ j \in Int /\ i \in 1 .. w /\ w \in Int /\ l >= j - w - 2 + i + 1
            BY <1>1, <1>2, <1>3, <1>4
          <5> QED
            BY <5>1, <3>3
        <4> HIDE DEF m
        <4>2. Program[l] = Out(TC_PARM_REG + m - 1, Parameter("run", g, m))
          BY <4>1, <1>5
        <4>3. Program[l].reg = TC_PARM_REG + m - 1
          BY <4>2 DEF Out
        <4> QED
          BY <4>1, <4>3, <1>1 DEF TC_PARM_REG
      <3> QED
        BY <3>1, <3>2, <3>3, <1>1, <1>2, <1>3, <1>4
    <2> HIDE DEF k
    <2>4. LastWrite(k)
      BY <2>2, <2>3 DEF LastWrite
    <2> QED
      BY <2>1, <2>2, <2>4 DEF CalibrationInv, OutputInv
  <1>7. Stored(output)[g] = [i \in 1 .. w |-> output[TC_PARM_REG + i - 1]]
    BY DEF Stored, w
  <1>8. OfRun[g] = [i \in 1 .. w |-> Parameter("run", g, i)]
    BY DEF OfRun, w
  <1> QED
    BY <1>6, <1>7, <1>8

(* Giving the card the image changes it to what it is asked for, and only  *)
(* once.                                                                   *)
LEMMA GivesCard ==
  ASSUME CalibrationInv, GiveCard, UNCHANGED host
  PROVE  /\ Given' /\ Showing(output)' = Showing(output) /\ show' = Showing(output)
         /\ store' = [g \in Groups |-> store'[g]]
         /\ \A g \in Groups : store'[g] \in {store[g], OfRun[g]}
         /\ (Given \/ test # "calibrate" => store' = store)
  <1>1. /\ output' = output /\ command' = output[TC_OFFSET_NORMAL]
        /\ store' = Stored(output) /\ show' = Showing(output)
    BY DEF GiveCard, host
  <1>2. store = [g \in Groups |-> store[g]]
    BY DEF CalibrationInv, CalibrationTypes
  <1>3. \A g \in Groups : store'[g] = IF output[TC_OFFSET_NORMAL] = <<"set", g>>
                                      THEN [i \in 1 .. Words(g) |-> output[TC_PARM_REG + i - 1]]
                                      ELSE store[g]
    BY <1>1 DEF Stored
  <1>4. store' = [g \in Groups |-> store'[g]]
    BY <1>1 DEF Stored
  <1>5. store' = Stored(output)'
    <2>1. Stored(output)' = [g \in Groups |->
                               IF output[TC_OFFSET_NORMAL] = <<"set", g>>
                               THEN [i \in 1 .. Words(g) |-> output[TC_PARM_REG + i - 1]]
                               ELSE store'[g]]
      BY <1>1 DEF Stored
    <2>2. \A g \in Groups : store'[g] = Stored(output)'[g]
      BY <1>3, <2>1
    <2> QED
      BY <1>4, <2>1, <2>2
  <1>6. \A g \in Groups : store'[g] \in {store[g], OfRun[g]}
    BY <1>1, <1>3, RegistersHold
  <1>7. Showing(output)' = Showing(output)
    <2>1. CASE \E g \in Groups : output[TC_OFFSET_NORMAL] = <<"set", g>>
      <3>1. output[TC_OFFSET_NORMAL][1] = "set"
        BY <2>1
      <3>2. Showing(output) = [r \in Registers |-> Normal]
        BY <3>1 DEF Showing
      <3>3. Showing(output)' = [r \in Registers |-> Normal]
        BY <3>1, <1>1 DEF Showing
      <3> QED
        BY <3>2, <3>3
    <2>2. CASE \A g \in Groups : output[TC_OFFSET_NORMAL] # <<"set", g>>
      <3>1. store' = store
        BY <2>2, <1>2, <1>3, <1>4
      <3> QED
        BY <3>1, <1>1 DEF Showing
    <2> QED
      BY <2>1, <2>2
  <1>8. Given'
    BY <1>1, <1>5, <1>7 DEF Given
  <1>9. ASSUME test # "calibrate" PROVE store' = store
    <2>0. test \in {"verify", "no_table"}
      BY <1>9 DEF CalibrationInv, CalibrationTypes, CalibrationTypeOK, Programs
    <2>1. ASSUME NEW g \in Groups PROVE output[TC_OFFSET_NORMAL] # <<"set", g>>
      BY <2>0, Verified DEF CalibrationInv, SetInv, Program, Displays
    <2> QED
      BY <2>1, <1>2, <1>3, <1>4
  <1> QED
    BY <1>1, <1>4, <1>6, <1>7, <1>8, <1>9 DEF Given

----------------------------------------------------------------------------
(* The steps *)

LEMMA CalibrationStarts == CalibrationInit => CalibrationInv
  <1> SUFFICES ASSUME CalibrationInit PROVE CalibrationInv
    OBVIOUS
  <1> USE DEF CalibrationInit
  <1>1. test \in DOMAIN Programs /\ Len(Program) \in Nat /\ TC_OFFSET_NORMAL \in Registers
    BY ProgramOrderly, CalibrationAssumption DEF TC_OFFSET_NORMAL, Registers
  <1>2. output[TC_OFFSET_NORMAL] = Normal /\ DOMAIN output = Registers
    BY <1>1
  <1>3. CalibrationTypes
    <2>1. CalibrationTypeOK
      BY <1>1, <1>2, CommandsAre, CalibrationAssumption DEF CalibrationTypeOK, Program, Flash
    <2>2. store = [g \in Groups |-> store[g]]
      BY DEF Flash
    <2> QED
      BY <2>1, <2>2 DEF CalibrationTypes
  <1>4. DeliveryInv
    BY CalibrationAssumption DEF DeliveryInv, UnderWay
  <1>5. SettledInv /\ OutputInv
    BY DEF SettledInv, OutputInv
  <1>6. SetInv
    BY <1>2, CommandsDiffer DEF SetInv
  <1>7. StoreInv
    <2>1. ASSUME NEW j \in 1 .. Len(Program), j + 1 < pc PROVE FALSE
      BY <2>1, <1>1
    <2> QED
      BY <2>1 DEF StoreInv, ParametersWhole
  <1>8. ReadInv
    BY DEF ReadInv
  <1> QED
    BY <1>3, <1>4, <1>5, <1>6, <1>7, <1>8 DEF CalibrationInv

(* Where the test is *)
LEMMA Here ==
  ASSUME CalibrationInv
  PROVE  /\ test \in DOMAIN Programs /\ Orderly(Program) /\ Len(Program) \in Nat
         /\ pc \in Nat /\ pc \in 1 .. Len(Program) + 1
         /\ slept \in 0 .. SleepCycles /\ lost \in 0 .. MaxLost
         /\ SleepCycles \in Nat /\ MaxLost \in Nat
         /\ UnderWay \in {0, 1}
         /\ \A op : At(op) <=> running /\ pc <= Len(Program) /\ Program[pc].op = op
  <1>1. test \in DOMAIN Programs /\ pc \in 1 .. Len(Program) + 1
        /\ slept \in 0 .. SleepCycles /\ lost \in 0 .. MaxLost
    BY DEF CalibrationInv, CalibrationTypes, CalibrationTypeOK, Program
  <1>2. Orderly(Program) /\ Len(Program) \in Nat
    BY <1>1, ProgramOrderly
  <1> QED
    BY <1>1, <1>2, CalibrationAssumption DEF UnderWay, At, Program

(* Shorter than a sleep, a frame or none under way: the deliveries start anew. *)
LEMMA Unslept ==
  ASSUME slept = 0, lost \in Nat PROVE DeliveryInv
  BY DEF DeliveryInv, UnderWay

LEMMA SetAoutKeeps == ASSUME CalibrationInv, SetAout PROVE CalibrationInv'
  <1>1. /\ pc \in 1 .. Len(Program) /\ Program[pc].op = "out" /\ pc' = pc + 1 /\ pc \in Nat
        /\ output' = [output EXCEPT ![Program[pc].reg] = Program[pc].val]
        /\ slept = 0 /\ slept' = 0
        /\ UNCHANGED <<test, running, slept, input, frame, lost, command, store, show>>
        /\ last' = NoRead
    BY Here DEF SetAout, Instruction, Program, card, CalibrationInv, CalibrationTypes
  <1>2. Program' = Program
    BY <1>1 DEF Program
  <1>3. DOMAIN output = Registers /\ TC_OFFSET_NORMAL \in Registers
    BY CalibrationAssumption
       DEF CalibrationInv, CalibrationTypes, CalibrationTypeOK, TC_OFFSET_NORMAL, Registers
  <1>4. Program[pc].reg \in Registers /\ (Program[pc].reg = TC_OFFSET_NORMAL => Program[pc].val \in Commands)
    BY <1>1, Here, InstructionKinds
  <1>5. /\ DOMAIN output' = Registers /\ output'[Program[pc].reg] = Program[pc].val
        /\ \A r \in Registers : r # Program[pc].reg => output'[r] = output[r]
    BY <1>1, <1>3, <1>4
  <1>6. CalibrationTypes'
    <2>1. CalibrationTypeOK'
      <3>1. output'[TC_OFFSET_NORMAL] \in Commands
        BY <1>3, <1>4, <1>5 DEF CalibrationInv, CalibrationTypes, CalibrationTypeOK
      <3>2. pc' \in 1 .. Len(Program) + 1
        BY <1>1, Here
      <3> QED
        BY <1>1, <1>2, <1>5, <3>1, <3>2
           DEF CalibrationInv, CalibrationTypes, CalibrationTypeOK, Program
    <2> QED
      BY <1>1, <2>1 DEF CalibrationInv, CalibrationTypes
  <1>7. DeliveryInv'
    BY <1>1, Here, Unslept DEF DeliveryInv, UnderWay
  <1>8. SettledInv'
    BY <1>1, <1>2 DEF SettledInv
  <1>9. OutputInv'
    <2> SUFFICES ASSUME NEW k \in 1 .. pc, LastWrite(k)'
                 PROVE  output'[Program[k].reg] = Program[k].val
      BY <1>1, <1>2 DEF OutputInv
    <2>1. /\ Program[k].op = "out"
          /\ \A l \in k + 1 .. pc : Program[l].op = "out" => Program[l].reg # Program[k].reg
      BY <1>1, <1>2 DEF LastWrite
    <2>2. CASE k = pc
      BY <2>2, <1>5
    <2>3. CASE k # pc
      <3>1. k \in 1 .. pc - 1 /\ LastWrite(k)
        BY <2>1, <2>3, <1>1 DEF LastWrite
      <3>2. output[Program[k].reg] = Program[k].val
        BY <3>1 DEF CalibrationInv, OutputInv
      <3>3. Program[pc].reg # Program[k].reg
        BY <2>1, <2>3, <1>1
      <3>4. Program[k].reg \in Registers
        BY <2>1, <3>1, <1>1, Here, InstructionKinds
      <3> QED
        BY <3>2, <3>3, <3>4, <1>5
    <2> QED
      BY <2>2, <2>3
  <1>10. SetInv'
    <2> SUFFICES ASSUME NEW g \in Groups, output'[TC_OFFSET_NORMAL] = <<"set", g>>
                 PROVE  \E j \in 1 .. Len(Program) :
                          Program[j] = Command(<<"set", g>>) /\ pc' \in {j + 1, j + 2}
      BY <1>2 DEF SetInv
    <2>1. CASE Program[pc].reg = TC_OFFSET_NORMAL
      <3>1. Program[pc] = Command(<<"set", g>>)
        <4>1. Program[pc].val = <<"set", g>>
          BY <2>1, <1>5
        <4> QED
          BY <4>1, <2>1, <1>1, Here, InstructionKinds
      <3> QED
        BY <3>1, <1>1
    <2>2. CASE Program[pc].reg # TC_OFFSET_NORMAL
      <3>1. output[TC_OFFSET_NORMAL] = <<"set", g>>
        BY <2>2, <1>3, <1>5
      <3>2. PICK j \in 1 .. Len(Program) :
              Program[j] = Command(<<"set", g>>) /\ pc \in {j + 1, j + 2}
        BY <3>1 DEF CalibrationInv, SetInv
      <3>3. Program[j + 1] = Usleep /\ Program[j + 2] = Command(Normal)
        BY <3>2, Here DEF Orderly, SetInPlace, SetAt
      <3> QED
        BY <3>2, <3>3, <2>2, <1>1 DEF Usleep, Command, Out
    <2> QED
      BY <2>1, <2>2
  <1>11. StoreInv'
    <2>1. ASSUME NEW j \in 1 .. Len(Program), NEW g \in Groups,
                 Program[j] = Command(<<"set", g>>), j + 1 < pc'
          PROVE  store[g] = OfRun[g]
      <3>1. Program[j + 1] = Usleep
        BY <2>1, Here DEF Orderly, SetInPlace, SetAt
      <3>2. j + 1 # pc
        BY <3>1, <1>1 DEF Usleep
      <3>3. j + 1 < pc
        BY <3>2, <2>1, <1>1
      <3> QED
        BY <3>3, <2>1 DEF CalibrationInv, StoreInv
    <2>2. ParametersWhole' /\ (test # "calibrate" => store' = Flash)
      BY <1>1 DEF CalibrationInv, StoreInv, ParametersWhole
    <2> QED
      BY <2>1, <2>2, <1>1, <1>2 DEF StoreInv
  <1>12. ReadInv'
    BY <1>1 DEF ReadInv
  <1> QED
    BY <1>6, <1>7, <1>8, <1>9, <1>10, <1>11, <1>12 DEF CalibrationInv

LEMMA GetAinKeeps == ASSUME CalibrationInv, GetAin PROVE CalibrationInv'
  <1>1. /\ pc \in 1 .. Len(Program) /\ Program[pc].op = "read" /\ pc' = pc + 1 /\ pc \in Nat
        /\ last' = <<output[TC_OFFSET_NORMAL], Program[pc].reg, input[Program[pc].reg]>>
        /\ slept = 0
        /\ UNCHANGED <<test, running, slept, output, input, frame, lost, command, store, show>>
    BY Here DEF GetAin, Instruction, Program, card, CalibrationInv, CalibrationTypes
  <1>2. Program' = Program
    BY <1>1 DEF Program
  <1>3. Settled
    <2>1. pc > 1 /\ Program[pc - 1].op \in {"sleep", "read"}
      BY <1>1, Here DEF Orderly, Timed
    <2> QED
      BY <2>1 DEF CalibrationInv, SettledInv
  <1>4. CalibrationTypes'
    <2>1. pc' \in 1 .. Len(Program) + 1
      BY <1>1, Here
    <2>2. CalibrationTypeOK'
      BY <1>1, <1>2, <2>1 DEF CalibrationInv, CalibrationTypes, CalibrationTypeOK, Program
    <2> QED
      BY <1>1, <2>2 DEF CalibrationInv, CalibrationTypes
  <1>5. DeliveryInv'
    BY <1>1, Here, Unslept DEF DeliveryInv, UnderWay
  <1>6. SettledInv'
    <2>1. Settled'
      BY <1>1, <1>3 DEF Settled, Given, Showing, Stored
    <2> QED
      BY <2>1 DEF SettledInv
  <1>7. OutputInv'
    <2> SUFFICES ASSUME NEW k \in 1 .. pc, LastWrite(k)'
                 PROVE  output[Program[k].reg] = Program[k].val
      BY <1>1, <1>2 DEF OutputInv
    <2>1. /\ Program[k].op = "out"
          /\ \A l \in k + 1 .. pc : Program[l].op = "out" => Program[l].reg # Program[k].reg
      BY <1>1, <1>2 DEF LastWrite
    <2>2. k \in 1 .. pc - 1 /\ LastWrite(k)
      BY <2>1, <1>1 DEF LastWrite
    <2> QED
      BY <2>2 DEF CalibrationInv, OutputInv
  <1>8. ASSUME NEW j \in 1 .. Len(Program), NEW g \in Groups, Program[j] = Command(<<"set", g>>)
        PROVE  pc # j + 1 /\ pc # j + 2
    <2>1. Program[j + 1] = Usleep /\ Program[j + 2] = Command(Normal)
      BY <1>8, Here DEF Orderly, SetInPlace, SetAt
    <2> QED
      BY <2>1, <1>1 DEF Usleep, Command, Out
  <1>9. SetInv'
    <2> SUFFICES ASSUME NEW g \in Groups, output[TC_OFFSET_NORMAL] = <<"set", g>> PROVE FALSE
      BY <1>1 DEF SetInv
    <2> QED
      BY <1>8 DEF CalibrationInv, SetInv
  <1>10. StoreInv'
    <2>1. ASSUME NEW j \in 1 .. Len(Program), NEW g \in Groups,
                 Program[j] = Command(<<"set", g>>), j + 1 < pc'
          PROVE  store[g] = OfRun[g]
      <3>1. j + 1 < pc
        BY <2>1, <1>1, <1>8
      <3> QED
        BY <3>1, <2>1 DEF CalibrationInv, StoreInv
    <2>2. ParametersWhole' /\ (test # "calibrate" => store' = Flash)
      BY <1>1 DEF CalibrationInv, StoreInv, ParametersWhole
    <2> QED
      BY <2>1, <2>2, <1>1, <1>2 DEF StoreInv
  <1>11. ReadInv'
    <2>1. input = Showing(output) /\ Showing(output)' = Showing(output)
      BY <1>1, <1>3 DEF Settled, Showing
    <2>2. pc' > 1 /\ pc' - 1 = pc
      BY <1>1
    <2> QED
      BY <1>1, <1>2, <2>1, <2>2 DEF ReadInv
  <1> QED
    BY <1>4, <1>5, <1>6, <1>7, <1>9, <1>10, <1>11 DEF CalibrationInv

LEMMA UsleepKeeps == ASSUME CalibrationInv, UsleepReturns, SleepsSuffice PROVE CalibrationInv'
  <1>1. /\ pc \in 1 .. Len(Program) /\ Program[pc].op = "sleep" /\ pc' = pc + 1 /\ pc \in Nat
        /\ slept = SleepCycles /\ slept' = 0 /\ lost' = 0 /\ last' = NoRead
        /\ UNCHANGED <<test, running, output, input, frame, command, store, show>>
    BY Here DEF UsleepReturns, card
  <1>2. Program' = Program
    BY <1>1 DEF Program
  <1>3. Settled
    BY <1>1, Here DEF CalibrationInv, DeliveryInv, SleepsSuffice
  <1>4. CalibrationTypes'
    <2>1. pc' \in 1 .. Len(Program) + 1 /\ slept' \in 0 .. SleepCycles /\ lost' \in 0 .. MaxLost
      BY <1>1, Here
    <2>2. CalibrationTypeOK'
      BY <1>1, <1>2, <2>1 DEF CalibrationInv, CalibrationTypes, CalibrationTypeOK, Program
    <2> QED
      BY <1>1, <2>2 DEF CalibrationInv, CalibrationTypes
  <1>5. DeliveryInv'
    BY <1>1 DEF DeliveryInv, UnderWay
  <1>6. SettledInv'
    <2>1. Settled'
      BY <1>1, <1>3 DEF Settled, Given, Showing, Stored
    <2> QED
      BY <2>1 DEF SettledInv
  <1>7. OutputInv'
    <2> SUFFICES ASSUME NEW k \in 1 .. pc, LastWrite(k)'
                 PROVE  output[Program[k].reg] = Program[k].val
      BY <1>1, <1>2 DEF OutputInv
    <2>1. /\ Program[k].op = "out"
          /\ \A l \in k + 1 .. pc : Program[l].op = "out" => Program[l].reg # Program[k].reg
      BY <1>1, <1>2 DEF LastWrite
    <2>2. k \in 1 .. pc - 1 /\ LastWrite(k)
      BY <2>1, <1>1 DEF LastWrite
    <2> QED
      BY <2>2 DEF CalibrationInv, OutputInv
  <1>8. SetInv'
    <2> SUFFICES ASSUME NEW g \in Groups, output[TC_OFFSET_NORMAL] = <<"set", g>>
                 PROVE  \E j \in 1 .. Len(Program) :
                          Program[j] = Command(<<"set", g>>) /\ pc' \in {j + 1, j + 2}
      BY <1>1, <1>2 DEF SetInv
    <2>1. PICK j \in 1 .. Len(Program) :
            Program[j] = Command(<<"set", g>>) /\ pc \in {j + 1, j + 2}
      BY DEF CalibrationInv, SetInv
    <2>2. Program[j + 2] = Command(Normal)
      BY <2>1, Here DEF Orderly, SetInPlace, SetAt
    <2>3. pc = j + 1
      BY <2>1, <2>2, <1>1 DEF Command, Out
    <2> QED
      BY <2>1, <2>3, <1>1
  <1>9. StoreInv'
    <2>1. ASSUME NEW j \in 1 .. Len(Program), NEW g \in Groups,
                 Program[j] = Command(<<"set", g>>), j + 1 < pc'
          PROVE  store[g] = OfRun[g]
      <3>1. CASE j + 1 < pc
        BY <3>1, <2>1 DEF CalibrationInv, StoreInv
      <3>2. CASE j + 1 = pc
        <4>1. Program[j].op = "out" /\ Program[j].reg = TC_OFFSET_NORMAL
              /\ Program[j].val = <<"set", g>>
          BY <2>1 DEF Command, Out
        <4>2. j \in 1 .. pc - 1 /\ LastWrite(j)
          BY <3>2, <4>1, <1>1 DEF LastWrite
        <4>3. output[TC_OFFSET_NORMAL] = <<"set", g>>
          BY <4>1, <4>2 DEF CalibrationInv, OutputInv
        <4> QED
          BY <4>3, <1>3, RegistersHold DEF Settled, Given
      <3> QED
        BY <3>1, <3>2, <2>1, <1>1
    <2>2. ParametersWhole' /\ (test # "calibrate" => store' = Flash)
      BY <1>1 DEF CalibrationInv, StoreInv, ParametersWhole
    <2> QED
      BY <2>1, <2>2, <1>1, <1>2 DEF StoreInv
  <1>10. ReadInv'
    BY <1>1 DEF ReadInv
  <1> QED
    BY <1>4, <1>5, <1>6, <1>7, <1>8, <1>9, <1>10 DEF CalibrationInv

(* The cyclic thread moves neither the test nor the output image. *)
LEMMA FrameKeeps ==
  ASSUME CalibrationInv, UNCHANGED <<test, pc, output, last>>, Showing(output)' = Showing(output)
  PROVE  OutputInv' /\ SetInv' /\ ReadInv'
  <1>1. Program' = Program
    BY DEF Program
  <1>2. OutputInv'
    BY <1>1 DEF CalibrationInv, OutputInv, LastWrite
  <1>3. SetInv'
    BY <1>1 DEF CalibrationInv, SetInv
  <1>4. ReadInv'
    BY <1>1 DEF CalibrationInv, ReadInv
  <1> QED
    BY <1>2, <1>3, <1>4

LEMMA ReceiveKeeps == ASSUME CalibrationInv, Receive PROVE CalibrationInv'
  <1>1. /\ frame # NoFrame /\ frame' = NoFrame
        /\ input' = IF frame[1] = "lost" THEN input ELSE frame[2]
        /\ slept' = IF At("sleep") /\ slept < SleepCycles THEN slept + 1 ELSE slept
        /\ UNCHANGED <<test, running, pc, output, last, lost, command, store, show>>
    BY DEF Receive, card
  <1>2. Program' = Program /\ Showing(output)' = Showing(output)
        /\ Stored(output)' = Stored(output)
        /\ \A op : At(op)' <=> At(op)
    BY <1>1 DEF Program, Showing, Stored, At
  <1>3. /\ test \in DOMAIN Programs /\ slept \in 0 .. SleepCycles /\ SleepCycles \in Nat
        /\ lost \in Nat
    BY Here
  <1>4. slept' \in 0 .. SleepCycles /\ slept' <= slept + 1 /\ slept' \in Nat /\ slept \in Nat
    BY <1>1, <1>3
  <1>5. UnderWay = 1 /\ UnderWay' = 0
    BY <1>1 DEF UnderWay
  <1>6. Given' <=> Given
    BY <1>1, <1>2 DEF Given
  <1>7. Answered => Settled'
    <2> SUFFICES ASSUME Answered PROVE Settled'
      OBVIOUS
    <2>1. frame[1] # "lost" /\ frame[2] = Showing(output)
      BY FramesDiffer DEF Answered
    <2> QED
      BY <1>1, <1>2, <1>6, <2>1 DEF Answered, Settled
  <1>8. Settled => Settled'
    <2> SUFFICES ASSUME Settled PROVE Settled'
      OBVIOUS
    <2>1. frame = <<"lost">> \/ frame = <<"back", Showing(output)>>
      BY <1>1 DEF Settled
    <2>2. input' = Showing(output)
      BY <1>1, <2>1, FramesDiffer DEF Settled
    <2> QED
      BY <1>1, <1>2, <1>6, <2>2 DEF Settled
  <1>9. CalibrationTypes'
    <2>1. DOMAIN input' = Registers
      BY <1>1, FramesDiffer DEF CalibrationInv, CalibrationTypes, CalibrationTypeOK
    <2>2. CalibrationTypeOK'
      BY <1>1, <1>4, <2>1 DEF CalibrationInv, CalibrationTypes, CalibrationTypeOK
    <2>3. ~ At("sleep")' => slept' = 0
      BY <1>1, <1>2 DEF CalibrationInv, CalibrationTypes
    <2> QED
      BY <1>1, <2>2, <2>3 DEF CalibrationInv, CalibrationTypes
  <1>10. DeliveryInv'
    <2>1. Given' \/ slept' + UnderWay' <= lost' + 1
      BY <1>1, <1>3, <1>4, <1>5, <1>6 DEF CalibrationInv, DeliveryInv
    <2>2. Settled' \/ slept' + UnderWay' <= lost' + 2
      BY <1>1, <1>3, <1>4, <1>5, <1>7, <1>8 DEF CalibrationInv, DeliveryInv
    <2>3. Settled' \/ slept' <= lost' + 2
      BY <2>2, <1>4, <1>5
    <2> QED
      BY <2>1, <2>2, <2>3 DEF DeliveryInv
  <1>11. SettledInv'
    BY <1>1, <1>2, <1>8 DEF CalibrationInv, SettledInv
  <1>12. StoreInv'
    BY <1>1, <1>2 DEF CalibrationInv, StoreInv, ParametersWhole
  <1> QED
    BY <1>1, <1>2, <1>9, <1>10, <1>11, <1>12, FrameKeeps DEF CalibrationInv

(* What the card stores when it is given the image *)
LEMMA StoreKeeps ==
  ASSUME CalibrationInv, UNCHANGED host,
         \A g \in Groups : store'[g] \in {store[g], OfRun[g]},
         test # "calibrate" => store' = store
  PROVE  StoreInv'
  <1>1. UNCHANGED <<test, pc>> /\ Program' = Program
    BY DEF host, Program
  <1>2. ParametersWhole'
    BY DEF CalibrationInv, StoreInv, ParametersWhole
  <1>3. ASSUME NEW j \in 1 .. Len(Program), NEW g \in Groups,
               Program[j] = Command(<<"set", g>>), j + 1 < pc
        PROVE  store'[g] = OfRun[g]
    BY <1>3 DEF CalibrationInv, StoreInv
  <1>4. test # "calibrate" => store' = Flash
    BY DEF CalibrationInv, StoreInv
  <1> QED
    BY <1>1, <1>2, <1>3, <1>4 DEF StoreInv

LEMMA SendKeeps == ASSUME CalibrationInv, Send PROVE CalibrationInv'
  <1>1. /\ frame = NoFrame /\ frame' = <<"back", show>> /\ GiveCard
        /\ UNCHANGED <<host, input, lost>>
        /\ UNCHANGED <<test, running, pc, slept, output, last>>
    BY DEF Send, host
  <1>2. /\ Given' /\ Showing(output)' = Showing(output) /\ show' = Showing(output)
        /\ store' = [g \in Groups |-> store'[g]]
        /\ \A g \in Groups : store'[g] \in {store[g], OfRun[g]}
        /\ test # "calibrate" => store' = store
    BY <1>1, GivesCard
  <1>3. UnderWay = 0 /\ UnderWay' = 1
    BY <1>1, FramesDiffer DEF UnderWay
  <1>4. Given => Answered'
    BY <1>1, <1>2 DEF Given, Answered
  <1>5. Settled => Settled'
    BY <1>1, <1>2 DEF Given, Settled
  <1>6. slept \in Nat /\ lost \in Nat
    BY Here
  <1>7. CalibrationTypes'
    <2>1. command' = output[TC_OFFSET_NORMAL] /\ DOMAIN show' = Registers
          /\ DOMAIN store' = Groups
      BY <1>1, <1>2 DEF GiveCard, Showing
    <2>2. CalibrationTypeOK'
      BY <1>1, <2>1 DEF CalibrationInv, CalibrationTypes, CalibrationTypeOK
    <2>3. frame'[1] = "back" /\ DOMAIN frame'[2] = Registers
      BY <1>1, FramesDiffer DEF CalibrationInv, CalibrationTypes, CalibrationTypeOK
    <2>4. ~ At("sleep")' => slept' = 0
      BY <1>1 DEF CalibrationInv, CalibrationTypes, At
    <2> QED
      BY <1>2, <2>2, <2>3, <2>4 DEF CalibrationTypes
  <1>8. DeliveryInv'
    <2>1. Answered' \/ Settled' \/ slept' + UnderWay' <= lost' + 2
      BY <1>1, <1>3, <1>4, <1>6 DEF CalibrationInv, DeliveryInv
    <2>2. Settled' \/ slept' <= lost' + 2
      BY <1>1, <1>5 DEF CalibrationInv, DeliveryInv
    <2> QED
      BY <1>2, <2>1, <2>2 DEF DeliveryInv
  <1>9. SettledInv'
    BY <1>1, <1>5 DEF CalibrationInv, SettledInv, Program
  <1>10. StoreInv'
    BY <1>1, <1>2, StoreKeeps
  <1> QED
    BY <1>1, <1>2, <1>7, <1>8, <1>9, <1>10, FrameKeeps DEF CalibrationInv

(* A lost frame gives the card the image or does not; either way its loss  *)
(* makes up for the cycle.                                                 *)
LEMMA LossKeeps ==
  ASSUME CalibrationInv, LoseBefore \/ LoseAfter PROVE CalibrationInv'
  <1>1. /\ frame = NoFrame /\ frame' = <<"lost">> /\ lost < MaxLost /\ lost' = lost + 1
        /\ UNCHANGED <<host, input>>
        /\ UNCHANGED <<test, running, pc, slept, output, last>>
        /\ GiveCard \/ UNCHANGED card
    BY DEF LoseBefore, LoseAfter, host
  <1>2. /\ Given => Given'
        /\ Showing(output)' = Showing(output) /\ DOMAIN show' = Registers
        /\ store' = [g \in Groups |-> store'[g]]
        /\ \A g \in Groups : store'[g] \in {store[g], OfRun[g]}
        /\ test # "calibrate" => store' = store
        /\ command' \in Commands
    <2>1. CASE GiveCard
      BY <2>1, <1>1, GivesCard
         DEF CalibrationInv, CalibrationTypes, CalibrationTypeOK, Showing, GiveCard
    <2>2. CASE UNCHANGED card
      <3>1. UNCHANGED <<output, command, store, show>>
        BY <2>2, <1>1 DEF card
      <3>2. Showing(output)' = Showing(output) /\ Stored(output)' = Stored(output)
        BY <3>1 DEF Showing, Stored
      <3>3. Given => Given'
        BY <3>1, <3>2 DEF Given
      <3> QED
        BY <3>1, <3>2, <3>3 DEF CalibrationInv, CalibrationTypes, CalibrationTypeOK
    <2> QED
      BY <2>1, <2>2, <1>1
  <1>3. UnderWay = 0 /\ UnderWay' = 1
    BY <1>1, FramesDiffer DEF UnderWay
  <1>4. Settled => Settled'
    BY <1>1, <1>2 DEF Settled
  <1>5. slept \in Nat /\ lost \in Nat /\ MaxLost \in Nat /\ lost' \in 0 .. MaxLost
    BY <1>1, Here
  <1>6. CalibrationTypes'
    <2>1. CalibrationTypeOK'
      BY <1>1, <1>2, <1>5 DEF CalibrationInv, CalibrationTypes, CalibrationTypeOK
    <2>2. ~ At("sleep")' => slept' = 0
      BY <1>1 DEF CalibrationInv, CalibrationTypes, At
    <2> QED
      BY <1>1, <1>2, <2>1, <2>2 DEF CalibrationTypes
  <1>7. DeliveryInv'
    <2>1. Given' \/ slept' + UnderWay' <= lost' + 1
      BY <1>1, <1>2, <1>3, <1>5 DEF CalibrationInv, DeliveryInv
    <2>2. Settled' \/ slept' + UnderWay' <= lost' + 2
      <3>1. ~ Answered
        BY <1>1, FramesDiffer DEF Answered
      <3> QED
        BY <3>1, <1>1, <1>3, <1>4, <1>5 DEF CalibrationInv, DeliveryInv
    <2>3. Settled' \/ slept' <= lost' + 2
      BY <2>2, <1>1, <1>3, <1>5
    <2> QED
      BY <2>1, <2>2, <2>3 DEF DeliveryInv
  <1>8. SettledInv'
    BY <1>1, <1>4 DEF CalibrationInv, SettledInv, Program
  <1>9. StoreInv'
    BY <1>1, <1>2, StoreKeeps
  <1> QED
    BY <1>1, <1>2, <1>6, <1>7, <1>8, <1>9, FrameKeeps DEF CalibrationInv

LEMMA CalibrationKept ==
  ASSUME SleepsSuffice, CalibrationInv, [CalibrationNext]_calibrationVars PROVE CalibrationInv'
  <1>1. CASE SetAout \/ GetAin \/ UsleepReturns
    BY <1>1, SetAoutKeeps, GetAinKeeps, UsleepKeeps
  <1>2. CASE Receive
    BY <1>2, ReceiveKeeps
  <1>3. CASE SendFrame
    BY <1>3, SendKeeps, LossKeeps DEF SendFrame
  <1>4. CASE Exit \/ UNCHANGED calibrationVars
    <2>1. /\ UNCHANGED <<test, pc, slept, output, last, input, frame, lost, command, store, show>>
          /\ running' = FALSE \/ running' = running
      BY <1>4 DEF Exit, calibrationVars, host, card
    <2>2. /\ Showing(output)' = Showing(output) /\ Stored(output)' = Stored(output)
          /\ Program' = Program /\ UnderWay' = UnderWay
      BY <2>1 DEF Showing, Stored, Program, UnderWay
    <2>3. (Given <=> Given') /\ (Answered <=> Answered') /\ (Settled <=> Settled')
      BY <2>1, <2>2 DEF Given, Answered, Settled
    <2>4. ~ At("sleep")' => slept' = 0
      <3>1. CASE Exit
        <4>1. ~ At("sleep")
          BY <3>1, Here DEF Exit, At, Program
        <4> QED
          BY <2>1, <4>1 DEF CalibrationInv, CalibrationTypes
      <3>2. CASE UNCHANGED calibrationVars
        BY <3>2 DEF calibrationVars, host, card, At, CalibrationInv, CalibrationTypes
      <3> QED
        BY <1>4, <3>1, <3>2
    <2>5. CalibrationTypes'
      BY <2>1, <2>4 DEF CalibrationInv, CalibrationTypes, CalibrationTypeOK
    <2>6. DeliveryInv' /\ SettledInv'
      BY <2>1, <2>2, <2>3 DEF CalibrationInv, DeliveryInv, SettledInv
    <2>7. StoreInv'
      BY <2>1, <2>2 DEF CalibrationInv, StoreInv, ParametersWhole
    <2> QED
      BY <2>1, <2>2, <2>5, <2>6, <2>7, FrameKeeps DEF CalibrationInv
  <1> QED
    BY <1>1, <1>2, <1>3, <1>4 DEF CalibrationNext, Test

(* For any card with an even number of channels, any number of samples and *)
(* of words of the date: the invariant of calibrate_tc and TCVerify.       *)
THEOREM CalibrationInvariant == ASSUME SleepsSuffice PROVE CalibrationSpec => []CalibrationInv
  <1>1. CalibrationInit => CalibrationInv
    BY CalibrationStarts
  <1>2. CalibrationInv /\ [CalibrationNext]_calibrationVars => CalibrationInv'
    BY CalibrationKept
  <1> QED
    BY <1>1, <1>2, PTL DEF CalibrationSpec

LEMMA AllSet == ASSUME CalibrationInv PROVE ParametersSet
  <1> DEFINE p == set_cal_parms
  <1> SUFFICES ASSUME test = "calibrate", pc > Len(p) PROVE store = OfRun
    BY DEF ParametersSet
  <1>1. /\ Orderly(p) /\ Len(p) \in Nat
        /\ \A g \in Groups : \E j \in 1 .. Len(p) : p[j] = Command(<<"set", g>>)
    BY SetCalParms DEF Sets, Orderly
  <1>2. /\ Len(p) <= Len(Program) /\ Len(Program) \in Nat /\ pc \in Nat
        /\ \A j \in 1 .. Len(p) : Program[j] = p[j]
    BY Calibrated, Here DEF Continues, Program
  <1> HIDE DEF p
  <1>3. ASSUME NEW g \in Groups PROVE store[g] = OfRun[g]
    <2>1. PICK j \in 1 .. Len(p) : p[j] = Command(<<"set", g>>)
      BY <1>1
    <2>2. j + 2 <= Len(p)
      BY <2>1, <1>1 DEF Orderly, SetInPlace, SetAt
    <2>3. j \in 1 .. Len(Program) /\ Program[j] = Command(<<"set", g>>) /\ j + 1 < pc
      BY <2>1, <2>2, <1>1, <1>2
    <2> QED
      BY <2>3 DEF CalibrationInv, StoreInv
  <1>4. store = [g \in Groups |-> store[g]] /\ OfRun = [g \in Groups |-> OfRun[g]]
    BY DEF CalibrationInv, CalibrationTypes, OfRun
  <1> QED
    BY <1>3, <1>4

(* Whatever is read, the card computes with the parameters of the run in a *)
(* calibration, and with those of the flash in a verification.             *)
LEMMA ReadsInPlace ==
  ASSUME CalibrationInv, pc > 1, Program[pc - 1].op = "read"
  PROVE  (store = OfRun) = (test = "calibrate")
  <1>1. pc - 1 \in 1 .. Len(Program) /\ pc \in Nat /\ test \in DOMAIN Programs
    BY Here
  <1>2. CASE test = "calibrate"
    <2> DEFINE p == set_cal_parms
    <2>1. Len(p) \in Nat /\ \A j \in 1 .. Len(p) : p[j].op # "read"
      BY SetCalParms DEF Sets, Orderly
    <2>2. \A j \in 1 .. Len(p) : Program[j] = p[j]
      BY <1>2, Calibrated DEF Continues, Program
    <2> HIDE DEF p
    <2>3. pc > Len(p)
      BY <2>1, <2>2, <1>1
    <2>4. store = OfRun
      BY <2>3, <1>2, AllSet DEF ParametersSet, p
    <2> QED
      BY <2>4, <1>2
  <1>3. CASE test # "calibrate"
    <2>1. store = Flash
      BY <1>3 DEF CalibrationInv, StoreInv
    <2>2. "version" \in Groups /\ 1 \in 1 .. Words("version")
      BY DEF Groups, Words
    <2>3. Flash["version"][1] = <<"flash", "version", 1>>
          /\ OfRun["version"][1] = <<"run", "version", 1>>
      BY <2>2 DEF Flash, OfRun, Parameter
    <2>4. store # OfRun
      BY <2>1, <2>3
    <2> QED
      BY <2>4, <1>3
  <1>4. DOMAIN Programs = {"calibrate", "verify", "no_table"}
    BY DEF Programs
  <1> QED
    BY <1>1, <1>2, <1>3, <1>4

LEMMA ReadWords == ASSUME CalibrationInv PROVE ReadsWhatItAsked
  <1> DEFINE r == Program[pc - 1].reg
             word == Showing(output)[r]
             c == output[TC_OFFSET_NORMAL]
  <1> SUFFICES ASSUME last # NoRead
               PROVE  \/ c[1] = "get" /\ word = store[c[2]][r - TC_PARM_REG + 1]
                      \/ c[1] = "display" /\ word = Reading(c[2], r, test = "calibrate")
    BY DEF ReadsWhatItAsked, CalibrationInv, ReadInv
  <1>1. pc > 1 /\ Program[pc - 1].op = "read"
    BY DEF CalibrationInv, ReadInv
  <1>2. pc - 1 \in 1 .. Len(Program) /\ pc \in Nat /\ test \in DOMAIN Programs
    BY <1>1, Here
  <1>3. r \in Registers
    BY <1>1, <1>2, InstructionKinds
  <1>4. PICK k \in 1 .. pc - 1 - 1, a \in Commands : AskedAt(Program, k, pc - 1, a)
    BY <1>1, <1>2, Here DEF Orderly, Asked
  <1>5. /\ Program[k].op = "out" /\ Program[k].reg = TC_OFFSET_NORMAL /\ Program[k].val = a
        /\ \A l \in k + 1 .. pc - 1 - 1 : Program[l].op # "out"
        /\ Asks(a, r)
    BY <1>4 DEF AskedAt, Command, Out
  <1>6. k \in 1 .. pc - 1 /\ LastWrite(k)
    BY <1>1, <1>2, <1>5 DEF LastWrite
  <1>7. c = a
    BY <1>5, <1>6 DEF CalibrationInv, OutputInv
  <1> HIDE DEF r, c
  <1>8. CASE c[1] = "get" /\ r - TC_PARM_REG + 1 \in 1 .. Words(c[2])
    BY <1>3, <1>8 DEF Showing, c
  <1>9. CASE c[1] = "display"
    <2>1. word = Reading(c[2], r, store = OfRun)
      BY <1>3, <1>9 DEF Showing, c
    <2>2. (store = OfRun) = (test = "calibrate")
      BY <1>1, ReadsInPlace
    <2> QED
      BY <1>9, <2>1, <2>2
  <1> QED
    BY <1>5, <1>7, <1>8, <1>9 DEF Asks

(* The card takes whole parameter groups, and all of them by the end of    *)
(* set_cal_parms.                                                          *)
THEOREM CardTakesItAll == ASSUME SleepsSuffice PROVE CalibrationSpec => []CardInv
  <1>1. CalibrationInv => CardInv
    BY AllSet DEF CardInv, CalibrationInv, CalibrationTypes, StoreInv
  <1> QED
    BY <1>1, CalibrationInvariant, PTL

(* What display_cal_parms, calibrate_tc and verify_tc read is what they    *)
(* asked for.                                                              *)
THEOREM ReadsAreAsked == ASSUME SleepsSuffice PROVE CalibrationSpec => []ReadsWhatItAsked
  <1>1. CalibrationInv => ReadsWhatItAsked
    BY ReadWords
  <1> QED
    BY <1>1, CalibrationInvariant, PTL
=============================================================================
