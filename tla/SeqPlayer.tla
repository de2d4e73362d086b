------------------------------- MODULE SeqPlayer -------------------------------
(***************************************************************************)
(* The player of timed sequences (ddi_seq_utils.c): seq_run and            *)
(* seq_run_to_ntime call the events of several tracks in the order of      *)
(* their times, sleeping and spinning between, against the system clock.   *)
(* Sequence time is system time less T0, and stands still between calls.   *)
(*                                                                         *)
(* The clock ticks a nanosecond at a time, asleep and once in a turn of    *)
(* the loop: the player is that fast, and its thread wakes up at most      *)
(* wake_latency after it should.  A sleep may be interrupted by a signal.  *)
(***************************************************************************)
EXTENDS NTime, Sequences, FiniteSets, FiniteSetsExt

CONSTANTS
  Track,                  \* the tracks: a sequence of sequences of event times
  ddi_ntime_to_time,      \* a time's seconds as a double, by its rank among doubles
  wake_latency, scheduler_uncertainty,
  MaxClock,               \* bound: the clock stops here
  MaxCalls                \* bound on the calls of the application

ASSUME SeqAssumption ==
  /\ Track \in Seq(Seq(NTimes) \ {<<>>})
  /\ \A t \in DOMAIN Track : \A i, j \in DOMAIN Track[t] :
       i <= j => Value(Track[t][i]) <= Value(Track[t][j])
  /\ ddi_ntime_to_time \in [NTimes -> Nat]
  /\ \A t, u \in NTimes :
       Value(t) <= Value(u) => ddi_ntime_to_time[t] <= ddi_ntime_to_time[u]
  /\ wake_latency \in Nat /\ scheduler_uncertainty \in Nat
  /\ MaxClock \in Nat /\ MaxCalls \in Nat

VARIABLES
  clock,    \* CLOCK_MONOTONIC
  ntime,    \* seq->ntime
  idx,      \* track->idx: events of the track that are behind
  at,       \* the player: "idle", "test", "sleep", "refresh"
  T0, Tseq, \* locals of seq_proc: system time at sequence time 0; sequence time
  tstop,    \* the time whose seconds are its argument
  wake,     \* asleep: when the clock wakes it
  ticked,   \* the clock has ticked in this turn
  status,   \* what the last call returned
  calls,    \* calls made
  from,     \* history: the sequence time the call began at
  elapsed,  \* history: that, and the time the call has taken since
  heard     \* history: time of the last event called, since seq_set_index

call == <<T0, tstop, calls, from>>
locals == <<T0, Tseq, wake, from, elapsed>>
vars == <<clock, ntime, idx, at, Tseq, wake, ticked, status, elapsed, heard, call>>

Init ==
  /\ clock = Zero /\ ntime = Zero /\ Tseq = Zero /\ T0 = Zero
  /\ idx = [t \in DOMAIN Track |-> 0]
  /\ at = "idle" /\ status = "none" /\ ticked = FALSE
  /\ tstop = Zero /\ wake = 0 /\ calls = 0
  /\ from = 0 /\ elapsed = 0 /\ heard = 0

(* seq_proc returns st: its locals are no more. *)
Return(st) ==
  /\ at' = "idle" /\ status' = st
  /\ T0' = Zero /\ Tseq' = Zero /\ wake' = 0 /\ from' = 0 /\ elapsed' = 0

----------------------------------------------------------------------------
(* seq_get_next_event *)

Pending(i) == {t \in DOMAIN Track : i[t] < Len(Track[t])}
EventTime(i, t) == Track[t][i[t] + 1]

(* Mutant: the last track with an event is taken. *)
NextTrackLast(i) == Max(Pending(i))

(* The first of the tracks whose event is the earliest *)
NextTrack(i) ==
  CHOOSE t \in Pending(i) : \A u \in Pending(i) :
    LET d == DiffNs(EventTime(i, t), EventTime(i, u)) IN d < 0 \/ (d = 0 /\ t <= u)

(* The latest of the tracks' last times *)
LastTime ==
  LET times == {Zero} \cup {Track[t][Len(Track[t])] : t \in DOMAIN Track}
  IN CHOOSE t \in times : \A u \in times : Value(u) <= Value(t)

(* The comparison of doubles, rounded: times that have the same seconds as *)
(* a double are not told apart, as a nanosecond above 2^23 seconds is not. *)
After(t, u) == ddi_ntime_to_time[t] > ddi_ntime_to_time[u]

----------------------------------------------------------------------------
(* seq_proc is called, by seq_run with the time of the last event, by      *)
(* seq_run_to_ntime with its argument.                                     *)

Call(stop) ==
  /\ at = "idle" /\ calls < MaxCalls
  /\ calls' = calls + 1 /\ tstop' = stop
  /\ \/ /\ Pending(idx) = {}
        /\ Return("not_ok")
     \/ /\ Pending(idx) # {}
        /\ at' = "test" /\ status' = "running"
        /\ Tseq' = ntime /\ T0' = SubNs(clock, ntime.sec, ntime.ns)
        /\ from' = Value(ntime) /\ elapsed' = Value(ntime)
        /\ UNCHANGED wake
  /\ UNCHANGED <<clock, ntime, idx, ticked, heard>>

seq_run == Call(LastTime)
seq_run_to_ntime == \E stop \in NTimes : Value(stop) <= Value(LastTime) /\ Call(stop)

(* seq_set_index: the index goes to the last event of a shorter track, the *)
(* sequence time stays.                                                    *)
seq_set_index ==
  /\ at = "idle" /\ calls < MaxCalls
  /\ calls' = calls + 1
  /\ \E index \in UNION {0 .. Len(Track[t]) : t \in DOMAIN Track} :
       idx' = [t \in DOMAIN Track |->
                 IF Len(Track[t]) > index THEN index ELSE Len(Track[t]) - 1]
  /\ heard' = 0 /\ status' = "set"
  /\ UNCHANGED <<clock, ntime, at, T0, Tseq, tstop, wake, ticked, from, elapsed>>

----------------------------------------------------------------------------
(* The loop of seq_proc *)

Tevent == EventTime(idx, NextTrack(idx))
dt == DiffNs(Tseq, Tevent)

(* Mutant: the run ends when the sequence time has reached its end. *)
LateByTime ==
  /\ at = "test" /\ dt >= 0
  /\ idx' = [idx EXCEPT ![NextTrack(idx)] = @ + 1]
  /\ heard' = Value(Tevent)
  /\ IF Pending(idx') = {} \/ Value(Tseq) >= Value(tstop)
     THEN Return("ok")
     ELSE UNCHANGED <<at, status, locals>>
  /\ UNCHANGED <<clock, ntime, ticked, tstop, calls>>

(* The event is due: it is called, and the run ends if the next one is     *)
(* after tstop, as far as their doubles tell.  The first event of a run is *)
(* not compared.                                                           *)
Late ==
  /\ at = "test" /\ dt >= 0
  /\ idx' = [idx EXCEPT ![NextTrack(idx)] = @ + 1]
  /\ heard' = Value(Tevent)
  /\ IF Pending(idx') = {} \/ After(EventTime(idx', NextTrack(idx')), tstop)
     THEN Return("ok")
     ELSE UNCHANGED <<at, status, locals>>
  /\ UNCHANGED <<clock, ntime, ticked, tstop, calls>>

Sleep ==
  /\ at = "test" /\ -dt > wake_latency + scheduler_uncertainty
  /\ wake' = Value(clock) - dt - wake_latency
  /\ at' = "sleep"
  /\ UNCHANGED <<clock, ntime, idx, Tseq, ticked, status, elapsed, heard, call>>

WakeUp ==
  /\ at = "sleep" /\ Value(clock) >= wake
  /\ at' = "refresh" /\ wake' = 0
  /\ UNCHANGED <<clock, ntime, idx, Tseq, ticked, status, elapsed, heard, call>>

(* clock_nanosleep fails: seq_proc returns its status *)
Interrupted ==
  /\ at = "sleep" /\ Value(clock) < wake
  /\ Return("interrupted")
  /\ UNCHANGED <<clock, ntime, idx, ticked, heard, tstop, calls>>

Spin ==
  /\ at = "test" /\ -dt \in 1 .. wake_latency + scheduler_uncertainty
  /\ at' = "refresh"
  /\ UNCHANGED <<clock, ntime, idx, Tseq, wake, ticked, status, elapsed, heard, call>>

Refresh ==
  /\ at = "refresh"
  /\ Tseq' = SubNs(clock, T0.sec, T0.ns)
  /\ ntime' = Tseq'
  /\ at' = "test" /\ ticked' = FALSE
  /\ UNCHANGED <<clock, idx, wake, status, elapsed, heard, call>>

(* The clock *)
Tick ==
  /\ Value(clock) < MaxClock
  /\ \/ at = "idle"
     \/ at = "sleep" /\ Value(clock) < wake + wake_latency
     \/ at = "refresh" /\ ~ticked
  /\ clock' = AddNs(clock, 0, 1)
  /\ ticked' = (at = "refresh")
  /\ elapsed' = IF at = "idle" THEN elapsed ELSE elapsed + 1
  /\ UNCHANGED <<ntime, idx, at, Tseq, wake, status, heard, call>>

Application == seq_run \/ seq_run_to_ntime \/ seq_set_index
Player == Late \/ Sleep \/ WakeUp \/ Interrupted \/ Spin \/ Refresh

Next == Application \/ Player \/ Tick

Spec == Init /\ [][Next]_vars

----------------------------------------------------------------------------
TypeOK ==
  /\ {clock, ntime, T0, Tseq, tstop} \subseteq NTimes
  /\ idx \in [DOMAIN Track -> Nat] /\ \A t \in DOMAIN Track : idx[t] <= Len(Track[t])
  /\ at \in {"idle", "test", "sleep", "refresh"} /\ ticked \in BOOLEAN
  /\ status \in {"none", "set", "running", "ok", "not_ok", "interrupted"}
  /\ {wake, calls, from, elapsed, heard} \subseteq Nat

Called(t) == idx'[t] = idx[t] + 1 /\ at = "test"

(* No event is called before its time, and none more than a nanosecond     *)
(* after it that was not behind already when the call began: sleeping      *)
(* wake_latency less leaves time to wake up and spin, whatever the clock   *)
(* did in the calls before.                                                *)
Punctual ==
  [][\A t \in DOMAIN Track : Called(t) =>
       LET due == Value(EventTime(idx, t))
       IN elapsed >= due /\ elapsed <= Max({due, from}) + 1]_vars

(* Events are called in the order of their times, whatever track they are  *)
(* on and in however many calls, until the application sets the index.     *)
InOrder ==
  [][\A t \in DOMAIN Track : Called(t) => Value(EventTime(idx, t)) >= heard]_vars

(* A run that returns ok has called every event due by the time it was to  *)
(* run to, to the nanosecond, though it compares rounded seconds, and the  *)
(* clock only with the next event.  (It may call events after that time:   *)
(* its first, and those that round to the same seconds.)                   *)
OkMeansPlayed ==
  status = "ok" => \A t \in Pending(idx) : Value(EventTime(idx, t)) > Value(tstop)

(* The types, and runs that play what they should.                         *)
PlayerInv == TypeOK /\ OkMeansPlayed

=============================================================================
