---------------------------- MODULE DdiEventProofs ----------------------------
(***************************************************************************)
(* The safety of the event object, for every set of threads and of bits.   *)
(***************************************************************************)
EXTENDS DdiEvent, TLAPS

(* The initial state has the types, no bits and nobody asleep. *)
LEMMA InitEvent == Init => TypeOK /\ NoLostWakeup
  BY DEF Init, TypeOK, NoLostWakeup

(* Type invariant: each step of each thread keeps the types, and clears    *)
(* the value and the result of a call where the call ends.                 *)
LEMMA StepTypes == TypeOK /\ [Next]_vars => TypeOK'
  <1> SUFFICES ASSUME TypeOK, [Next]_vars PROVE TypeOK'
    OBVIOUS
  <1>1. ASSUME NEW t \in Threads, NEW bits \in SUBSET Bits, CallSignal(t, bits)
        PROVE  TypeOK'
    BY <1>1 DEF TypeOK, CallSignal, Goto
  <1>2. ASSUME NEW t \in Threads, CallWait(t) PROVE TypeOK'
    BY <1>2 DEF TypeOK, CallWait, Goto
  <1>3. ASSUME NEW t \in Threads, Signal(t) PROVE TypeOK'
    <2>1. CASE Goto(t, "returned")
      BY <1>3, <2>1 DEF TypeOK, Signal, Goto
    <2>2. CASE \E u \in Threads : /\ epc[u] = "waiting"
                                  /\ epc' = [epc EXCEPT ![t] = "returned", ![u] = "signalled"]
      BY <1>3, <2>2 DEF TypeOK, Signal
    <2> QED
      BY <1>3, <2>1, <2>2 DEF Signal
  <1>4. ASSUME NEW t \in Threads, Take(t) PROVE TypeOK'
    BY <1>4, BitsAssumption DEF TypeOK, Take, Goto
  <1>5. ASSUME NEW t \in Threads, Block(t) PROVE TypeOK'
    BY <1>5 DEF TypeOK, Block, Goto
  <1>6. ASSUME NEW t \in Threads, WakeSpuriously(t) PROVE TypeOK'
    BY <1>6 DEF TypeOK, WakeSpuriously, Goto
  <1>7. ASSUME NEW t \in Threads, Expire(t) PROVE TypeOK'
    <2>1. CASE Goto(t, "returned")
      BY <1>7, <2>1 DEF TypeOK, Expire, Goto
    <2>2. CASE \E u \in Threads \ {t} :
                 /\ epc[u] = "waiting"
                 /\ epc' = [epc EXCEPT ![t] = "returned", ![u] = "signalled"]
      BY <1>7, <2>2 DEF TypeOK, Expire
    <2> QED
      BY <1>7, <2>1, <2>2 DEF Expire
  <1>8. ASSUME NEW t \in Threads, Resume(t) PROVE TypeOK'
    BY <1>8 DEF TypeOK, Resume, Goto
  <1>9. CASE UNCHANGED vars
    BY <1>9 DEF TypeOK, vars
  <1> QED
    BY <1>1, <1>2, <1>3, <1>4, <1>5, <1>6, <1>7, <1>8, <1>9
    DEF Next, Step, Disturbance

(* A wake-up that is on its way stays on its way: the woken thread takes   *)
(* the bits, or hands the signal to another when its wait expires.         *)
LEMMA StepNoLostWakeup == TypeOK /\ NoLostWakeup /\ [Next]_vars => NoLostWakeup'
  <1> SUFFICES ASSUME TypeOK, NoLostWakeup, [Next]_vars PROVE NoLostWakeup'
    OBVIOUS
  <1>1. ASSUME NEW t \in Threads, NEW bits \in SUBSET Bits, CallSignal(t, bits)
        PROVE  NoLostWakeup'
    BY <1>1 DEF TypeOK, NoLostWakeup, CallSignal, Goto
  <1>2. ASSUME NEW t \in Threads, CallWait(t) PROVE NoLostWakeup'
    BY <1>2 DEF TypeOK, NoLostWakeup, CallWait, Goto
  <1>3. ASSUME NEW t \in Threads, Signal(t) PROVE NoLostWakeup'
    <2>1. CASE /\ \A u \in Threads : epc[u] # "waiting"
               /\ Goto(t, "returned")
      BY <2>1 DEF TypeOK, NoLostWakeup, Goto
    <2>2. CASE \E u \in Threads : /\ epc[u] = "waiting"
                                  /\ epc' = [epc EXCEPT ![t] = "returned", ![u] = "signalled"]
      BY <2>2 DEF TypeOK, NoLostWakeup
    <2> QED
      BY <1>3, <2>1, <2>2 DEF Signal
  <1>4. ASSUME NEW t \in Threads, Take(t) PROVE NoLostWakeup'
    BY <1>4 DEF NoLostWakeup, Take
  <1>5. ASSUME NEW t \in Threads, Block(t) PROVE NoLostWakeup'
    BY <1>5 DEF NoLostWakeup, Block
  <1>6. ASSUME NEW t \in Threads, WakeSpuriously(t) PROVE NoLostWakeup'
    BY <1>6 DEF TypeOK, NoLostWakeup, WakeSpuriously, Goto
  <1>7. ASSUME NEW t \in Threads, Expire(t) PROVE NoLostWakeup'
    <2>1. CASE epc[t] = "waiting" /\ Goto(t, "returned")
      BY <1>7, <2>1 DEF TypeOK, NoLostWakeup, Expire, Goto
    <2>2. CASE (\A u \in Threads \ {t} : epc[u] # "waiting") /\ Goto(t, "returned")
      BY <2>2 DEF TypeOK, NoLostWakeup, Goto
    <2>3. CASE \E u \in Threads \ {t} :
                 /\ epc[u] = "waiting"
                 /\ epc' = [epc EXCEPT ![t] = "returned", ![u] = "signalled"]
      BY <2>3 DEF TypeOK, NoLostWakeup
    <2> QED
      BY <1>7, <2>1, <2>2, <2>3 DEF Expire
  <1>8. ASSUME NEW t \in Threads, Resume(t) PROVE NoLostWakeup'
    BY <1>8 DEF TypeOK, NoLostWakeup, Resume, Goto
  <1>9. CASE UNCHANGED vars
    BY <1>9 DEF NoLostWakeup, vars
  <1> QED
    BY <1>1, <1>2, <1>3, <1>4, <1>5, <1>6, <1>7, <1>8, <1>9
    DEF Next, Step, Disturbance

(* For any threads and bits: the event and its callers keep their types.   *)
THEOREM EventTypes == Spec => []TypeOK
  BY InitEvent, StepTypes, PTL DEF Spec

(* For any threads and bits: nobody sleeps on pending bits unless somebody *)
(* has been woken for them (one pthread_cond_signal per signal is enough). *)
THEOREM WakeupNotLost == Spec => []NoLostWakeup
  BY InitEvent, StepTypes, StepNoLostWakeup, PTL DEF Spec
=============================================================================
