------------------------------ MODULE DdiEvent -------------------------------
(***************************************************************************)
(* The event object of ddi_common_lib/ddi_os_posix.c: a mutex, a condition *)
(* variable and a word of event bits.  Signalling ors bits into the word   *)
(* and wakes one waiter; a wait takes all bits at once.                    *)
(*                                                                         *)
(* The mutex is held from its lock to its unlock without any other step of *)
(* the holder being visible, so such a section is one action, enabled when *)
(* nobody holds the mutex.  What the code leaves locked stays locked.      *)
(***************************************************************************)
EXTENDS Integers

CONSTANTS
  Threads,   \* the threads that use the event
  Nobody,    \* "the mutex is free": not a thread
  Bits,      \* the bits of the 32-bit value ddi_event_signal takes
  LowBits    \* those of them that fit event_signal's uint16_t parameter

ASSUME NobodyAssumption == Nobody \notin Threads
ASSUME BitsAssumption == LowBits \subseteq Bits /\ Bits # {}

VARIABLES
  owner,  \* holder of event->mutex
  val,    \* event->val
  epc,    \* where each thread is in its call
  arg,    \* the value a signaller passes
  got     \* the value a wait returned: no bits on a timeout

vars == <<owner, val, epc, arg, got>>

Goto(t, to) == epc' = [epc EXCEPT ![t] = to]

Init ==
  /\ owner = Nobody
  /\ val = {}
  /\ epc = [t \in Threads |-> "idle"]
  /\ arg = [t \in Threads |-> {}]
  /\ got = [t \in Threads |-> {}]

CallSignal(t, bits) ==
  /\ epc[t] = "idle"
  /\ Goto(t, "signal")
  /\ arg' = [arg EXCEPT ![t] = bits]
  /\ UNCHANGED <<owner, val, got>>

(* Mutant: the condition is not signalled. *)
SignalWithoutWake(t) ==
  /\ epc[t] = "signal"
  /\ owner = Nobody
  /\ val' = val \cup (arg[t] \cap LowBits)
  /\ arg' = [arg EXCEPT ![t] = {}]
  /\ Goto(t, "returned")
  /\ UNCHANGED <<owner, got>>

(* event_signal: the value arrives as uint16_t, pthread_cond_signal wakes  *)
(* one of the threads blocked on the condition, if there is one            *)
Signal(t) ==
  /\ epc[t] = "signal"
  /\ owner = Nobody
  /\ val' = val \cup (arg[t] \cap LowBits)
  /\ LET blocked == {u \in Threads : epc[u] = "waiting"}
     IN  \/ blocked = {} /\ Goto(t, "returned")
         \/ \E u \in blocked :
              epc' = [epc EXCEPT ![t] = "returned", ![u] = "signalled"]
  /\ arg' = [arg EXCEPT ![t] = {}]
  /\ UNCHANGED <<owner, got>>

CallWait(t) ==
  /\ epc[t] = "idle"
  /\ Goto(t, "wait_lock")
  /\ UNCHANGED <<owner, val, arg, got>>

(* event_wait with bits pending, on entry or woken up                      *)
Take(t) ==
  /\ epc[t] \in {"wait_lock", "signalled"}
  /\ owner = Nobody
  /\ val # {}
  /\ got' = [got EXCEPT ![t] = val]
  /\ val' = {}
  /\ Goto(t, "returned")
  /\ UNCHANGED <<owner, arg>>

(* event_wait without: the thread blocks on the condition (again)          *)
Block(t) ==
  /\ epc[t] \in {"wait_lock", "signalled"}
  /\ owner = Nobody
  /\ val = {}
  /\ Goto(t, "waiting")
  /\ UNCHANGED <<owner, val, arg, got>>

(* POSIX lets pthread_cond_timedwait return without a signal.              *)
WakeSpuriously(t) ==
  /\ epc[t] = "waiting"
  /\ Goto(t, "signalled")
  /\ UNCHANGED <<owner, val, arg, got>>

(* pthread_cond_timedwait gives up: it has locked the mutex again, and the *)
(* code returns without unlocking it.  A signal meant for this thread goes *)
(* to another blocked one, if there is one.                                *)
Expire(t) ==
  /\ epc[t] \in {"waiting", "signalled"}
  /\ owner = Nobody
  /\ owner' = t
  /\ got' = [got EXCEPT ![t] = {}]
  /\ LET blocked == {u \in Threads \ {t} : epc[u] = "waiting"}
     IN  \/ /\ epc[t] = "waiting" \/ blocked = {}
            /\ Goto(t, "returned")
         \/ /\ epc[t] = "signalled"
            /\ \E u \in blocked :
                 epc' = [epc EXCEPT ![t] = "returned", ![u] = "signalled"]
  /\ UNCHANGED <<val, arg>>

(* The caller has looked at the result and may call again. *)
Resume(t) ==
  /\ epc[t] = "returned"
  /\ got' = [got EXCEPT ![t] = {}]
  /\ Goto(t, "idle")
  /\ UNCHANGED <<owner, val, arg>>

(* What a thread inside a call does by itself, and what happens to it      *)
Step(t) == Signal(t) \/ Take(t) \/ Block(t)
Disturbance(t) == WakeSpuriously(t) \/ Expire(t)

Next ==
  \E t \in Threads :
    \/ \E bits \in SUBSET Bits : CallSignal(t, bits)
    \/ CallWait(t)
    \/ Step(t)
    \/ Disturbance(t)
    \/ Resume(t)

(* Threads inside a call keep running, and the mutex is handed out without *)
(* starving anyone.  Nobody has to call, to time out or to wake up for     *)
(* nothing.                                                                *)
Fairness == \A t \in Threads : SF_vars(Step(t))

Spec == Init /\ [][Next]_vars
FairSpec == Spec /\ Fairness

----------------------------------------------------------------------------
(* Type invariant of the event and its callers: a thread holds a value     *)
(* only while it signals, a result only when its wait has returned.        *)
TypeOK ==
  /\ owner \in Threads \cup {Nobody}
  /\ val \subseteq LowBits
  /\ epc \in [Threads -> {"idle", "signal", "wait_lock", "waiting", "signalled",
                          "returned"}]
  /\ arg \in [Threads -> SUBSET Bits]
  /\ got \in [Threads -> SUBSET Bits]
  /\ \A t \in Threads : /\ epc[t] # "signal" => arg[t] = {}
                        /\ epc[t] # "returned" => got[t] = {}

(* No lost wake-up: while bits are pending, a thread sleeps on the         *)
(* condition only if the wake-up for those bits is on its way to another.  *)
NoLostWakeup ==
  val # {} => \/ \A t \in Threads : epc[t] # "waiting"
              \/ \E t \in Threads : epc[t] = "signalled"

(* ddi_os.h:219: ddi_event_signal reports ok, or that the handle is not    *)
(* valid: either way it gets the mutex and returns.                        *)
SignalReturns ==
  \A t \in Threads : epc[t] = "signal" ~> epc[t] # "signal"

(* Pending bits reach a thread that waits for them, as long as no wait has *)
(* left the mutex locked behind it.                                        *)
PendingTaken ==
  (val # {} /\ \E t \in Threads : epc[t] \in {"wait_lock", "waiting"})
    ~> val = {} \/ owner # Nobody
=============================================================================
