--------------------------- MODULE MasterLifecycle ---------------------------
(***************************************************************************)
(* Life of the EtherCAT master instances of ddi_em.cpp: allocation of an   *)
(* instance and its network adapter, the cyclic thread (the SDK's own, or  *)
(* one of the application's inside ddi_em_cyclic_task_start), stopping the *)
(* thread and taking the instance down.                                    *)
(*                                                                         *)
(* One application thread makes the calls; the cyclic threads interleave   *)
(* with every step of them.  The EC-Master stack below is external: what   *)
(* is kept of it is the adapter each of its instances drives.              *)
(***************************************************************************)
EXTENDS Naturals, FiniteSets

CONSTANTS
  Handles,    \* the indices of g_em_instance: 0 .. DDI_EM_MAX_MASTER_INSTANCES - 1
  Nics,       \* the network adapters
  NoNic,      \* dwInstance = 0 in the table, and a stack that is not initialised
  Threads,    \* the threads that can run the cyclic task
  NoHandle,   \* a thread that runs no cyclic task
  Prompt,     \* does a cyclic thread answer an exit request within one second?
  Tidy        \* does the application follow each stop by the deinit (TearDown)?

ASSUME HandlesAssumption == Handles \subseteq Nat
ASSUME NicsAssumption == NoNic \notin Nics
ASSUME NoHandleAssumption == NoHandle \notin Handles
ASSUME SwitchesAssumption == Prompt \in BOOLEAN /\ Tidy \in BOOLEAN

VARIABLES
  sdk,     \* g_sdk_initalized
  inst,    \* g_em_instance: the fields that steer the life of an instance
  nic,     \* g_i8254_adapter[h].linkParms.dwInstance
  stack,   \* adapter driven by stack instance h, NoNic when not initialised
  at, on,  \* where each cyclic thread is, and for which instance
  pc,      \* where the application is in its call
  call,    \* that call: operation, instance and, for init, its parameters
  status,  \* what the last call returned, or will return
  held,    \* instances ddi_em_init returned with ok and not deinitialised yet
  stuck    \* history: instances whose stack outlived the last deinit of them

appVars == <<pc, call, status, held, stuck>>
vars == <<sdk, inst, nic, stack, at, on, appVars>>

Cleared ==
  [enabled |-> FALSE, sdkThread |-> FALSE, exitEnabled |-> FALSE,
   exitOccurred |-> FALSE, badCpu |-> FALSE]

NoCall == [op |-> "none", h |-> NoHandle, nic |-> NoNic, thread |-> FALSE,
           bad |-> FALSE]

(* Threads that are inside the cyclic scheduler of h and have not left it. *)
Running(h) == {t \in Threads : on[t] = h /\ at[t] \in {"entered", "loop", "update"}}

Init ==
  /\ sdk = FALSE
  /\ inst = [h \in Handles |-> Cleared]
  /\ nic = [h \in Handles |-> NoNic]
  /\ stack = [h \in Handles |-> NoNic]
  /\ at = [t \in Threads |-> "off"]
  /\ on = [t \in Threads |-> NoHandle]
  /\ pc = "idle"
  /\ call = NoCall
  /\ status = "none"
  /\ held = {}
  /\ stuck = {}

Return(st) ==
  /\ pc' = "idle"
  /\ call' = NoCall
  /\ status' = st

----------------------------------------------------------------------------
(* The SDK as a whole *)

SdkInit ==
  /\ pc = "idle"
  /\ ~sdk
  /\ sdk' = TRUE
  /\ inst' = [h \in Handles |-> Cleared]
  /\ UNCHANGED <<nic, stack, at, on, appVars>>

(* A tidy application has given all instances back. *)
SdkDeinit ==
  /\ pc = "idle"
  /\ sdk
  /\ Tidy => held = {} /\ \A h \in Handles : ~inst[h].enabled
  /\ sdk' = FALSE
  /\ UNCHANGED <<inst, nic, stack, at, on, appVars>>

----------------------------------------------------------------------------
(* ddi_em_init *)

Free(h) == ~inst[h].enabled
NextInstance(h) == Free(h) /\ \A g \in Handles : g < h => ~Free(g)

(* get_next_instance *)
Allocate(h, n, thread, bad) ==
  /\ pc = "idle"
  /\ sdk
  /\ Tidy => \A g \in held : inst[g].enabled
  /\ NextInstance(h)
  /\ inst' = [inst EXCEPT ![h] = [Cleared EXCEPT !.enabled = TRUE]]
  /\ pc' = "adapter"
  /\ call' = [op |-> "init", h |-> h, nic |-> n, thread |-> thread, bad |-> bad]
  /\ status' = "none"
  /\ UNCHANGED <<sdk, nic, stack, at, on, held, stuck>>

NoInstance ==
  /\ pc = "idle"
  /\ sdk
  /\ \A h \in Handles : ~Free(h)
  /\ Return("no_resources")
  /\ UNCHANGED <<sdk, inst, nic, stack, at, on, held, stuck>>

(* The log directory or file cannot be created.  This and the next returns *)
(* leave what has been set up so far as it is.                             *)
LogFails ==
  /\ pc = "adapter"
  /\ Return("log_dir_failed")
  /\ UNCHANGED <<sdk, inst, nic, stack, at, on, held, stuck>>

AdapterTaken == \E g \in Handles : nic[g] = call.nic

AdapterRegistered ==
  /\ pc = "adapter"
  /\ AdapterTaken
  /\ Return("nic_already_reg")
  /\ UNCHANGED <<sdk, inst, nic, stack, at, on, held, stuck>>

(* Mutant: an adapter some instance uses already is accepted. *)
TakeAnyAdapter ==
  /\ pc = "adapter"
  /\ nic' = [nic EXCEPT ![call.h] = call.nic]
  /\ pc' = "stack"
  /\ UNCHANGED <<sdk, inst, stack, at, on, call, status, held, stuck>>

TakeAdapter ==
  /\ pc = "adapter"
  /\ ~AdapterTaken
  /\ nic' = [nic EXCEPT ![call.h] = call.nic]
  /\ pc' = "stack"
  /\ UNCHANGED <<sdk, inst, stack, at, on, call, status, held, stuck>>

(* emInitMaster fails, always so for an instance that is up already. *)
StackFails ==
  /\ pc = "stack"
  /\ Return("stack_error")
  /\ UNCHANGED <<sdk, inst, nic, stack, at, on, held, stuck>>

StackUp ==
  /\ pc = "stack"
  /\ stack[call.h] = NoNic
  /\ stack' = [stack EXCEPT ![call.h] = call.nic]
  /\ pc' = "thread"
  /\ UNCHANGED <<sdk, inst, nic, at, on, call, status, held, stuck>>

(* emGetSrcMacAddress fails. *)
MacFails ==
  /\ pc = "thread"
  /\ Return("mac_error")
  /\ UNCHANGED <<sdk, inst, nic, stack, at, on, held, stuck>>

HandOut ==
  /\ Return("ok")
  /\ held' = held \cup {call.h}

(* enable_cyclic_thread = 0: the application runs the cyclic task. *)
InitWithoutThread ==
  /\ pc = "thread"
  /\ ~call.thread
  /\ HandOut
  /\ UNCHANGED <<sdk, inst, nic, stack, at, on, stuck>>

(* The result of ddi_thread_create_with_scheduler is ignored: the thread   *)
(* may not exist.                                                          *)
CreateThread ==
  /\ pc = "thread"
  /\ call.thread
  /\ inst' = [inst EXCEPT ![call.h].sdkThread = TRUE]
  /\ \/ UNCHANGED <<at, on>>
     \/ \E t \in Threads :
          /\ at[t] = "off"
          /\ at' = [at EXCEPT ![t] = "entered"]
          /\ on' = [on EXCEPT ![t] = call.h]
  /\ pc' = "affinity"
  /\ UNCHANGED <<sdk, nic, stack, call, status, held, stuck>>

(* The affinity is stored after the thread was created and may have looked.*)
StoreAffinity ==
  /\ pc = "affinity"
  /\ inst' = [inst EXCEPT ![call.h].badCpu = call.bad]
  /\ HandOut
  /\ UNCHANGED <<sdk, nic, stack, at, on, stuck>>

----------------------------------------------------------------------------
(* The cyclic thread: cyclic_thread_scheduler *)

(* ddi_em_cyclic_task_start on a thread of the application, which starts   *)
(* a task again only after the earlier one has returned and, when it is    *)
(* tidy, never on an instance it has stopped.                              *)
StartTask(t, h) ==
  /\ at[t] = "off"
  /\ h \in held
  /\ ~inst[h].sdkThread
  /\ Tidy => inst[h].enabled /\ ~inst[h].exitEnabled
  /\ \A u \in Threads : on[u] # h
  /\ at' = [at EXCEPT ![t] = "entered"]
  /\ on' = [on EXCEPT ![t] = h]
  /\ UNCHANGED <<sdk, inst, nic, stack, appVars>>

Enter(t) ==
  /\ at[t] = "entered"
  /\ ~inst[on[t]].badCpu
  /\ at' = [at EXCEPT ![t] = "loop"]
  /\ UNCHANGED <<sdk, inst, nic, stack, on, appVars>>

(* pthread_setaffinity_np fails: the scheduler returns, and does not say so.*)
AffinityFails(t) ==
  /\ at[t] = "entered"
  /\ inst[on[t]].badCpu
  /\ at' = [at EXCEPT ![t] = "leaving"]
  /\ UNCHANGED <<sdk, inst, nic, stack, on, appVars>>

Cycle(t) ==
  /\ at[t] = "loop"
  /\ ~inst[on[t]].exitEnabled
  /\ at' = [at EXCEPT ![t] = "update"]
  /\ UNCHANGED <<sdk, inst, nic, stack, on, appVars>>

UpdateDone(t) ==
  /\ at[t] = "update"
  /\ at' = [at EXCEPT ![t] = "loop"]
  /\ UNCHANGED <<sdk, inst, nic, stack, on, appVars>>

LeaveLoop(t) ==
  /\ at[t] = "loop"
  /\ inst[on[t]].exitEnabled
  /\ inst' = [inst EXCEPT ![on[t]].exitOccurred = TRUE]
  /\ at' = [at EXCEPT ![t] = "leaving"]
  /\ UNCHANGED <<sdk, nic, stack, on, appVars>>

EndThread(t) ==
  /\ at[t] = "leaving"
  /\ at' = [at EXCEPT ![t] = "off"]
  /\ on' = [on EXCEPT ![t] = NoHandle]
  /\ UNCHANGED <<sdk, inst, nic, stack, appVars>>

----------------------------------------------------------------------------
(* ddi_em_cyclic_task_stop, ddi_em_deinit and shutdown_thread_instance *)

Stop(h) ==
  /\ pc = "idle"
  /\ h \in held
  /\ call' = [NoCall EXCEPT !.op = "stop", !.h = h]
  /\ pc' = "shutdown"
  /\ status' = "none"
  /\ UNCHANGED <<sdk, inst, nic, stack, at, on, held, stuck>>

Deinit(h) ==
  /\ pc = "idle"
  /\ h \in held
  /\ nic' = [nic EXCEPT ![h] = NoNic]
  /\ call' = [NoCall EXCEPT !.op = "deinit", !.h = h]
  /\ pc' = "shutdown"
  /\ status' = "none"
  /\ UNCHANGED <<sdk, inst, stack, at, on, held, stuck>>

RequestExit ==
  /\ pc = "shutdown"
  /\ inst' = [inst EXCEPT ![call.h].exitEnabled = TRUE]
  /\ pc' = IF inst[call.h].sdkThread THEN "join" ELSE "wait"
  /\ UNCHANGED <<sdk, nic, stack, at, on, call, status, held, stuck>>

AfterShutdown(st) ==
  IF call.op = "deinit"
  THEN pc' = "teardown" /\ status' = st /\ UNCHANGED call
  ELSE Return(IF st = "ok" THEN "ok" ELSE "cyc_thread_stop")

(* Mutant: the join is trusted to have waited for the thread. *)
JoinIsEnough ==
  /\ pc = "join"
  /\ inst' = [inst EXCEPT ![call.h].enabled = FALSE, ![call.h].exitEnabled = FALSE]
  /\ AfterShutdown("ok")
  /\ UNCHANGED <<sdk, nic, stack, at, on, held, stuck>>

(* ddi_thread_join refuses the detached thread. *)
Join ==
  /\ pc = "join"
  /\ pc' = "wait"
  /\ UNCHANGED <<sdk, inst, nic, stack, at, on, call, status, held, stuck>>

(* Mutant: the wait ends whether or not the thread has left. *)
ExitAssumed ==
  /\ pc = "wait"
  /\ inst' = [inst EXCEPT ![call.h].enabled = FALSE, ![call.h].exitEnabled = FALSE]
  /\ AfterShutdown("ok")
  /\ UNCHANGED <<sdk, nic, stack, at, on, held, stuck>>

ExitSeen ==
  /\ pc = "wait"
  /\ inst[call.h].exitOccurred
  /\ inst' = [inst EXCEPT ![call.h].enabled = FALSE, ![call.h].exitEnabled = FALSE]
  /\ AfterShutdown("ok")
  /\ UNCHANGED <<sdk, nic, stack, at, on, held, stuck>>

(* Mutant: the wait has no limit. *)
ExitAwaited ==
  /\ pc = "wait"
  /\ ~inst[call.h].exitOccurred
  /\ UNCHANGED vars

(* A thousand naps of a millisecond have passed. *)
ExitTimeout ==
  /\ pc = "wait"
  /\ ~inst[call.h].exitOccurred
  /\ Prompt => Running(call.h) = {}
  /\ AfterShutdown("timeout")
  /\ UNCHANGED <<sdk, inst, nic, stack, at, on, held, stuck>>

(* The notification client is unregistered, emDeinitMaster takes the stack *)
(* instance down, the slave handles are closed.  An error of the first is  *)
(* what the deinit returns.                                                *)
Teardown ==
  /\ pc = "teardown"
  /\ stack' = [stack EXCEPT ![call.h] = NoNic]
  /\ held' = held \ {call.h}
  /\ stuck' = stuck \ {call.h}
  /\ \E st \in {status, "stack_error"} : Return(st)
  /\ UNCHANGED <<sdk, inst, nic, at, on>>

(* emDeinitMaster fails: the stack instance stays up, its adapter has been *)
(* given back and nothing is taken back.  The application tries again or   *)
(* leaves it at that.                                                      *)
TeardownFails ==
  /\ pc = "teardown"
  /\ stuck' = stuck \cup {call.h}
  /\ held' \in {held, held \ {call.h}}
  /\ Return("stack_error")
  /\ UNCHANGED <<sdk, inst, nic, stack, at, on>>

----------------------------------------------------------------------------
InitCall ==
  \/ \E h \in Handles, n \in Nics, thread, bad \in BOOLEAN : Allocate(h, n, thread, bad)
  \/ NoInstance
  \/ LogFails
  \/ AdapterRegistered
  \/ TakeAdapter
  \/ StackFails
  \/ StackUp
  \/ MacFails
  \/ InitWithoutThread
  \/ CreateThread
  \/ StoreAffinity

ShutdownCall ==
  \/ RequestExit
  \/ Join
  \/ ExitSeen
  \/ ExitTimeout
  \/ Teardown
  \/ TeardownFails

CyclicThread(t) ==
  \/ Enter(t)
  \/ AffinityFails(t)
  \/ Cycle(t)
  \/ UpdateDone(t)
  \/ LeaveLoop(t)
  \/ EndThread(t)

Next ==
  \/ SdkInit
  \/ SdkDeinit
  \/ InitCall
  \/ \E h \in Handles : Stop(h) \/ Deinit(h)
  \/ ShutdownCall
  \/ \E t \in Threads, h \in Handles : StartTask(t, h)
  \/ \E t \in Threads : CyclicThread(t)

(* The operating system runs the application and the cyclic threads; it is *)
(* the application's choice whether it makes another call.                 *)
Fairness ==
  /\ WF_vars(ShutdownCall)
  /\ \A t \in Threads : WF_vars(CyclicThread(t))

Spec == Init /\ [][Next]_vars
FairSpec == Spec /\ Fairness

----------------------------------------------------------------------------
(* Type invariant of the instances, the threads and the call.              *)
TypeOK ==
  /\ sdk \in BOOLEAN
  /\ inst \in [Handles -> [enabled : BOOLEAN, sdkThread : BOOLEAN,
                           exitEnabled : BOOLEAN, exitOccurred : BOOLEAN,
                           badCpu : BOOLEAN]]
  /\ nic \in [Handles -> Nics \cup {NoNic}]
  /\ stack \in [Handles -> Nics \cup {NoNic}]
  /\ at \in [Threads -> {"off", "entered", "loop", "update", "leaving"}]
  /\ on \in [Threads -> Handles \cup {NoHandle}]
  /\ pc \in {"idle", "adapter", "stack", "thread", "affinity",
             "shutdown", "join", "wait", "teardown"}
  /\ call \in [op : {"none", "init", "stop", "deinit"}, h : Handles \cup {NoHandle},
               nic : Nics \cup {NoNic}, thread : BOOLEAN, bad : BOOLEAN]
  /\ status \in {"none", "ok", "timeout", "cyc_thread_stop", "log_dir_failed",
                 "nic_already_reg", "stack_error", "mac_error",
                 "no_resources"}
  /\ held \subseteq Handles
  /\ stuck \subseteq Handles

(* A cyclic update, which runs jobs of the stack and reads process data,   *)
(* never meets a stack that was taken down under it (ddi_em.cpp:61, 80).   *)
UpdateOnLiveStack ==
  \A t \in Threads : at[t] = "update" => stack[on[t]] # NoNic

(* The types, and updates of a stack that is up.                           *)
StackInv == TypeOK /\ UpdateOnLiveStack

(* ddi_em.cpp:491: no two masters drive the same network adapter, other    *)
(* than by a stack that outlived the deinit of its instance: ddi_em_deinit *)
(* gives the adapter back (line 60) before it takes the stack down.        *)
NicExclusive ==
  \A g, h \in Handles \ stuck : stack[g] # NoNic /\ stack[g] = stack[h] => g = h

(* An instance is given to the next ddi_em_init only when no thread is left*)
(* in its cyclic loop: the memset of get_next_instance would let it go on. *)
FreeIsQuiet ==
  \A h \in Handles : ~inst[h].enabled => Running(h) = {}

(* ddi_em_api.h:847-850: when ddi_em_cyclic_task_stop or ddi_em_deinit     *)
(* returns ok, the cyclic task is stopped.                                 *)
OkMeansStopped ==
  [][\A h \in Handles :
       call.op \in {"stop", "deinit"} /\ call.h = h /\ pc' = "idle" /\ status' = "ok"
         => Running(h)' = {}]_vars

(* Every stop and every deinit returns, with or without a cyclic thread.   *)
ShutdownReturns == call.op \in {"stop", "deinit"} ~> pc = "idle"

(* A cyclic thread that is asked to exit leaves.                           *)
ExitObeyed ==
  \A h \in Handles : inst[h].exitEnabled /\ Running(h) # {} ~> Running(h) = {}
=============================================================================
