------------------------- MODULE MasterLifecycleProofs -------------------------
(***************************************************************************)
(* That the masters of ddi_em.cpp do not trip over each other and over     *)
(* their cyclic threads, for any number of instances, adapters and threads *)
(* of an application that is as careful as the fixtures.                   *)
(***************************************************************************)
EXTENDS MasterLifecycle, TLAPS

(* How the fixtures use the SDK: each stop is followed by the deinit, no   *)
(* task is started on a stopped instance, and a cyclic thread answers      *)
(* within a second.                                                        *)
CarefulUse == Prompt /\ Tidy

Initialising == {"adapter", "stack", "thread", "affinity"}
ShuttingDown == {"shutdown", "join", "wait", "teardown"}

(* The call the application is in, and the instance it is about. *)
CallInv ==
  /\ pc \in Initialising => call.op = "init"
  /\ pc \in ShuttingDown => call.op \in {"stop", "deinit"} /\ call.h \in held
  /\ pc = "teardown" => call.op = "deinit"
  /\ pc = "idle" => call.op = "none"
  /\ pc # "idle" => call.h \in Handles
  /\ pc \in Initialising => call.nic \in Nics /\ sdk
  /\ ~sdk => held = {} /\ \A h \in Handles : ~inst[h].enabled

(* A thread runs the task of an instance, alone, and only of one that is   *)
(* allocated and has not acknowledged an exit; it does so only when it is  *)
(* asked to.                                                               *)
ThreadInv ==
  /\ \A t \in Threads : at[t] # "off" => on[t] \in Handles
  /\ \A t \in Threads : at[t] = "off" => on[t] = NoHandle
  /\ \A h \in Handles : \A t, u \in Running(h) : t = u
  /\ \A h \in Handles : ~inst[h].enabled \/ inst[h].exitOccurred => Running(h) = {}
  /\ \A h \in Handles : inst[h].exitOccurred => inst[h].exitEnabled \/ ~inst[h].enabled

(* A new instance has no thread and no stack until it is given them, other *)
(* than a stack that outlived the last deinit of the instance.             *)
FreshInv ==
  /\ \A h \in Handles : ~inst[h].enabled /\ h \notin held => stack[h] = NoNic \/ h \in stuck
  /\ \A h \in stuck : stack[h] # NoNic
  /\ pc \in Initialising =>
       /\ call.h \notin held
       /\ inst[call.h].enabled /\ ~inst[call.h].exitEnabled /\ ~inst[call.h].exitOccurred
  /\ pc \in {"adapter", "stack", "thread"} => Running(call.h) = {} /\ ~inst[call.h].sdkThread
  /\ pc = "affinity" => inst[call.h].sdkThread
  /\ pc \in {"adapter", "stack"} => stack[call.h] = NoNic \/ call.h \in stuck
  /\ pc \in {"thread", "affinity"} => stack[call.h] # NoNic

(* A thread without a stack has been asked to exit and updates no more.    *)
UpdateInv ==
  /\ \A h \in held : stack[h] # NoNic
  /\ \A h \in Handles : stack[h] = NoNic /\ Running(h) # {} => inst[h].exitEnabled
  /\ \A h \in Handles : stack[h] = NoNic => \A t \in Running(h) : at[t] # "update"
  /\ pc \in {"join", "wait"} => inst[call.h].exitEnabled
  /\ pc = "teardown" =>
       /\ inst[call.h].exitEnabled \/ inst[call.h].exitOccurred
       /\ \A t \in Running(call.h) : at[t] # "update"
       /\ status = "ok" => inst[call.h].exitOccurred

(* The adapter of a stack is registered, unless its instance is on the way *)
(* down or was taken down in vain.                                         *)
AdapterInv ==
  /\ \A g, h \in Handles : nic[g] # NoNic /\ nic[g] = nic[h] => g = h
  /\ \A h \in Handles \ stuck : stack[h] # NoNic =>
       nic[h] = stack[h] \/ (pc \in ShuttingDown /\ call.op = "deinit" /\ call.h = h)
  /\ pc \in {"stack", "thread", "affinity"} => nic[call.h] = call.nic
  /\ NicExclusive

LifeInv == TypeOK /\ CallInv /\ ThreadInv /\ FreshInv /\ UpdateInv /\ AdapterInv

(* The type of an instance. *)
Instances ==
  [enabled : BOOLEAN, sdkThread : BOOLEAN, exitEnabled : BOOLEAN,
   exitOccurred : BOOLEAN, badCpu : BOOLEAN]

(* The type of a call. *)
Calls ==
  [op : {"none", "init", "stop", "deinit"}, h : Handles \cup {NoHandle},
   nic : Nics \cup {NoNic}, thread : BOOLEAN, bad : BOOLEAN]

(* A fresh instance. *)
LEMMA AllocatedFields ==
  ASSUME NEW j, j = [Cleared EXCEPT !.enabled = TRUE]
  PROVE  /\ j \in Instances
         /\ j.enabled /\ ~j.sdkThread /\ ~j.exitEnabled /\ ~j.exitOccurred
  <1>1. Cleared \in Instances
    BY DEF Cleared, Instances
  <1>2. ~Cleared.sdkThread /\ ~Cleared.exitEnabled /\ ~Cleared.exitOccurred
    BY Zenon DEF Cleared
  <1>3. j \in Instances /\ j.enabled
    BY <1>1 DEF Instances
  <1>4. j.sdkThread = Cleared.sdkThread /\ j.exitEnabled = Cleared.exitEnabled
    BY <1>1 DEF Instances
  <1>5. j.exitOccurred = Cleared.exitOccurred
    BY <1>1 DEF Instances
  <1> QED
    BY <1>2, <1>3, <1>4, <1>5

(* The acknowledgement of an exit. *)
LEMMA ExitField ==
  ASSUME NEW i \in Instances, NEW j, j = [i EXCEPT !.exitOccurred = TRUE]
  PROVE  /\ j.enabled = i.enabled
         /\ j.sdkThread = i.sdkThread
         /\ j.exitEnabled = i.exitEnabled
  BY DEF Instances

(* The request of an exit. *)
LEMMA RequestField ==
  ASSUME NEW i \in Instances, NEW j, j = [i EXCEPT !.exitEnabled = TRUE]
  PROVE  /\ j \in Instances
         /\ j.enabled = i.enabled
         /\ j.sdkThread = i.sdkThread
         /\ j.exitEnabled
         /\ j.exitOccurred = i.exitOccurred
  <1>1. j \in Instances /\ j.exitEnabled
    BY DEF Instances
  <1>2. j.enabled = i.enabled /\ j.sdkThread = i.sdkThread
    BY DEF Instances
  <1>3. j.exitOccurred = i.exitOccurred
    BY DEF Instances
  <1> QED
    BY <1>1, <1>2, <1>3

(* The end of a shutdown. *)
LEMMA SeenFields ==
  ASSUME NEW i \in Instances, NEW j, j = [i EXCEPT !.enabled = FALSE, !.exitEnabled = FALSE]
  PROVE  /\ j \in Instances
         /\ ~j.enabled
         /\ j.sdkThread = i.sdkThread
         /\ j.exitOccurred = i.exitOccurred
  <1>1. j \in Instances /\ ~j.enabled
    BY DEF Instances
  <1>2. j.sdkThread = i.sdkThread
    BY DEF Instances
  <1>3. j.exitOccurred = i.exitOccurred
    BY DEF Instances
  <1> QED
    BY <1>1, <1>2, <1>3

(* No call is a call. *)
LEMMA NoCallType == NoCall \in Calls
  BY DEF NoCall, Calls

(* Nothing runs, nothing is taken: the invariant holds at first. *)
LEMMA InitLife == Init => LifeInv
  <1> SUFFICES ASSUME Init PROVE LifeInv
    OBVIOUS
  <1>1. \A h \in Handles : Running(h) = {}
    BY DEF Init, Running
  <1>2. TypeOK
    <2>1. Cleared \in Instances
      BY DEF Cleared, Instances
    <2>2. inst \in [Handles -> Instances]
      BY <2>1 DEF Init
    <2>3. call \in Calls
      BY DEF Init, NoCall, Calls
    <2> QED
      BY <2>2, <2>3 DEF Init, TypeOK, Instances, Calls
  <1>3. CallInv /\ ThreadInv /\ FreshInv /\ UpdateInv /\ AdapterInv
    <2>1. \A h \in Handles : ~inst[h].enabled /\ stack[h] = NoNic /\ nic[h] = NoNic
      BY Zenon DEF Init, Cleared
    <2> QED
      BY <1>1, <2>1 DEF Init, NoCall, CallInv, ThreadInv, FreshInv, UpdateInv, AdapterInv,
         NicExclusive, Initialising, ShuttingDown
  <1> QED
    BY <1>2, <1>3 DEF LifeInv

(* A call that gives up on its way, or before it has begun, changes nothing. *)
LEMMA GiveUp ==
  ASSUME LifeInv, NoInstance \/ LogFails \/ AdapterRegistered \/ StackFails \/ MacFails
  PROVE  LifeInv'
  <1> USE DEF LifeInv
  <1>1. /\ UNCHANGED <<sdk, inst, nic, stack, at, on, held, stuck>>
        /\ pc' = "idle" /\ call' = NoCall /\ pc \notin ShuttingDown
        /\ status' \in {"no_resources", "log_dir_failed", "nic_already_reg", "stack_error",
                        "mac_error"}
    BY DEF NoInstance, LogFails, AdapterRegistered, StackFails, MacFails, Return, ShuttingDown
  <1>2. \A h : Running(h)' = Running(h)
    BY <1>1 DEF Running
  <1>3. TypeOK'
    BY <1>1 DEF TypeOK, NoCall
  <1>4. CallInv' /\ ThreadInv' /\ FreshInv' /\ UpdateInv'
    BY <1>1, <1>2 DEF CallInv, ThreadInv, FreshInv, UpdateInv, Initialising, ShuttingDown, NoCall
  <1>5. AdapterInv'
    BY <1>1 DEF AdapterInv, NicExclusive, ShuttingDown
  <1> QED
    BY <1>3, <1>4, <1>5

(* The SDK goes down only when every instance has been given back. *)
LEMMA SdkDown ==
  ASSUME LifeInv, CarefulUse, SdkDeinit PROVE LifeInv'
  <1> USE DEF LifeInv, SdkDeinit, appVars
  <1>1. UNCHANGED <<inst, nic, stack, at, on, pc, call, status, held, stuck>>
    OBVIOUS
  <1>2. \A h : Running(h)' = Running(h)
    BY <1>1 DEF Running
  <1>3. TypeOK'
    BY <1>1 DEF TypeOK, NoCall, CallInv, Initialising, ShuttingDown
  <1>4. CallInv'
    BY <1>1, <1>3 DEF CarefulUse, CallInv, Initialising, ShuttingDown, NoCall, TypeOK
  <1>5. ThreadInv'
    BY <1>1, <1>2, <1>3 DEF ThreadInv, TypeOK
  <1>6. FreshInv'
    BY <1>1, <1>2, <1>3, NicsAssumption DEF FreshInv, CallInv, Initialising, ShuttingDown, NoCall, TypeOK
  <1>7. UpdateInv'
    BY <1>1, <1>2, <1>3, NicsAssumption DEF UpdateInv, FreshInv, CallInv, Initialising, ShuttingDown, NoCall, TypeOK
  <1>8. AdapterInv'
    BY <1>1, NicsAssumption DEF AdapterInv, UpdateInv, CallInv, FreshInv, NicExclusive, Initialising, ShuttingDown, NoCall, TypeOK, AdapterTaken
  <1> QED
    BY <1>3, <1>4, <1>5, <1>6, <1>7, <1>8

(* An adapter is taken when it is in nobody's table entry. *)
LEMMA AdapterStep ==
  ASSUME LifeInv, TakeAdapter PROVE LifeInv'
  <1> USE DEF LifeInv, TakeAdapter
  <1>1. UNCHANGED <<sdk, inst, stack, at, on, call, status, held, stuck>>
    OBVIOUS
  <1>2. \A h : Running(h)' = Running(h)
    BY <1>1 DEF Running
  <1>3. TypeOK'
    BY <1>1 DEF TypeOK, NoCall, CallInv, Initialising, ShuttingDown
  <1>4. CallInv'
    BY <1>1, <1>3 DEF CallInv, Initialising, ShuttingDown, NoCall, TypeOK
  <1>5. ThreadInv'
    BY <1>1, <1>2, <1>3 DEF ThreadInv, TypeOK
  <1>6. FreshInv'
    BY <1>1, <1>2, <1>3, NicsAssumption DEF FreshInv, CallInv, Initialising, ShuttingDown, NoCall, TypeOK
  <1>7. UpdateInv'
    BY <1>1, <1>2, <1>3, NicsAssumption DEF UpdateInv, FreshInv, CallInv, Initialising, ShuttingDown, NoCall, TypeOK
  <1>8. AdapterInv'
    BY <1>1, NicsAssumption DEF AdapterInv, UpdateInv, CallInv, FreshInv, NicExclusive, Initialising, ShuttingDown, NoCall, TypeOK, AdapterTaken
  <1> QED
    BY <1>3, <1>4, <1>5, <1>6, <1>7, <1>8

(* The stack comes up on the adapter the call has taken. *)
LEMMA StackStep ==
  ASSUME LifeInv, StackUp PROVE LifeInv'
  <1> USE DEF LifeInv, StackUp
  <1>1. UNCHANGED <<sdk, inst, nic, at, on, call, status, held, stuck>>
    OBVIOUS
  <1>2. \A h : Running(h)' = Running(h)
    BY <1>1 DEF Running
  <1>3. TypeOK'
    BY <1>1 DEF TypeOK, NoCall, CallInv, Initialising, ShuttingDown
  <1>4. CallInv'
    BY <1>1, <1>3 DEF CallInv, Initialising, ShuttingDown, NoCall, TypeOK
  <1>5. ThreadInv'
    BY <1>1, <1>2, <1>3 DEF ThreadInv, TypeOK
  <1>6. FreshInv'
    BY <1>1, <1>2, <1>3, NicsAssumption DEF FreshInv, CallInv, Initialising, ShuttingDown, NoCall, TypeOK
  <1>7. UpdateInv'
    BY <1>1, <1>2, <1>3, NicsAssumption DEF UpdateInv, FreshInv, CallInv, Initialising, ShuttingDown, NoCall, TypeOK
  <1>8. AdapterInv'
    BY <1>1, NicsAssumption DEF AdapterInv, UpdateInv, CallInv, FreshInv, NicExclusive, Initialising, ShuttingDown, NoCall, TypeOK, AdapterTaken
  <1> QED
    BY <1>3, <1>4, <1>5, <1>6, <1>7, <1>8

(* The refused join only moves on. *)
LEMMA JoinStep ==
  ASSUME LifeInv, Join PROVE LifeInv'
  <1> USE DEF LifeInv, Join
  <1>1. UNCHANGED <<sdk, inst, nic, stack, at, on, call, status, held, stuck>>
    OBVIOUS
  <1>2. \A h : Running(h)' = Running(h)
    BY <1>1 DEF Running
  <1>3. TypeOK'
    BY <1>1 DEF TypeOK, NoCall, CallInv, Initialising, ShuttingDown
  <1>4. CallInv'
    BY <1>1, <1>3 DEF CallInv, Initialising, ShuttingDown, NoCall, TypeOK
  <1>5. ThreadInv'
    BY <1>1, <1>2, <1>3 DEF ThreadInv, TypeOK
  <1>6. FreshInv'
    BY <1>1, <1>2, <1>3, NicsAssumption DEF FreshInv, CallInv, Initialising, ShuttingDown, NoCall, TypeOK
  <1>7. UpdateInv'
    BY <1>1, <1>2, <1>3, NicsAssumption DEF UpdateInv, FreshInv, CallInv, Initialising, ShuttingDown, NoCall, TypeOK
  <1>8. AdapterInv'
    BY <1>1, NicsAssumption DEF AdapterInv, UpdateInv, CallInv, FreshInv, NicExclusive, Initialising, ShuttingDown, NoCall, TypeOK, AdapterTaken
  <1> QED
    BY <1>3, <1>4, <1>5, <1>6, <1>7, <1>8

(* A stop is of an instance the application has. *)
LEMMA StopStep ==
  ASSUME LifeInv, NEW h \in Handles, Stop(h) PROVE LifeInv'
  <1> USE DEF LifeInv, Stop
  <1>1. UNCHANGED <<sdk, inst, nic, stack, at, on, held, stuck>>
    OBVIOUS
  <1>2. \A g : Running(g)' = Running(g)
    BY <1>1 DEF Running
  <1>3. TypeOK'
    BY <1>1 DEF TypeOK, NoCall, CallInv, Initialising, ShuttingDown
  <1>4. CallInv'
    BY <1>1, <1>3 DEF CallInv, Initialising, ShuttingDown, NoCall, TypeOK
  <1>5. ThreadInv'
    BY <1>1, <1>2, <1>3 DEF ThreadInv, TypeOK
  <1>6. FreshInv'
    BY <1>1, <1>2, <1>3, NicsAssumption DEF FreshInv, CallInv, Initialising, ShuttingDown, NoCall, TypeOK
  <1>7. UpdateInv'
    BY <1>1, <1>2, <1>3, NicsAssumption DEF UpdateInv, FreshInv, CallInv, Initialising, ShuttingDown, NoCall, TypeOK
  <1>8. AdapterInv'
    BY <1>1, NicsAssumption DEF AdapterInv, UpdateInv, CallInv, FreshInv, NicExclusive, Initialising, ShuttingDown, NoCall, TypeOK, AdapterTaken
  <1> QED
    BY <1>3, <1>4, <1>5, <1>6, <1>7, <1>8

(* A deinit releases the adapter while the stack still drives it. *)
LEMMA DeinitStep ==
  ASSUME LifeInv, NEW h \in Handles, Deinit(h) PROVE LifeInv'
  <1> USE DEF LifeInv, Deinit
  <1>1. UNCHANGED <<sdk, inst, stack, at, on, held, stuck>>
    OBVIOUS
  <1>2. \A g : Running(g)' = Running(g)
    BY <1>1 DEF Running
  <1>3. TypeOK'
    BY <1>1 DEF TypeOK, NoCall, CallInv, Initialising, ShuttingDown
  <1>4. CallInv'
    BY <1>1, <1>3 DEF CallInv, Initialising, ShuttingDown, NoCall, TypeOK
  <1>5. ThreadInv'
    BY <1>1, <1>2, <1>3 DEF ThreadInv, TypeOK
  <1>6. FreshInv'
    BY <1>1, <1>2, <1>3, NicsAssumption DEF FreshInv, CallInv, Initialising, ShuttingDown, NoCall, TypeOK
  <1>7. UpdateInv'
    BY <1>1, <1>2, <1>3, NicsAssumption DEF UpdateInv, FreshInv, CallInv, Initialising, ShuttingDown, NoCall, TypeOK
  <1>8. AdapterInv'
    BY <1>1, NicsAssumption DEF AdapterInv, UpdateInv, CallInv, FreshInv, NicExclusive, Initialising, ShuttingDown, NoCall, TypeOK, AdapterTaken
  <1> QED
    BY <1>3, <1>4, <1>5, <1>6, <1>7, <1>8

(* A cyclic thread that goes on, fails to pin itself or ends: none joins   *)
(* it, and an update begins only when no exit was asked for.               *)
LEMMA ThreadSteps ==
  ASSUME LifeInv, NEW t \in Threads,
         Enter(t) \/ AffinityFails(t) \/ Cycle(t) \/ UpdateDone(t) \/ EndThread(t)
  PROVE  LifeInv'
  <1> USE DEF LifeInv
  <1>1. UNCHANGED <<sdk, inst, nic, stack, pc, call, status, held, stuck>>
    BY DEF Enter, AffinityFails, Cycle, UpdateDone, EndThread, appVars
  <1>2. TypeOK'
    BY <1>1 DEF TypeOK, Enter, AffinityFails, Cycle, UpdateDone, EndThread
  <1>3. \A h \in Handles : Running(h)' \subseteq Running(h)
    BY NoHandleAssumption DEF TypeOK, Running, Enter, AffinityFails, Cycle, UpdateDone, EndThread
  <1>4. \A h \in Handles : \A u \in Running(h)' : at'[u] = "update"
                       => at[u] = "update" \/ ~inst[h].exitEnabled
    BY <1>3 DEF TypeOK, Running, Enter, AffinityFails, Cycle, UpdateDone, EndThread
  <1>5. CallInv'
    BY <1>1 DEF CallInv
  <1>6. ThreadInv'
    <2>1. \A u \in Threads : /\ at'[u] # "off" => on'[u] \in Handles
                             /\ at'[u] = "off" => on'[u] = NoHandle
      BY DEF TypeOK, ThreadInv, Enter, AffinityFails, Cycle, UpdateDone, EndThread
    <2>2. \A h \in Handles : \A u, v \in Running(h)' : u = v
      BY <1>3 DEF ThreadInv
    <2>3. \A h \in Handles : Running(h) = {} => Running(h)' = {}
      BY <1>3
    <2>4. \A h \in Handles : ~inst'[h].enabled \/ inst'[h].exitOccurred => Running(h)' = {}
      BY <1>1, <2>3 DEF ThreadInv
    <2>5. \A h \in Handles : inst'[h].exitOccurred => inst'[h].exitEnabled \/ ~inst'[h].enabled
      BY <1>1, <2>3 DEF ThreadInv, TypeOK
    <2> QED
      BY ONLY <2>1, <2>2, <2>4, <2>5 DEF ThreadInv
  <1>7. FreshInv'
    BY <1>1, <1>3 DEF FreshInv, CallInv, Initialising
  <1>8. UpdateInv'
    <2>1. \A h \in Handles : stack[h] = NoNic => \A u \in Running(h)' : at'[u] # "update"
      BY <1>3, <1>4 DEF UpdateInv
    <2>2. pc = "teardown" => \A u \in Running(call.h)' : at'[u] # "update"
      <3> SUFFICES ASSUME pc = "teardown", NEW u \in Running(call.h)' PROVE at'[u] # "update"
        OBVIOUS
      <3>1. call.h \in Handles /\ u \in Running(call.h)
        BY <1>1, <1>3 DEF CallInv, ShuttingDown
      <3>2. ~inst[call.h].exitOccurred
        BY <3>1 DEF ThreadInv
      <3>3. inst[call.h].exitEnabled
        BY <3>2 DEF UpdateInv
      <3> QED
        BY <1>1, <1>4, <3>1, <3>3 DEF UpdateInv
    <2> QED
      BY <1>1, <1>3, <2>1, <2>2 DEF UpdateInv
  <1>9. AdapterInv'
    BY <1>1 DEF AdapterInv, NicExclusive
  <1> QED
    BY <1>2, <1>5, <1>6, <1>7, <1>8, <1>9

(* A thread that leaves the loop was the only one of its instance. *)
LEMMA LeaveStep ==
  ASSUME LifeInv, NEW t \in Threads, LeaveLoop(t) PROVE LifeInv'
  <1> USE DEF LifeInv, LeaveLoop
  <1> DEFINE g == on[t]
  <1>1. UNCHANGED <<sdk, on, nic, stack, pc, call, status, held, stuck>>
    BY DEF appVars
  <1>2. g \in Handles /\ t \in Running(g)
    BY DEF ThreadInv, TypeOK, Running
  <1>3. \A h \in Handles : Running(h)' = Running(h) \ {t}
    BY <1>2 DEF TypeOK, Running
  <1>4. Running(g)' = {}
    BY <1>2, <1>3 DEF ThreadInv
  <1>5. /\ \A h \in Handles : h # g => inst'[h] = inst[h]
        /\ inst'[g] = [inst[g] EXCEPT !.exitOccurred = TRUE]
    BY <1>2 DEF TypeOK
  <1>6. inst[g] \in Instances /\ inst'[g] \in Instances /\ inst'[g].exitOccurred
    BY <1>2, <1>5 DEF TypeOK, Instances
  <1>7. /\ inst'[g].enabled = inst[g].enabled
        /\ inst'[g].sdkThread = inst[g].sdkThread
        /\ inst'[g].exitEnabled = inst[g].exitEnabled
    BY <1>5, <1>6, ExitField
  <1>8. /\ inst' \in [Handles -> Instances]
        /\ at' \in [Threads -> {"off", "entered", "loop", "update", "leaving"}]
    BY <1>5, <1>6 DEF TypeOK, Instances
  <1>9. TypeOK'
    BY <1>1, <1>8 DEF TypeOK, Instances
  <1>10. CallInv'
    BY <1>1, <1>5, <1>7 DEF CallInv
  <1>11. ThreadInv'
    <2>1. \A u \in Threads : /\ at'[u] # "off" => on'[u] \in Handles
                             /\ at'[u] = "off" => on'[u] = NoHandle
      BY <1>1, <1>2 DEF TypeOK, ThreadInv
    <2>2. \A h \in Handles : ~inst'[h].enabled \/ inst'[h].exitOccurred => Running(h)' = {}
      BY <1>3, <1>4, <1>5 DEF ThreadInv
    <2>3. \A h \in Handles : inst'[h].exitOccurred => inst'[h].exitEnabled \/ ~inst'[h].enabled
      BY <1>2, <1>3, <1>5, <1>7 DEF ThreadInv, TypeOK
    <2> QED
      BY <1>1, <1>3, <2>1, <2>2, <2>3 DEF ThreadInv
  <1>12. FreshInv'
    <2>1. pc \in Initialising => g # call.h
      BY <1>2 DEF FreshInv, TypeOK
    <2> QED
      BY <1>1, <1>3, <1>5, <1>7, <2>1 DEF FreshInv, CallInv, Initialising
  <1>13. UpdateInv'
    <2>1. \A h \in Handles : \A u \in Running(h)' : at'[u] = at[u]
      BY <1>3 DEF TypeOK
    <2> QED
      BY <1>1, <1>3, <1>4, <1>5, <1>6, <1>7, <2>1 DEF UpdateInv, CallInv, TypeOK
  <1>14. AdapterInv'
    BY <1>1 DEF AdapterInv, NicExclusive
  <1> QED
    BY <1>9, <1>10, <1>11, <1>12, <1>13, <1>14

(* A thread of the application enters a task nobody runs, of an instance   *)
(* that was not stopped.                                                   *)
LEMMA StartStep ==
  ASSUME LifeInv, CarefulUse, NEW t \in Threads, NEW g \in Handles, StartTask(t, g)
  PROVE  LifeInv'
  <1> USE DEF LifeInv, StartTask, appVars
  <1>1. UNCHANGED <<sdk, inst, nic, stack, pc, call, status, held, stuck>>
    OBVIOUS
  <1>2. inst[g].enabled /\ ~inst[g].exitEnabled
    BY DEF CarefulUse
  <1>3. TypeOK'
    BY <1>2 DEF TypeOK
  <1>4. /\ Running(g)' = {t} /\ at'[t] = "entered"
        /\ \A h \in Handles : h # g => Running(h)' = Running(h)
        /\ \A u \in Threads : u # t => at'[u] = at[u]
    BY <1>2, NoHandleAssumption DEF TypeOK, Running, ThreadInv
  <1>5. ~inst[g].exitOccurred /\ inst[g].enabled
    BY <1>2 DEF ThreadInv
  <1>6. CallInv'
    BY <1>1 DEF CallInv
  <1>7. ThreadInv'
    <2>1. \A u \in Threads : /\ at'[u] # "off" => on'[u] \in Handles
                             /\ at'[u] = "off" => on'[u] = NoHandle
      BY DEF TypeOK, ThreadInv
    <2>2. \A h \in Handles : \A u, v \in Running(h)' : u = v
      BY <1>4 DEF ThreadInv
    <2>3. \A h \in Handles : ~inst'[h].enabled \/ inst'[h].exitOccurred => Running(h)' = {}
      BY <1>1, <1>4, <1>5 DEF ThreadInv
    <2>4. \A h \in Handles : inst'[h].exitOccurred => inst'[h].exitEnabled \/ ~inst'[h].enabled
      BY <1>1, <1>2, <1>4 DEF ThreadInv, TypeOK
    <2> QED
      BY ONLY <2>1, <2>2, <2>3, <2>4 DEF ThreadInv
  <1>8. FreshInv'
    <2>1. pc \in Initialising => call.h # g
      BY DEF FreshInv
    <2> QED
      BY <1>1, <1>4, <2>1 DEF FreshInv, CallInv, Initialising
  <1>9. UpdateInv'
    <2>1. stack[g] # NoNic
      BY DEF UpdateInv
    <2>2. \A h \in Handles : \A u \in Running(h)' : h # g => at'[u] = at[u]
      BY <1>4 DEF Running
    <2> QED
      BY <1>1, <1>4, <1>5, <2>1, <2>2 DEF UpdateInv, CallInv, ShuttingDown, Running
  <1>10. AdapterInv'
    BY <1>1 DEF AdapterInv, NicExclusive
  <1> QED
    BY <1>3, <1>6, <1>7, <1>8, <1>9, <1>10

(* Giving out an instance whose task the application will run. *)
LEMMA HandOutStep ==
  ASSUME LifeInv, InitWithoutThread PROVE LifeInv'
  <1> USE DEF LifeInv, InitWithoutThread, HandOut, Return
  <1> DEFINE g == call.h
  <1>1. /\ UNCHANGED <<sdk, inst, nic, stack, at, on, stuck>>
        /\ pc = "thread" /\ pc' = "idle" /\ call' = NoCall /\ status' = "ok"
        /\ held' = held \cup {g}
    OBVIOUS
  <1>2. \A h : Running(h)' = Running(h)
    BY <1>1 DEF Running
  <1>3. /\ g \in Handles /\ g \notin held /\ Running(g) = {} /\ stack[g] # NoNic
        /\ inst[g].enabled /\ ~inst[g].exitOccurred
    BY <1>1 DEF CallInv, FreshInv, Initialising
  <1>4. TypeOK'
    BY <1>1, <1>3 DEF TypeOK, NoCall
  <1>5. CallInv'
    BY <1>1, <1>3 DEF CallInv, Initialising, ShuttingDown, NoCall
  <1>6. ThreadInv'
    <2>1. \A h \in Handles : inst'[h].exitOccurred => inst'[h].exitEnabled \/ ~inst'[h].enabled
      BY <1>1, <1>2, <1>3, <1>4 DEF ThreadInv
    <2> QED
      BY <1>1, <1>2, <2>1 DEF ThreadInv
  <1>7. FreshInv' /\ UpdateInv'
    BY <1>1, <1>2, <1>3 DEF FreshInv, UpdateInv, Initialising
  <1>8. AdapterInv'
    BY <1>1 DEF AdapterInv, NicExclusive, ShuttingDown
  <1> QED
    BY <1>4, <1>5, <1>6, <1>7, <1>8

(* The affinity goes into an instance whose thread is the SDK's. *)
LEMMA AffinityStep ==
  ASSUME LifeInv, StoreAffinity PROVE LifeInv'
  <1> USE DEF LifeInv, StoreAffinity, HandOut, Return
  <1> DEFINE g == call.h
  <1>1. /\ UNCHANGED <<sdk, nic, stack, at, on, stuck>>
        /\ pc = "affinity" /\ pc' = "idle" /\ call' = NoCall /\ status' = "ok"
        /\ held' = held \cup {g}
    OBVIOUS
  <1>2. \A h : Running(h)' = Running(h)
    BY <1>1 DEF Running
  <1>3. /\ g \in Handles /\ g \notin held /\ stack[g] # NoNic
        /\ inst[g].enabled /\ ~inst[g].exitOccurred /\ inst[g].sdkThread
    BY <1>1 DEF CallInv, FreshInv, Initialising
  <1>4. /\ \A h \in Handles : h # g => inst'[h] = inst[h]
        /\ inst'[g] = [inst[g] EXCEPT !.badCpu = call.bad]
    BY <1>3 DEF TypeOK
  <1>5. /\ inst[g] \in Instances /\ inst'[g] \in Instances
        /\ inst'[g].enabled = inst[g].enabled
        /\ inst'[g].sdkThread = inst[g].sdkThread
        /\ inst'[g].exitEnabled = inst[g].exitEnabled
        /\ inst'[g].exitOccurred = inst[g].exitOccurred
    BY <1>3, <1>4 DEF TypeOK, Instances
  <1>6. inst' \in [Handles -> Instances]
    BY <1>1, <1>3, <1>4, <1>5 DEF TypeOK, Instances
  <1>7. TypeOK'
    BY <1>1, <1>3, <1>6 DEF TypeOK, NoCall, Instances
  <1>8. CallInv'
    BY <1>1, <1>3, <1>4, <1>5 DEF CallInv, Initialising, ShuttingDown, NoCall
  <1>9. ThreadInv'
    <2>1. \A h \in Handles : inst'[h].exitOccurred => inst'[h].exitEnabled \/ ~inst'[h].enabled
      BY <1>1, <1>2, <1>3, <1>4, <1>5, <1>6 DEF ThreadInv, TypeOK
    <2>3. \A h \in Handles : ~inst'[h].enabled \/ inst'[h].exitOccurred => Running(h)' = {}
      BY <1>2, <1>3, <1>4, <1>5 DEF ThreadInv
    <2> QED
      BY <1>1, <1>2, <2>1, <2>3 DEF ThreadInv
  <1>10. FreshInv' /\ UpdateInv'
    BY <1>1, <1>2, <1>3, <1>4, <1>5 DEF FreshInv, UpdateInv, Initialising
  <1>11. AdapterInv'
    BY <1>1 DEF AdapterInv, NicExclusive, ShuttingDown
  <1> QED
    BY <1>7, <1>8, <1>9, <1>10, <1>11

(* The SDK's thread, if it can be made, enters an instance that had none. *)
LEMMA CreateStep ==
  ASSUME LifeInv, CreateThread PROVE LifeInv'
  <1> USE DEF LifeInv, CreateThread
  <1> DEFINE g == call.h
  <1>1. /\ UNCHANGED <<sdk, nic, stack, call, status, held, stuck>>
        /\ pc = "thread" /\ pc' = "affinity"
    OBVIOUS
  <1>2. /\ g \in Handles /\ g \notin held /\ Running(g) = {} /\ stack[g] # NoNic
        /\ inst[g].enabled /\ ~inst[g].exitEnabled /\ ~inst[g].exitOccurred
    BY <1>1 DEF CallInv, FreshInv, Initialising
  <1>3. /\ \A h \in Handles : h # g => inst'[h] = inst[h]
        /\ inst'[g] = [inst[g] EXCEPT !.sdkThread = TRUE]
    BY <1>2 DEF TypeOK
  <1>4. /\ inst[g] \in Instances /\ inst'[g] \in Instances
        /\ inst'[g].enabled = inst[g].enabled
        /\ inst'[g].sdkThread
        /\ inst'[g].exitEnabled = inst[g].exitEnabled
        /\ inst'[g].exitOccurred = inst[g].exitOccurred
    BY <1>2, <1>3 DEF TypeOK, Instances
  <1>5. inst' \in [Handles -> Instances]
    BY <1>3, <1>4 DEF TypeOK, Instances
  <1>6. /\ at' \in [Threads -> {"off", "entered", "loop", "update", "leaving"}]
        /\ on' \in [Threads -> Handles \cup {NoHandle}]
        /\ \A u \in Threads : /\ at'[u] # "off" => on'[u] \in Handles
                              /\ at'[u] = "off" => on'[u] = NoHandle
    <2>1. CASE UNCHANGED <<at, on>>
      BY <2>1 DEF TypeOK, ThreadInv
    <2>2. ASSUME NEW t \in Threads, at' = [at EXCEPT ![t] = "entered"],
                 on' = [on EXCEPT ![t] = g]
          PROVE  /\ at' \in [Threads -> {"off", "entered", "loop", "update", "leaving"}]
                 /\ on' \in [Threads -> Handles \cup {NoHandle}]
                 /\ \A u \in Threads : /\ at'[u] # "off" => on'[u] \in Handles
                                       /\ at'[u] = "off" => on'[u] = NoHandle
      BY <1>2, <2>2 DEF TypeOK, ThreadInv
    <2> QED
      BY <2>1, <2>2
  <1>7. /\ \A u, v \in Running(g)' : u = v
        /\ \A u \in Running(g)' : at'[u] # "update"
        /\ \A h \in Handles : h # g => Running(h)' = Running(h)
        /\ \A h \in Handles : h # g => \A u \in Running(h) : at'[u] = at[u]
    <2>1. CASE UNCHANGED <<at, on>>
      BY <1>2, <2>1 DEF ThreadInv, Running
    <2>2. ASSUME NEW t \in Threads, at[t] = "off", at' = [at EXCEPT ![t] = "entered"],
                 on' = [on EXCEPT ![t] = g]
          PROVE  /\ \A u, v \in Running(g)' : u = v
                 /\ \A u \in Running(g)' : at'[u] # "update"
                 /\ \A h \in Handles : h # g => Running(h)' = Running(h)
                 /\ \A h \in Handles : h # g => \A u \in Running(h) : at'[u] = at[u]
      BY <1>2, <2>2 DEF TypeOK, Running
    <2> QED
      BY <2>1, <2>2
  <1>8. TypeOK'
    BY <1>1, <1>5, <1>6 DEF TypeOK, Instances
  <1>9. CallInv'
    BY <1>1, <1>3, <1>4 DEF CallInv, Initialising, ShuttingDown
  <1>10. ThreadInv'
    <2>1. \A h \in Handles : \A u, v \in Running(h)' : u = v
      BY <1>7 DEF ThreadInv
    <2>2. \A h \in Handles : ~inst'[h].enabled \/ inst'[h].exitOccurred => Running(h)' = {}
      BY <1>2, <1>3, <1>4, <1>7 DEF ThreadInv
    <2>3. \A h \in held : /\ h \in Handles /\ h # g
                          /\ inst'[h] = inst[h] /\ Running(h)' = Running(h)
      BY <1>2, <1>3, <1>7 DEF TypeOK
    <2>4. \A h \in Handles : inst'[h].exitOccurred => inst'[h].exitEnabled \/ ~inst'[h].enabled
      BY <2>3 DEF ThreadInv
    <2> QED
      BY <1>1, <1>6, <2>1, <2>2, <2>4 DEF ThreadInv
  <1>11. FreshInv'
    BY <1>1, <1>2, <1>3, <1>4 DEF FreshInv, Initialising
  <1>12. UpdateInv'
    BY <1>1, <1>2, <1>3, <1>4, <1>7 DEF UpdateInv, TypeOK
  <1>13. AdapterInv'
    BY <1>1 DEF AdapterInv, NicExclusive, ShuttingDown
  <1> QED
    BY <1>8, <1>9, <1>10, <1>11, <1>12, <1>13

(* When the SDK comes up no instance is in use and no thread runs. *)
LEMMA SdkUp ==
  ASSUME LifeInv, SdkInit PROVE LifeInv'
  <1> USE DEF LifeInv, SdkInit
  <1>1. /\ UNCHANGED <<nic, stack, at, on, pc, call, status, held, stuck>>
        /\ pc = "idle" /\ held = {} /\ sdk'
    BY DEF appVars, CallInv
  <1>2. Cleared \in Instances
    BY DEF Cleared, Instances
  <1>3. \A h \in Handles : /\ Running(h) = {}
                          /\ (stack[h] = NoNic \/ h \in stuck)
    BY <1>1 DEF CallInv, ThreadInv, FreshInv
  <1>4. \A h : Running(h)' = Running(h)
    BY <1>1 DEF Running
  <1>5. \A h \in Handles : ~inst'[h].enabled
    BY DEF Cleared
  <1>6. inst' \in [Handles -> Instances] /\ sdk' \in BOOLEAN
    BY <1>2
  <1>7. TypeOK'
    BY <1>1, <1>6 DEF TypeOK, Instances
  <1>8. CallInv'
    BY <1>1 DEF CallInv, Initialising, ShuttingDown
  <1>9. ThreadInv'
    <2>1. \A h \in Handles : Running(h)' = {}
      BY <1>3, <1>4
    <2>2. /\ \A u \in Threads : at'[u] # "off" => on'[u] \in Handles
          /\ \A u \in Threads : at'[u] = "off" => on'[u] = NoHandle
      BY <1>1 DEF ThreadInv
    <2> QED
      BY <1>1, <1>5, <2>1, <2>2 DEF ThreadInv
  <1>10. FreshInv' /\ UpdateInv'
    BY <1>1, <1>3, <1>4 DEF FreshInv, UpdateInv, Initialising
  <1>11. AdapterInv'
    BY <1>1 DEF AdapterInv, NicExclusive, ShuttingDown
  <1> QED
    BY <1>7, <1>8, <1>9, <1>10, <1>11

(* A tidy application has no instance whose slot is free: the one that is  *)
(* allocated has neither stack nor thread.                                 *)
LEMMA AllocateStep ==
  ASSUME LifeInv, CarefulUse, NEW g \in Handles, NEW n \in Nics, NEW thread \in BOOLEAN,
         NEW bad \in BOOLEAN, Allocate(g, n, thread, bad)
  PROVE  LifeInv'
  <1> USE DEF LifeInv, Allocate, NextInstance, Free
  <1>1. /\ UNCHANGED <<sdk, nic, stack, at, on, held, stuck>>
        /\ pc = "idle" /\ pc' = "adapter" /\ sdk /\ status' = "none"
        /\ call' = [op |-> "init", h |-> g, nic |-> n, thread |-> thread, bad |-> bad]
        /\ call'.op = "init" /\ call'.h = g /\ call'.nic = n
    OBVIOUS
  <1>2. \A h : Running(h)' = Running(h)
    BY <1>1 DEF Running
  <1>3. g \notin held /\ Running(g) = {} /\ (stack[g] = NoNic \/ g \in stuck)
    BY DEF CarefulUse, ThreadInv, FreshInv
  <1>4. /\ \A h \in Handles : h # g => inst'[h] = inst[h]
        /\ inst'[g] = [Cleared EXCEPT !.enabled = TRUE]
    BY DEF TypeOK
  <1>5. /\ inst'[g] \in Instances
        /\ inst'[g].enabled /\ ~inst'[g].sdkThread
        /\ ~inst'[g].exitEnabled /\ ~inst'[g].exitOccurred
    BY <1>4, AllocatedFields
  <1>6. inst' \in [Handles -> Instances] /\ call' \in Calls
    BY <1>1, <1>4, <1>5 DEF TypeOK, Instances, Calls
  <1>7. TypeOK'
    BY <1>1, <1>6 DEF TypeOK, Instances, Calls
  <1>8. CallInv'
    BY <1>1 DEF CallInv, Initialising, ShuttingDown
  <1>9. ThreadInv'
    <2>1. \A h \in Handles : ~inst'[h].enabled \/ inst'[h].exitOccurred => Running(h)' = {}
      BY <1>2, <1>4, <1>5 DEF ThreadInv
    <2>2. \A h \in Handles : inst'[h].exitOccurred => inst'[h].exitEnabled \/ ~inst'[h].enabled
      BY <1>4, <1>5 DEF ThreadInv
    <2> QED
      BY <1>1, <1>2, <2>1, <2>2 DEF ThreadInv
  <1>10. FreshInv'
    BY <1>1, <1>2, <1>3, <1>4, <1>5 DEF FreshInv, Initialising
  <1>11. UpdateInv'
    BY <1>1, <1>2, <1>3, <1>4, <1>5 DEF UpdateInv
  <1>12. AdapterInv'
    BY <1>1 DEF AdapterInv, NicExclusive, ShuttingDown
  <1> QED
    BY <1>7, <1>8, <1>9, <1>10, <1>11, <1>12

(* The request only adds to what the thread will see. *)
LEMMA RequestStep ==
  ASSUME LifeInv, RequestExit PROVE LifeInv'
  <1> USE DEF LifeInv, RequestExit
  <1> DEFINE g == call.h
  <1>1. /\ UNCHANGED <<sdk, nic, stack, at, on, call, status, held, stuck>>
        /\ pc = "shutdown" /\ pc' \in {"join", "wait"}
    OBVIOUS
  <1>2. \A h : Running(h)' = Running(h)
    BY <1>1 DEF Running
  <1>3. g \in Handles
    BY DEF CallInv
  <1>4. /\ \A h \in Handles : h # g => inst'[h] = inst[h]
        /\ inst'[g] = [inst[g] EXCEPT !.exitEnabled = TRUE]
    BY <1>3 DEF TypeOK
  <1>5. /\ inst[g] \in Instances /\ inst'[g] \in Instances
        /\ inst'[g].enabled = inst[g].enabled
        /\ inst'[g].sdkThread = inst[g].sdkThread
        /\ inst'[g].exitEnabled
        /\ inst'[g].exitOccurred = inst[g].exitOccurred
    <2>1. inst[g] \in Instances
      BY <1>3 DEF TypeOK, Instances
    <2> QED
      BY <1>4, <2>1, RequestField
  <1>6. inst' \in [Handles -> Instances]
    BY <1>4, <1>5 DEF TypeOK, Instances
  <1>7. TypeOK'
    BY <1>1, <1>6 DEF TypeOK, Instances
  <1>8. CallInv'
    BY <1>1, <1>4, <1>5 DEF CallInv, Initialising, ShuttingDown
  <1>9. ThreadInv'
    <2>1. \A h \in Handles : ~inst'[h].enabled \/ inst'[h].exitOccurred => Running(h)' = {}
      BY <1>2, <1>4, <1>5 DEF ThreadInv
    <2>2. \A h \in Handles : inst'[h].exitOccurred => inst'[h].exitEnabled \/ ~inst'[h].enabled
      BY <1>2, <1>4, <1>5 DEF ThreadInv, TypeOK
    <2> QED
      BY <1>1, <1>2, <2>1, <2>2 DEF ThreadInv
  <1>10. FreshInv' /\ UpdateInv'
    BY <1>1, <1>2, <1>4, <1>5 DEF FreshInv, UpdateInv, Initialising
  <1>11. AdapterInv'
    BY <1>1 DEF AdapterInv, NicExclusive, ShuttingDown
  <1> QED
    BY <1>7, <1>8, <1>9, <1>10, <1>11

(* What the call does when it has stopped waiting. *)
LEMMA AfterWait ==
  ASSUME LifeInv, pc = "wait", NEW st \in {"ok", "timeout"}, AfterShutdown(st)
  PROVE  /\ call.op \in {"stop", "deinit"} /\ call.h \in held /\ call.h \in Handles
         /\ inst[call.h].exitEnabled
         /\ \/ call.op = "deinit" /\ pc' = "teardown" /\ status' = st /\ call' = call
            \/ call.op = "stop" /\ pc' = "idle" /\ call' = NoCall
                 /\ status' \in {"ok", "cyc_thread_stop"} /\ (status' = "ok" => st = "ok")
  BY DEF LifeInv, AfterShutdown, Return, CallInv, UpdateInv, ShuttingDown

(* An acknowledged exit frees an instance no thread runs. *)
LEMMA SeenStep ==
  ASSUME LifeInv, ExitSeen PROVE LifeInv'
  <1> USE DEF LifeInv, ExitSeen
  <1> DEFINE g == call.h
  <1>1. /\ UNCHANGED <<sdk, nic, stack, at, on, held, stuck>>
        /\ pc = "wait" /\ inst[g].exitOccurred
    OBVIOUS
  <1>2. /\ g \in held /\ g \in Handles
        /\ \/ call.op = "deinit" /\ pc' = "teardown" /\ status' = "ok" /\ call' = call
           \/ call.op = "stop" /\ pc' = "idle" /\ call' = NoCall
                /\ status' \in {"ok", "cyc_thread_stop"}
    BY <1>1, AfterWait
  <1>3. \A h : Running(h)' = Running(h)
    BY <1>1 DEF Running
  <1>4. Running(g) = {}
    BY <1>1, <1>2 DEF ThreadInv
  <1>5. /\ \A h \in Handles : h # g => inst'[h] = inst[h]
        /\ inst'[g] = [inst[g] EXCEPT !.enabled = FALSE, !.exitEnabled = FALSE]
    BY <1>2 DEF TypeOK
  <1>6. /\ inst[g] \in Instances /\ inst'[g] \in Instances
        /\ ~inst'[g].enabled
        /\ inst'[g].sdkThread = inst[g].sdkThread
        /\ inst'[g].exitOccurred = inst[g].exitOccurred
    <2>1. inst[g] \in Instances
      BY <1>2 DEF TypeOK, Instances
    <2> QED
      BY <1>5, <2>1, SeenFields
  <1>7. inst' \in [Handles -> Instances] /\ call' \in Calls
    <2>1. inst' \in [Handles -> Instances]
      BY <1>5, <1>6 DEF TypeOK, Instances
    <2>2. call \in Calls
      BY DEF TypeOK, Calls
    <2> QED
      BY <1>2, <2>1, <2>2, NoCallType
  <1>8. TypeOK'
    BY <1>1, <1>2, <1>7 DEF TypeOK, Instances, Calls
  <1>9. CallInv'
    BY <1>1, <1>2, <1>5, <1>6 DEF CallInv, Initialising, ShuttingDown, NoCall
  <1>10. ThreadInv'
    <2>1. \A h \in Handles : ~inst'[h].enabled \/ inst'[h].exitOccurred => Running(h)' = {}
      BY <1>3, <1>4, <1>5 DEF ThreadInv
    <2>2. \A h \in Handles : inst'[h].exitOccurred => inst'[h].exitEnabled \/ ~inst'[h].enabled
      BY <1>1, <1>3, <1>4, <1>5, <1>6 DEF ThreadInv, TypeOK
    <2> QED
      BY <1>1, <1>3, <2>1, <2>2 DEF ThreadInv
  <1>11. FreshInv'
    BY <1>1, <1>2, <1>3, <1>5 DEF FreshInv, Initialising
  <1>12. UpdateInv'
    BY <1>1, <1>2, <1>3, <1>4, <1>5, <1>6 DEF UpdateInv
  <1>13. AdapterInv'
    BY <1>1, <1>2 DEF AdapterInv, NicExclusive, ShuttingDown
  <1> QED
    BY <1>8, <1>9, <1>10, <1>11, <1>12, <1>13

(* A prompt thread lets the wait run out only when it was never there. *)
LEMMA TimeoutStep ==
  ASSUME LifeInv, CarefulUse, ExitTimeout PROVE LifeInv'
  <1> USE DEF LifeInv, ExitTimeout
  <1>1. /\ UNCHANGED <<sdk, inst, nic, stack, at, on, held, stuck>>
        /\ pc = "wait" /\ Running(call.h) = {}
    BY DEF CarefulUse
  <1>2. /\ call.h \in held /\ call.h \in Handles /\ inst[call.h].exitEnabled
        /\ \/ call.op = "deinit" /\ pc' = "teardown" /\ status' = "timeout" /\ call' = call
           \/ call.op = "stop" /\ pc' = "idle" /\ call' = NoCall
                /\ status' = "cyc_thread_stop"
    BY <1>1, AfterWait
  <1>3. \A h : Running(h)' = Running(h)
    BY <1>1 DEF Running
  <1>4. call' \in Calls
    <2>1. call \in Calls
      BY DEF TypeOK, Calls
    <2> QED
      BY <1>2, <2>1, NoCallType
  <1>5. TypeOK'
    BY <1>1, <1>2, <1>4 DEF TypeOK, Calls
  <1>6. CallInv'
    BY <1>1, <1>2 DEF CallInv, Initialising, ShuttingDown, NoCall
  <1>7. ThreadInv'
    BY <1>1, <1>3 DEF ThreadInv
  <1>8. FreshInv' /\ UpdateInv'
    BY <1>1, <1>2, <1>3 DEF FreshInv, UpdateInv, Initialising
  <1>9. AdapterInv'
    BY <1>1, <1>2 DEF AdapterInv, NicExclusive, ShuttingDown
  <1> QED
    BY <1>5, <1>6, <1>7, <1>8, <1>9

(* The stack goes down under a thread that, if there is one, has been told *)
(* to exit and is out of its update.                                       *)
LEMMA TeardownStep ==
  ASSUME LifeInv, Teardown PROVE LifeInv'
  <1> USE DEF LifeInv, Teardown, Return
  <1> DEFINE g == call.h
  <1>1. /\ UNCHANGED <<sdk, inst, nic, at, on>>
        /\ pc = "teardown" /\ pc' = "idle" /\ call' = NoCall /\ held' = held \ {g}
        /\ stack' = [stack EXCEPT ![g] = NoNic] /\ stuck' = stuck \ {g}
        /\ status' \in {status, "stack_error"}
    OBVIOUS
  <1>2. \A h : Running(h)' = Running(h)
    BY <1>1 DEF Running
  <1>3. g \in Handles /\ (Running(g) # {} => inst[g].exitEnabled)
    BY <1>1 DEF CallInv, UpdateInv, ThreadInv
  <1>4. stack'[g] = NoNic /\ \A h \in Handles : h # g => stack'[h] = stack[h]
    BY <1>1, <1>3 DEF TypeOK
  <1>5. TypeOK'
    BY <1>1, NoCallType DEF TypeOK, Calls
  <1>6. CallInv'
    BY <1>1 DEF CallInv, Initialising, ShuttingDown, NoCall
  <1>7. ThreadInv'
    BY <1>1, <1>2 DEF ThreadInv
  <1>8. FreshInv'
    BY <1>1, <1>2, <1>4 DEF FreshInv, TypeOK, Initialising
  <1>9. UpdateInv'
    BY <1>1, <1>2, <1>3, <1>4 DEF UpdateInv, TypeOK
  <1>10. AdapterInv'
    BY <1>1, <1>4 DEF AdapterInv, NicExclusive, ShuttingDown
  <1> QED
    BY <1>5, <1>6, <1>7, <1>8, <1>9, <1>10

(* A stack that does not go down is on the record. *)
LEMMA FailedTeardownStep ==
  ASSUME LifeInv, TeardownFails PROVE LifeInv'
  <1> USE DEF LifeInv, TeardownFails, Return
  <1> DEFINE g == call.h
  <1>1. /\ UNCHANGED <<sdk, inst, nic, stack, at, on>>
        /\ pc = "teardown" /\ pc' = "idle" /\ call' = NoCall /\ held' \in {held, held \ {g}}
        /\ stuck' = stuck \cup {g} /\ status' = "stack_error"
    OBVIOUS
  <1>2. \A h : Running(h)' = Running(h)
    BY <1>1 DEF Running
  <1>3. g \in Handles /\ g \in held /\ stack[g] # NoNic
    BY <1>1 DEF CallInv, UpdateInv, ShuttingDown
  <1>4. TypeOK'
    BY <1>1, <1>3, NoCallType DEF TypeOK, Calls
  <1>5. CallInv'
    BY <1>1 DEF CallInv, Initialising, ShuttingDown, NoCall
  <1>6. ThreadInv'
    BY <1>1, <1>2 DEF ThreadInv
  <1>7. FreshInv'
    BY <1>1, <1>2, <1>3 DEF FreshInv, Initialising
  <1>8. UpdateInv'
    BY <1>1, <1>2, <1>3 DEF UpdateInv, TypeOK
  <1>9. AdapterInv'
    BY <1>1 DEF AdapterInv, NicExclusive, ShuttingDown
  <1> QED
    BY <1>4, <1>5, <1>6, <1>7, <1>8, <1>9

(* One step of anyone keeps the invariant. *)
LEMMA LifeStep ==
  ASSUME LifeInv, CarefulUse, [Next]_vars PROVE LifeInv'
  <1>1. CASE UNCHANGED vars
    BY <1>1 DEF vars, appVars, LifeInv, TypeOK, CallInv, ThreadInv, FreshInv, UpdateInv,
       AdapterInv, NicExclusive, Running
  <1>2. CASE SdkInit
    BY <1>2, SdkUp
  <1>3. CASE SdkDeinit
    BY <1>3, SdkDown
  <1>4. CASE InitCall
    BY <1>4, AllocateStep, GiveUp, AdapterStep, StackStep, HandOutStep, CreateStep,
       AffinityStep DEF InitCall
  <1>5. CASE \E h \in Handles : Stop(h) \/ Deinit(h)
    BY <1>5, StopStep, DeinitStep
  <1>6. CASE ShutdownCall
    BY <1>6, RequestStep, JoinStep, SeenStep, TimeoutStep, TeardownStep, FailedTeardownStep
       DEF ShutdownCall
  <1>7. CASE \E t \in Threads, h \in Handles : StartTask(t, h)
    BY <1>7, StartStep
  <1>8. CASE \E t \in Threads : CyclicThread(t)
    BY <1>8, ThreadSteps, LeaveStep DEF CyclicThread
  <1> QED
    BY <1>1, <1>2, <1>3, <1>4, <1>5, <1>6, <1>7, <1>8 DEF Next

(* The invariant of the masters' lives, for any number of everything. *)
THEOREM LifeInvariant == ASSUME CarefulUse PROVE Spec => []LifeInv
  <1>1. LifeInv /\ [Next]_vars => LifeInv'
    BY LifeStep
  <1> QED
    BY <1>1, InitLife, PTL DEF Spec

(* A cyclic update never meets a stack that was taken down under it. *)
THEOREM StackIsAlive == ASSUME CarefulUse PROVE Spec => []StackInv
  <1>1. LifeInv => StackInv
    <2> SUFFICES ASSUME LifeInv, NEW t \in Threads, at[t] = "update"
                 PROVE  stack[on[t]] # NoNic
      BY DEF LifeInv, StackInv, UpdateOnLiveStack
    <2>1. on[t] \in Handles /\ t \in Running(on[t])
      BY DEF LifeInv, ThreadInv, Running
    <2> QED
      BY <2>1 DEF LifeInv, UpdateInv
  <1> QED
    BY <1>1, LifeInvariant, PTL

(* ddi_em.cpp:491: no two masters drive the same network adapter, other    *)
(* than by a stack that outlived the deinit of its instance.               *)
THEOREM AdaptersAreExclusive == ASSUME CarefulUse PROVE Spec => []NicExclusive
  <1>1. LifeInv => NicExclusive
    BY DEF LifeInv, AdapterInv
  <1> QED
    BY <1>1, LifeInvariant, PTL

(* An instance is free only when no thread is left in its cyclic loop. *)
THEOREM FreeInstancesAreQuiet == ASSUME CarefulUse PROVE Spec => []FreeIsQuiet
  <1>1. LifeInv => FreeIsQuiet
    BY DEF LifeInv, ThreadInv, FreeIsQuiet
  <1> QED
    BY <1>1, LifeInvariant, PTL
=============================================================================
