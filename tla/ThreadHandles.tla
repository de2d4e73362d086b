----------------------------- MODULE ThreadHandles -----------------------------
(***************************************************************************)
(* The life of the ddi_thread_t behind a thread handle (ddi_os_posix.c):   *)
(* allocated by ddi_thread_create, freed by ddi_thread_join, by            *)
(* ddi_thread_exit, or by thread_entry when the thread was detached.  The  *)
(* owner of a handle and its thread interleave; ddi_em.cpp creates the     *)
(* cyclic thread, detaches it, and joins it when it shuts down.            *)
(*                                                                         *)
(* Pthreads are external: create may fail, join waits for the thread.      *)
(* What an access to freed memory finds is arbitrary.                      *)
(*                                                                         *)
(* Its names are its own, so that the proofs about the OS layer can extend *)
(* this module and MailQueue alike.                                        *)
(***************************************************************************)
EXTENDS Naturals

CONSTANTS Handles   \* the handles of one owner, each with its thread

VARIABLES
  mem,      \* the struct: "none", "live" or "freed"
  flag,     \* thread->detached
  thread,   \* where the thread is: "none", "entry", "returned", "read", "ended"
  joinable, \* the pthread has not been detached
  caller,   \* where the owner is in a call on the handle
  result,   \* what its last call on the handle returned
  frees,    \* history: how often the struct was freed
  stray,    \* history: accesses to it after that
  detached, \* history: the owner has called ddi_thread_detach
  exited    \* history: the thread has called ddi_thread_exit

handleVars == <<mem, flag, thread, joinable, caller, result, frees, stray, detached, exited>>

HandlesInit ==
  /\ mem = [t \in Handles |-> "none"]
  /\ flag = [t \in Handles |-> FALSE]
  /\ thread = [t \in Handles |-> "none"]
  /\ joinable = [t \in Handles |-> FALSE]
  /\ caller = [t \in Handles |-> "idle"]
  /\ result = [t \in Handles |-> "none"]
  /\ frees = [t \in Handles |-> 0]
  /\ stray = [t \in Handles |-> {}]
  /\ detached = [t \in Handles |-> FALSE]
  /\ exited = [t \in Handles |-> FALSE]

(* A step of caller c that looks into the struct of t *)
Touch(t, c) ==
  stray' = IF mem[t] = "live" THEN stray ELSE [stray EXCEPT ![t] = @ \cup {c}]

Free(t) ==
  /\ mem' = [mem EXCEPT ![t] = "freed"]
  /\ frees' = [frees EXCEPT ![t] = IF @ < 2 THEN @ + 1 ELSE 2]

ReturnTo(t, to, st) ==
  /\ caller' = [caller EXCEPT ![t] = to]
  /\ result' = [result EXCEPT ![t] = st]

----------------------------------------------------------------------------
(* ddi_thread_create and ddi_thread_create_with_scheduler *)

Create(t) ==
  /\ caller[t] = "idle" /\ mem[t] = "none"
  /\ mem' = [mem EXCEPT ![t] = "live"]
  /\ thread' = [thread EXCEPT ![t] = "entry"]
  /\ joinable' = [joinable EXCEPT ![t] = TRUE]
  /\ ReturnTo(t, "idle", "ok")
  /\ UNCHANGED <<flag, frees, stray, detached, exited>>

CreateFails(t) ==
  /\ caller[t] = "idle" /\ mem[t] = "none"
  /\ ReturnTo(t, "idle", "no_resources")
  /\ UNCHANGED <<mem, flag, thread, joinable, frees, stray, detached, exited>>

----------------------------------------------------------------------------
(* thread_entry.  When the entry function returns is the application's     *)
(* business.                                                               *)

EntryReturns(t) ==
  /\ thread[t] = "entry"
  /\ thread' = [thread EXCEPT ![t] = "returned"]
  /\ UNCHANGED <<mem, flag, joinable, caller, result, frees, stray, detached, exited>>

(* Mutant: the struct is freed whether or not the thread was detached. *)
SeeAlways(t) ==
  /\ thread[t] = "returned"
  /\ Touch(t, "entry")
  /\ thread' = [thread EXCEPT ![t] = "read"]
  /\ UNCHANGED <<mem, flag, joinable, caller, result, frees, detached, exited>>

(* thread->entry and thread->detached are read *)
SeeDetached(t) ==
  /\ thread[t] = "returned"
  /\ flag[t] \/ mem[t] = "freed"
  /\ Touch(t, "entry")
  /\ thread' = [thread EXCEPT ![t] = "read"]
  /\ UNCHANGED <<mem, flag, joinable, caller, result, frees, detached, exited>>

SeeJoinable(t) ==
  /\ thread[t] = "returned"
  /\ ~flag[t] \/ mem[t] = "freed"
  /\ Touch(t, "entry")
  /\ thread' = [thread EXCEPT ![t] = "ended"]
  /\ UNCHANGED <<mem, flag, joinable, caller, result, frees, detached, exited>>

FreeDetached(t) ==
  /\ thread[t] = "read"
  /\ Touch(t, "entry")
  /\ Free(t)
  /\ thread' = [thread EXCEPT ![t] = "ended"]
  /\ UNCHANGED <<flag, joinable, caller, result, detached, exited>>

(* ddi_thread_exit, from the thread itself: the pthread_kill with signal 0 *)
(* does nothing, and the entry goes on.                                    *)
Exit(t) ==
  /\ thread[t] = "entry"
  /\ Touch(t, "exit")
  /\ Free(t)
  /\ exited' = [exited EXCEPT ![t] = TRUE]
  /\ UNCHANGED <<flag, thread, joinable, caller, result, detached>>

----------------------------------------------------------------------------
(* The owner *)

(* Mutant: the thread is detached without a word to thread_entry. *)
DetachSilently(t) ==
  /\ caller[t] = "idle" /\ mem[t] # "none"
  /\ Touch(t, "detach")
  /\ detached' = [detached EXCEPT ![t] = TRUE]
  /\ caller' = [caller EXCEPT ![t] = "detach"]
  /\ UNCHANGED <<mem, flag, thread, joinable, result, frees, exited>>

Detach(t) ==
  /\ caller[t] = "idle" /\ mem[t] # "none"
  /\ Touch(t, "detach")
  /\ flag' = [flag EXCEPT ![t] = TRUE]
  /\ detached' = [detached EXCEPT ![t] = TRUE]
  /\ caller' = [caller EXCEPT ![t] = "detach"]
  /\ UNCHANGED <<mem, thread, joinable, result, frees, exited>>

(* pthread_detach(thread->tid): the thread may have freed the struct by now *)
DetachPthread(t) ==
  /\ caller[t] = "detach"
  /\ Touch(t, "detach")
  /\ joinable' = [joinable EXCEPT ![t] = FALSE]
  /\ ReturnTo(t, "idle", "ok")
  /\ UNCHANGED <<mem, flag, thread, frees, detached, exited>>

JoinRefused(t) ==
  /\ caller[t] = "idle" /\ mem[t] # "none"
  /\ flag[t] \/ mem[t] = "freed"
  /\ Touch(t, "join")
  /\ ReturnTo(t, "idle", "param_err")
  /\ UNCHANGED <<mem, flag, thread, joinable, frees, detached, exited>>

Join(t) ==
  /\ caller[t] = "idle" /\ mem[t] # "none"
  /\ ~flag[t] \/ mem[t] = "freed"
  /\ Touch(t, "join")
  /\ flag' = [flag EXCEPT ![t] = FALSE]
  /\ caller' = [caller EXCEPT ![t] = "join"]
  /\ UNCHANGED <<mem, thread, joinable, result, frees, detached, exited>>

(* Mutant: the wait is left out. *)
JoinedAtOnce(t) ==
  /\ caller[t] = "join"
  /\ joinable[t]
  /\ Touch(t, "join")
  /\ joinable' = [joinable EXCEPT ![t] = FALSE]
  /\ Free(t)
  /\ ReturnTo(t, "gone", "ok")
  /\ UNCHANGED <<flag, thread, detached, exited>>

(* pthread_join waits for the end of the thread, or fails.  Either way the *)
(* struct is freed, and the owner has no handle any more.                  *)
Joined(t) ==
  /\ caller[t] = "join"
  /\ joinable[t] /\ thread[t] = "ended"
  /\ Touch(t, "join")
  /\ joinable' = [joinable EXCEPT ![t] = FALSE]
  /\ Free(t)
  /\ ReturnTo(t, "gone", "ok")
  /\ UNCHANGED <<flag, thread, detached, exited>>

JoinFails(t) ==
  /\ caller[t] = "join"
  /\ ~joinable[t]
  /\ Touch(t, "join")
  /\ Free(t)
  /\ ReturnTo(t, "gone", "err")
  /\ UNCHANGED <<flag, thread, joinable, detached, exited>>

----------------------------------------------------------------------------
OwnerCall(t) ==
  \/ Create(t) \/ CreateFails(t)
  \/ Detach(t)
  \/ Join(t) \/ JoinRefused(t)

OwnerStep(t) == DetachPthread(t) \/ Joined(t) \/ JoinFails(t)

ThreadStep(t) == SeeDetached(t) \/ SeeJoinable(t) \/ FreeDetached(t)

HandlesNext ==
  \E t \in Handles : OwnerCall(t) \/ OwnerStep(t) \/ EntryReturns(t) \/ Exit(t) \/ ThreadStep(t)

HandlesSpec == HandlesInit /\ [][HandlesNext]_handleVars

(* Calls and threads go on; no entry need return and no call be made. *)
FairHandlesSpec ==
  /\ HandlesSpec
  /\ \A t \in Handles : WF_handleVars(OwnerStep(t)) /\ WF_handleVars(ThreadStep(t))

----------------------------------------------------------------------------
HandlesTypeOK ==
  /\ mem \in [Handles -> {"none", "live", "freed"}]
  /\ flag \in [Handles -> BOOLEAN] /\ joinable \in [Handles -> BOOLEAN]
  /\ thread \in [Handles -> {"none", "entry", "returned", "read", "ended"}]
  /\ caller \in [Handles -> {"idle", "detach", "join", "gone"}]
  /\ result \in [Handles -> {"none", "ok", "err", "param_err", "no_resources"}]
  /\ frees \in [Handles -> 0 .. 2]
  /\ stray \in [Handles -> SUBSET {"entry", "exit", "detach", "join"}]
  /\ detached \in [Handles -> BOOLEAN] /\ exited \in [Handles -> BOOLEAN]
  /\ \A t \in Handles : mem[t] = "none" <=> thread[t] = "none"

(* Unless ddi_thread_exit freed it, thread_entry finds its struct in place *)
(* when the entry function returns, whatever the owner has called          *)
(* meanwhile; and so does an owner that never detaches.                    *)
EntryUndisturbed ==
  \A t \in Handles : ~exited[t] =>
    /\ "entry" \notin stray[t]
    /\ ~detached[t] => stray[t] = {}

(* A struct is freed once, and not before the thread is done with it,      *)
(* unless by ddi_thread_exit or after a join that looked at a handle       *)
(* thread_entry had freed.                                                 *)
FreedOnce ==
  \A t \in Handles : ~exited[t] /\ "join" \notin stray[t] =>
    /\ frees[t] <= 1
    /\ frees[t] = 1 => thread[t] = "ended"

(* The struct of a thread whose entry has returned is freed when the owner *)
(* joins it, or has detached it before.                                    *)
FreedInTheEnd ==
  \A t \in Handles :
    (thread[t] # "none" /\ thread[t] # "entry" /\ caller[t] = "join")
      \/ (thread[t] = "returned" /\ detached[t] /\ caller[t] # "join") ~> mem[t] = "freed"
=============================================================================
