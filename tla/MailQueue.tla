------------------------------ MODULE MailQueue ------------------------------
(***************************************************************************)
(* The message queue of the OS layer (ddi_queue_create, ddi_queue_send,    *)
(* ddi_queue_receive in ddi_os_posix.c): the ring of DdiQueue with the     *)
(* event of DdiEvent.  A send enqueues, then signals the event; a receive  *)
(* waits for the event, then dequeues one message.                         *)
(***************************************************************************)
EXTENDS Integers, Sequences

CONSTANTS Depth, Msgs, NoMsg, Senders, Receivers, Nobody

ASSUME MailAssumption ==
  /\ Depth \in 1 .. 255 /\ NoMsg \notin Msgs
  /\ Senders \cap Receivers = {} /\ Nobody \notin Senders \cup Receivers

VARIABLES
  q, slots, pc, idx, expected, msg, accepted, taken,  \* the ring
  owner, val, epc, arg, got,                          \* the event
  mpc,     \* where each thread is in ddi_queue_send or ddi_queue_receive
  status   \* what its last call returned

ringVars == <<q, slots, pc, idx, expected, msg, accepted, taken>>
eventVars == <<owner, val, epc, arg, got>>
vars == <<ringVars, eventVars, mpc, status>>

Threads == Senders \cup Receivers
Arrived == 1   \* the one event bit a send signals

R == INSTANCE DdiQueue WITH Producers <- Senders, Consumers <- Receivers
E == INSTANCE DdiEvent WITH Bits <- {Arrived}, LowBits <- {Arrived}

Goto(t, to) == mpc' = [mpc EXCEPT ![t] = to]

Return(t, st) ==
  /\ Goto(t, "idle")
  /\ status' = [status EXCEPT ![t] = st]

Init ==
  /\ R!Init
  /\ E!Init
  /\ mpc = [t \in Threads |-> "idle"]
  /\ status = [t \in Threads |-> "none"]

----------------------------------------------------------------------------
(* ddi_queue_send *)

Send(s, m) ==
  /\ mpc[s] = "idle"
  /\ R!CallEnqueue(s, m)
  /\ Goto(s, "enqueue")
  /\ UNCHANGED <<eventVars, status>>

SendFull(s) ==
  /\ mpc[s] = "enqueue"
  /\ idx[s] < 0
  /\ R!Resume(s)
  /\ Return(s, "queue_full")
  /\ UNCHANGED eventVars

(* Mutant: the event is signalled for a full queue too. *)
SendSignalAlways(s) ==
  /\ mpc[s] = "enqueue"
  /\ R!Resume(s)
  /\ E!CallSignal(s, {Arrived})
  /\ Goto(s, "signal")
  /\ UNCHANGED status

SendSignal(s) ==
  /\ mpc[s] = "enqueue"
  /\ idx[s] >= 0
  /\ R!Resume(s)
  /\ E!CallSignal(s, {Arrived})
  /\ Goto(s, "signal")
  /\ UNCHANGED status

SendOk(s) ==
  /\ mpc[s] = "signal"
  /\ E!Resume(s)
  /\ Return(s, "ok")
  /\ UNCHANGED ringVars

----------------------------------------------------------------------------
(* ddi_queue_receive *)

Receive(r) ==
  /\ mpc[r] = "idle"
  /\ E!CallWait(r)
  /\ Goto(r, "wait")
  /\ UNCHANGED <<ringVars, status>>

ReceiveTimeout(r) ==
  /\ mpc[r] = "wait"
  /\ got[r] = {}
  /\ E!Resume(r)
  /\ Return(r, "timeout")
  /\ UNCHANGED ringVars

(* Mutant: the test of the status is inverted, nothing is dequeued. *)
ReceiveInverted(r) ==
  /\ mpc[r] = "wait"
  /\ got[r] # {}
  /\ E!Resume(r)
  /\ Return(r, "ok")
  /\ UNCHANGED ringVars

ReceiveMessage(r) ==
  /\ mpc[r] = "wait"
  /\ got[r] # {}
  /\ E!Resume(r)
  /\ R!CallDequeue(r, TRUE)
  /\ Goto(r, "dequeue")
  /\ UNCHANGED status

(* The result of ddi_message_dequeue is ignored. *)
ReceiveOk(r) ==
  /\ mpc[r] = "dequeue"
  /\ R!Resume(r)
  /\ Return(r, "ok")
  /\ UNCHANGED eventVars

----------------------------------------------------------------------------
(* Steps inside the ring and inside the event *)
RingStep(t) ==
  /\ (t \in Senders /\ R!EnqueueStep(t)) \/ (t \in Receivers /\ R!DequeueStep(t))
  /\ UNCHANGED <<eventVars, mpc, status>>

EventStep(t) ==
  /\ E!Step(t)
  /\ UNCHANGED <<ringVars, mpc, status>>

Disturbance(t) ==
  /\ E!Disturbance(t)
  /\ UNCHANGED <<ringVars, mpc, status>>

SenderStep(s) == SendFull(s) \/ SendSignal(s) \/ SendOk(s)
ReceiverStep(r) == ReceiveTimeout(r) \/ ReceiveMessage(r) \/ ReceiveOk(r)

Next ==
  \/ \E s \in Senders, m \in Msgs : Send(s, m)
  \/ \E s \in Senders : SenderStep(s)
  \/ \E r \in Receivers : Receive(r)
  \/ \E r \in Receivers : ReceiverStep(r)
  \/ \E t \in Threads : RingStep(t)
  \/ \E t \in Threads : EventStep(t) \/ Disturbance(t)

(* Threads inside a call keep running and the mutex is handed out fairly.  *)
Fairness ==
  /\ \A s \in Senders : WF_vars(SenderStep(s))
  /\ \A r \in Receivers : WF_vars(ReceiverStep(r))
  /\ \A t \in Threads : WF_vars(RingStep(t)) /\ SF_vars(EventStep(t))

(* A receiver that calls again as soon as its call returned.               *)
KeepsReceiving == \A r \in Receivers : WF_vars(Receive(r))

Spec == Init /\ [][Next]_vars
FairSpec == Spec /\ Fairness /\ KeepsReceiving

----------------------------------------------------------------------------
(* Type invariant of the calls; ring and event have their own.             *)
TypeOK ==
  /\ R!TypeOK
  /\ E!TypeOK
  /\ mpc \in [Threads -> {"idle", "enqueue", "signal", "wait", "dequeue"}]
  /\ status \in [Threads -> {"none", "ok", "queue_full", "timeout"}]

(* A receive that is about to report ok has a message: every event a       *)
(* receiver takes was preceded by an enqueue nobody has dequeued, so the   *)
(* result of ddi_message_dequeue may be ignored (ddi_os_posix.c:462).      *)
OkMeansMessage ==
  \A r \in Receivers :
    mpc[r] = "dequeue" /\ pc[r] = "returned" => idx[r] >= 0 /\ msg[r] # NoMsg

(* The types, and receives that have what they report.                     *)
MailInv == TypeOK /\ OkMeansMessage

(* A send that is about to signal is followed by a receive that dequeues a *)
(* message (though not always its own: two signals may make one event),    *)
(* unless a wait that timed out has left the event's mutex locked.         *)
SendReachesReceiver ==
  \A s \in Senders :
    mpc[s] = "signal" /\ epc[s] = "signal"
      ~> (\E r \in Receivers : mpc[r] = "dequeue") \/ owner # Nobody

(* ddi_os.h:188: ddi_queue_send reports ok or an error: it returns, whether *)
(* the ring is full or another thread moves it, on the same condition.     *)
SendReturns ==
  \A s \in Senders : mpc[s] # "idle" ~> mpc[s] = "idle" \/ owner # Nobody
=============================================================================
