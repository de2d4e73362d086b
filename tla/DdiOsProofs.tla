----------------------------- MODULE DdiOsProofs -------------------------------
(***************************************************************************)
(* The OS layer (ddi_os_posix.c): its message queue, and the structs       *)
(* behind its thread handles.                                              *)
(*                                                                         *)
(* The message queue does what it reports, for every depth and every set   *)
(* of messages, between one sender and one receiver.  Its two parts run    *)
(* undisturbed in it, so what is proved of the ring and of the event holds *)
(* here; what links them is a count: there are at least as many messages   *)
(* as events on their way to a dequeue.                                    *)
(*                                                                         *)
(* What becomes of the struct behind a thread handle is shown for any      *)
(* number of handles and every order of calls.  An owner and a thread      *)
(* share only their own handle, so the invariant is one of each handle by  *)
(* itself: thread->detached tells thread_entry and ddi_thread_join which   *)
(* of them frees the struct.                                               *)
(***************************************************************************)
EXTENDS MailQueue, ThreadHandles, TLAPS

RP == INSTANCE DdiQueueProofs WITH Producers <- Senders, Consumers <- Receivers
EP == INSTANCE DdiEventProofs WITH Bits <- {Arrived}, LowBits <- {Arrived}

(* ddi_queue.h:50: one producer and one consumer thread                    *)
DocumentedUse ==
  /\ \A s1, s2 \in Senders : s1 = s2
  /\ \A r1, r2 \in Receivers : r1 = r2

LEMMA RingAssumptions ==
  RP!DepthAssumption /\ RP!MsgAssumption /\ RP!ThreadAssumption
  BY MailAssumption DEF RP!DepthAssumption, RP!MsgAssumption, RP!ThreadAssumption

LEMMA EventAssumptions == EP!NobodyAssumption /\ EP!BitsAssumption
  BY MailAssumption DEF EP!NobodyAssumption, EP!BitsAssumption, Threads

----------------------------------------------------------------------------
(* The parts *)

(* Every step is one of the ring or leaves it alone. *)
LEMMA RingSteps == [Next]_vars => [RP!Next]_RP!vars
  <1> SUFFICES ASSUME [Next]_vars PROVE [RP!Next]_RP!vars
    OBVIOUS
  <1>1. ASSUME UNCHANGED ringVars PROVE UNCHANGED RP!vars
    BY <1>1 DEF ringVars, RP!vars
  <1>2. ASSUME NEW s \in Senders, NEW m \in Msgs, Send(s, m) PROVE RP!Next
    BY <1>2 DEF Send, R!CallEnqueue, RP!CallEnqueue, R!Goto, RP!Goto, RP!Next
  <1>3. ASSUME NEW t \in Threads, R!Resume(t) PROVE RP!Next
    BY <1>3 DEF R!Resume, RP!Resume, R!Goto, RP!Goto, RP!Next, RP!Threads, Threads
  <1>4. ASSUME NEW s \in Senders, SendFull(s) \/ SendSignal(s) PROVE RP!Next
    BY <1>3, <1>4 DEF SendFull, SendSignal, Threads
  <1>5. ASSUME NEW r \in Receivers, ReceiveOk(r) PROVE RP!Next
    BY <1>3, <1>5 DEF ReceiveOk, Threads
  <1>6. ASSUME NEW r \in Receivers, ReceiveMessage(r) PROVE RP!Next
    BY <1>6 DEF ReceiveMessage, R!CallDequeue, RP!CallDequeue, R!Goto, RP!Goto, RP!Next
  <1>7. ASSUME NEW s \in Senders, R!EnqueueStep(s) PROVE RP!Next
    <2>1. RP!EnqueueStep(s)
      BY <1>7 DEF R!EnqueueStep, R!InFull, R!InIndex, R!WriteSlot, R!EnqFull, R!EnqLoad,
                  R!EnqExchange, R!EnqRetry, R!Full, R!Enqueued, R!Return, R!Goto,
                  RP!EnqueueStep, RP!InFull, RP!InIndex, RP!WriteSlot, RP!EnqFull, RP!EnqLoad,
                  RP!EnqExchange, RP!EnqRetry, RP!Full, RP!Enqueued, RP!Return, RP!Goto
    <2> QED
      BY <2>1 DEF RP!Next
  <1>8. ASSUME NEW r \in Receivers, R!DequeueStep(r) PROVE RP!Next
    <2>1. RP!DequeueStep(r)
      BY <1>8 DEF R!DequeueStep, R!OutEmpty, R!OutIndex, R!ReadSlot, R!DeqEmpty, R!DeqLoad,
                  R!DeqExchange, R!DeqRetry, R!Empty, R!Dequeued, R!Return, R!Goto,
                  RP!DequeueStep, RP!OutEmpty, RP!OutIndex, RP!ReadSlot, RP!DeqEmpty, RP!DeqLoad,
                  RP!DeqExchange, RP!DeqRetry, RP!Empty, RP!Dequeued, RP!Return, RP!Goto
    <2> QED
      BY <2>1 DEF RP!Next
  <1>9. ASSUME NEW t \in Threads, RingStep(t) PROVE RP!Next
    BY <1>7, <1>8, <1>9 DEF RingStep
  <1>10. CASE \/ \E s \in Senders : SendOk(s)
              \/ \E r \in Receivers : Receive(r) \/ ReceiveTimeout(r)
              \/ \E t \in Threads : EventStep(t) \/ Disturbance(t)
              \/ UNCHANGED vars
    BY <1>1, <1>10 DEF SendOk, Receive, ReceiveTimeout, EventStep, Disturbance, vars
  <1> QED
    BY <1>2, <1>4, <1>5, <1>6, <1>9, <1>10 DEF Next, SenderStep, ReceiverStep

(* Every step is one of the event or leaves it alone. *)
LEMMA EventSteps == [Next]_vars => [EP!Next]_EP!vars
  <1> SUFFICES ASSUME [Next]_vars PROVE [EP!Next]_EP!vars
    OBVIOUS
  <1>1. ASSUME UNCHANGED eventVars PROVE UNCHANGED EP!vars
    BY <1>1 DEF eventVars, EP!vars
  <1>2. ASSUME NEW s \in Senders, SendSignal(s) PROVE EP!Next
    <2>1. EP!CallSignal(s, {Arrived})
      BY <1>2 DEF SendSignal, E!CallSignal, EP!CallSignal, E!Goto, EP!Goto
    <2> QED
      BY <2>1 DEF EP!Next, Threads
  <1>3. ASSUME NEW t \in Threads, E!Resume(t) PROVE EP!Next
    BY <1>3 DEF E!Resume, EP!Resume, E!Goto, EP!Goto, EP!Next
  <1>4. CASE \/ \E s \in Senders : SendOk(s)
             \/ \E r \in Receivers : ReceiveTimeout(r) \/ ReceiveMessage(r)
    BY <1>3, <1>4 DEF SendOk, ReceiveTimeout, ReceiveMessage, Threads
  <1>5. ASSUME NEW r \in Receivers, Receive(r) PROVE EP!Next
    BY <1>5 DEF Receive, E!CallWait, EP!CallWait, E!Goto, EP!Goto, EP!Next, Threads
  <1>6. ASSUME NEW t \in Threads, EventStep(t) \/ Disturbance(t) PROVE EP!Next
    BY <1>6 DEF EventStep, Disturbance, EP!Next,
         E!Step, E!Signal, E!Take, E!Block, E!Disturbance, E!WakeSpuriously, E!Expire, E!Goto,
         EP!Step, EP!Signal, EP!Take, EP!Block, EP!Disturbance, EP!WakeSpuriously, EP!Expire,
         EP!Goto
  <1>7. CASE \/ \E s \in Senders, m \in Msgs : Send(s, m)
             \/ \E s \in Senders : SendFull(s)
             \/ \E r \in Receivers : ReceiveOk(r)
             \/ \E t \in Threads : RingStep(t)
             \/ UNCHANGED vars
    BY <1>1, <1>7 DEF Send, SendFull, ReceiveOk, RingStep, vars
  <1> QED
    BY <1>2, <1>4, <1>5, <1>6, <1>7 DEF Next, SenderStep, ReceiverStep

(* What is proved of the ring and the event *)
PartsInv == RP!QueueInv /\ RP!OldestIsMessage /\ EP!TypeOK

LEMMA PartsHold == ASSUME DocumentedUse PROVE Spec => []PartsInv
  <1>1. Init => RP!Init /\ EP!Init
    BY DEF Init, R!Init, RP!Init, R!QueueInit, RP!QueueInit, R!Index, RP!Index, R!Threads,
           RP!Threads, E!Init, EP!Init
  <1>2. Spec => RP!Spec /\ EP!Spec
    BY <1>1, RingSteps, EventSteps, PTL DEF Spec, RP!Spec, EP!Spec
  <1>3. RP!DocumentedUse
    BY DEF DocumentedUse, RP!DocumentedUse
  <1>4. RP!Spec => []RP!QueueInv
    BY <1>3, RP!QueueInvariant, RingAssumptions
  <1>5. RP!Spec => []RP!OldestIsMessage
    BY <1>3, RP!OldestWasSent, RingAssumptions
  <1>6. EP!Spec => []EP!TypeOK
    BY EP!EventTypes, EventAssumptions
  <1> QED
    BY <1>2, <1>4, <1>5, <1>6, PTL DEF PartsInv
----------------------------------------------------------------------------
(* The link *)

(* Where a thread is in its call says where it is in the ring and in the   *)
(* event; a receiver that has copied its message has one.                  *)
SenderInv(s) ==
  \/ mpc[s] = "idle" /\ pc[s] = "idle" /\ epc[s] = "idle"
  \/ mpc[s] = "enqueue" /\ pc[s] # "idle" /\ epc[s] = "idle"
  \/ mpc[s] = "signal" /\ pc[s] = "idle" /\ epc[s] \in {"signal", "returned"}

Copied == {"deq_empty", "deq_load", "deq_cas", "returned"}

ReceiverInv(r) ==
  \/ mpc[r] = "idle" /\ pc[r] = "idle" /\ epc[r] = "idle"
  \/ /\ mpc[r] = "wait" /\ pc[r] = "idle"
     /\ epc[r] \in {"wait_lock", "waiting", "signalled", "returned"}
  \/ /\ mpc[r] = "dequeue" /\ pc[r] \in {"out_empty", "out_idx", "read"} \cup Copied
     /\ epc[r] = "idle"
     /\ pc[r] \in Copied => idx[r] >= 0 /\ msg[r] # NoMsg

CallsInv ==
  /\ mpc \in [Threads -> {"idle", "enqueue", "signal", "wait", "dequeue"}]
  /\ status \in [Threads -> {"none", "ok", "queue_full", "timeout"}]
  /\ \A s \in Senders : SenderInv(s)
  /\ \A r \in Receivers : ReceiverInv(r)

(* A message that is published and not signalled yet; an event that was    *)
(* taken for a message not dequeued yet                                    *)
Published(s) ==
  \/ mpc[s] = "enqueue" /\ pc[s] = "returned" /\ idx[s] >= 0
  \/ mpc[s] = "signal" /\ epc[s] = "signal"

Claimed(r) ==
  \/ mpc[r] = "wait" /\ got[r] # {}
  \/ mpc[r] = "dequeue" /\ pc[r] # "returned"

One(p) == IF p THEN 1 ELSE 0

(* Each message has at most one event: on its way to the event's word, in  *)
(* it, or taken by the receiver.                                           *)
CreditInv ==
  q.count >= One(val # {}) + One(\E s \in Senders : Published(s))
               + One(\E r \in Receivers : Claimed(r))

LinkInv == PartsInv /\ CallsInv /\ CreditInv

(* What the ring and the event lend to the link *)
LEMMA PartsFacts ==
  ASSUME PartsInv
  PROVE  /\ q.count \in Nat /\ pc \in [Threads -> RP!ProducerPc \cup RP!ConsumerPc]
         /\ idx \in [Threads -> RP!Byte \cup {-1}] /\ msg \in [Threads -> Msgs \cup {NoMsg}]
         /\ epc \in [Threads -> {"idle", "signal", "wait_lock", "waiting", "signalled",
                                 "returned"}]
         /\ got \in [Threads -> SUBSET {Arrived}]
         /\ \A t \in Threads : epc[t] # "returned" => got[t] = {}
         /\ \A s \in Senders : pc[s] = "enq_cas" => q.count < Depth
         /\ \A r \in Receivers :
              /\ pc[r] \in {"out_idx", "read", "deq_empty", "deq_load", "deq_cas"}
                   => q.count > 0
              /\ pc[r] = "read" => slots[idx[r]] \in Msgs /\ idx[r] = q.idx_out
         /\ q.idx_out >= 0 /\ q.idx_in >= 0
  <1>1. /\ q.count \in 0 .. Depth /\ q.idx_out \in 0 .. Depth - 1 /\ q.idx_in \in 0 .. Depth - 1
        /\ Depth \in Nat
    BY MailAssumption DEF PartsInv, RP!QueueInv, RP!WordConsistent, RP!Index
  <1>2. /\ pc \in [Threads -> RP!ProducerPc \cup RP!ConsumerPc]
        /\ idx \in [Threads -> RP!Byte \cup {-1}] /\ msg \in [Threads -> Msgs \cup {NoMsg}]
    BY DEF PartsInv, RP!QueueInv, RP!TypeOK, RP!Threads, Threads
  <1>3. /\ epc \in [Threads -> {"idle", "signal", "wait_lock", "waiting", "signalled",
                                "returned"}]
        /\ got \in [Threads -> SUBSET {Arrived}]
        /\ \A t \in Threads : epc[t] # "returned" => got[t] = {}
    BY DEF PartsInv, EP!TypeOK
  <1>4. \A s \in Senders : pc[s] = "enq_cas" => q.count < Depth
    BY <1>1 DEF PartsInv, RP!QueueInv, RP!ProducerView, RP!Full
  <1>5. ASSUME NEW r \in Receivers
        PROVE  /\ pc[r] \in {"out_idx", "read", "deq_empty", "deq_load", "deq_cas"}
                    => q.count > 0
               /\ pc[r] = "read" => idx[r] = q.idx_out
    BY <1>1 DEF PartsInv, RP!QueueInv, RP!ConsumerView, RP!Empty
  <1>6. \A r \in Receivers : pc[r] = "read" => slots[idx[r]] \in Msgs
    BY <1>5 DEF PartsInv, RP!OldestIsMessage
  <1> QED
    BY <1>1, <1>2, <1>3, <1>4, <1>5, <1>6

(* The count is what the properties of two threads make of it. *)
LEMMA Ones == \A p \in BOOLEAN : One(p) \in 0 .. 1 /\ (p <=> One(p) = 1)
  BY DEF One

LEMMA InitLink == Init => CallsInv /\ CreditInv
  <1> SUFFICES ASSUME Init PROVE CallsInv /\ CreditInv
    OBVIOUS
  <1>1. /\ mpc = [t \in Threads |-> "idle"] /\ status = [t \in Threads |-> "none"]
        /\ pc = [t \in Threads |-> "idle"] /\ epc = [t \in Threads |-> "idle"]
        /\ val = {} /\ q.count = 0
    BY DEF Init, R!Init, E!Init, R!Threads, Threads, R!QueueInit
  <1>2. CallsInv
    BY <1>1 DEF CallsInv, SenderInv, ReceiverInv, Threads
  <1>3. \A s \in Senders : ~Published(s)
    BY <1>1 DEF Published, Threads
  <1>4. \A r \in Receivers : ~Claimed(r)
    BY <1>1 DEF Claimed, Threads
  <1> QED
    BY <1>1, <1>2, <1>3, <1>4 DEF CreditInv, One

(* A step that moves no event *)
LEMMA CreditStays ==
  ASSUME CreditInv, q'.count = q.count, val' = val,
         \A s \in Senders : Published(s)' => Published(s),
         \A r \in Receivers : Claimed(r)' => Claimed(r),
         q.count \in Nat
  PROVE  CreditInv'
  <1>1. (\E s \in Senders : Published(s)') => \E s \in Senders : Published(s)
    OBVIOUS
  <1>2. (\E r \in Receivers : Claimed(r)') => \E r \in Receivers : Claimed(r)
    OBVIOUS
  <1> QED
    BY <1>1, <1>2 DEF CreditInv, One

(* A sender's calls *)
LEMMA SenderKeepsLink ==
  ASSUME LinkInv, DocumentedUse, NEW s \in Senders,
         (\E m \in Msgs : Send(s, m)) \/ SenderStep(s)
  PROVE  CallsInv' /\ CreditInv'
  <1> USE PartsFacts DEF LinkInv
  <1>1. /\ \A x \in Senders : x = s
        /\ s \in Threads /\ \A r \in Receivers : r \in Threads /\ r # s
    BY MailAssumption DEF DocumentedUse, Threads
  <1>2. SenderInv(s)
    BY DEF CallsInv
  <1>3. /\ q' = q /\ idx' = idx /\ val' = val
        /\ msg' = msg \/ \E m \in Msgs : msg' = [msg EXCEPT ![s] = m]
        /\ got' = got \/ got' = [got EXCEPT ![s] = {}]
    BY DEF Send, SenderStep, SendFull, SendSignal, SendOk, R!CallEnqueue, R!Resume, E!CallSignal,
           E!Resume, ringVars, eventVars
  <1>4. \/ /\ mpc' = [mpc EXCEPT ![s] = "enqueue"] /\ pc' = [pc EXCEPT ![s] = "in_full"]
           /\ epc' = epc /\ status' = status /\ mpc[s] = "idle"
        \/ /\ mpc' = [mpc EXCEPT ![s] = "idle"] /\ pc' = [pc EXCEPT ![s] = "idle"]
           /\ epc' = epc /\ status' = [status EXCEPT ![s] = "queue_full"] /\ mpc[s] = "enqueue"
        \/ /\ mpc' = [mpc EXCEPT ![s] = "signal"] /\ pc' = [pc EXCEPT ![s] = "idle"]
           /\ epc' = [epc EXCEPT ![s] = "signal"] /\ status' = status
           /\ mpc[s] = "enqueue" /\ pc[s] = "returned" /\ idx[s] >= 0
        \/ /\ mpc' = [mpc EXCEPT ![s] = "idle"] /\ pc' = pc
           /\ epc' = [epc EXCEPT ![s] = "idle"] /\ status' = [status EXCEPT ![s] = "ok"]
           /\ mpc[s] = "signal"
    BY DEF Send, SenderStep, SendFull, SendSignal, SendOk, Goto, Return, R!CallEnqueue, R!Resume,
           R!Goto, E!CallSignal, E!Resume, E!Goto, ringVars, eventVars
  <1>5. \A r \in Receivers : /\ mpc'[r] = mpc[r] /\ pc'[r] = pc[r] /\ epc'[r] = epc[r]
                             /\ idx'[r] = idx[r] /\ msg'[r] = msg[r] /\ got'[r] = got[r]
    BY <1>1, <1>3, <1>4 DEF CallsInv
  <1>6. SenderInv(s)' /\ (Published(s)' => Published(s))
    BY <1>1, <1>2, <1>3, <1>4 DEF SenderInv, Published, CallsInv
  <1>7. \A r \in Receivers : ReceiverInv(r)' /\ (Claimed(r)' => Claimed(r))
    BY <1>5 DEF CallsInv, ReceiverInv, Claimed, Copied
  <1>8. CallsInv'
    <2>1. /\ mpc' \in [Threads -> {"idle", "enqueue", "signal", "wait", "dequeue"}]
          /\ status' \in [Threads -> {"none", "ok", "queue_full", "timeout"}]
      BY <1>1, <1>4 DEF CallsInv
    <2> QED
      BY <1>1, <1>6, <1>7, <2>1 DEF CallsInv
  <1>9. CreditInv'
    BY <1>1, <1>3, <1>6, <1>7, CreditStays
  <1> QED
    BY <1>8, <1>9

(* A receiver's calls *)
LEMMA ReceiverKeepsLink ==
  ASSUME LinkInv, DocumentedUse, NEW r \in Receivers, Receive(r) \/ ReceiverStep(r)
  PROVE  CallsInv' /\ CreditInv'
  <1> USE PartsFacts DEF LinkInv
  <1>1. /\ \A x \in Receivers : x = r
        /\ r \in Threads /\ \A s \in Senders : s \in Threads /\ r # s
    BY MailAssumption DEF DocumentedUse, Threads
  <1>2. ReceiverInv(r)
    BY DEF CallsInv
  <1>3. /\ q' = q /\ idx' = idx /\ val' = val
        /\ got' = got \/ got' = [got EXCEPT ![r] = {}]
    BY DEF Receive, ReceiverStep, ReceiveTimeout, ReceiveMessage, ReceiveOk, R!CallDequeue,
           R!Resume, E!CallWait, E!Resume, ringVars, eventVars
  <1>4. \/ /\ mpc' = [mpc EXCEPT ![r] = "wait"] /\ epc' = [epc EXCEPT ![r] = "wait_lock"]
           /\ pc' = pc /\ status' = status /\ mpc[r] = "idle"
        \/ /\ mpc' = [mpc EXCEPT ![r] = "idle"] /\ epc' = [epc EXCEPT ![r] = "idle"]
           /\ pc' = pc /\ status' = [status EXCEPT ![r] = "timeout"] /\ mpc[r] = "wait"
        \/ /\ mpc' = [mpc EXCEPT ![r] = "dequeue"] /\ epc' = [epc EXCEPT ![r] = "idle"]
           /\ pc' = [pc EXCEPT ![r] = "out_empty"] /\ status' = status
           /\ mpc[r] = "wait" /\ got[r] # {}
        \/ /\ mpc' = [mpc EXCEPT ![r] = "idle"] /\ pc' = [pc EXCEPT ![r] = "idle"]
           /\ epc' = epc /\ status' = [status EXCEPT ![r] = "ok"] /\ mpc[r] = "dequeue"
    BY DEF Receive, ReceiverStep, ReceiveTimeout, ReceiveMessage, ReceiveOk, Goto, Return,
           R!CallDequeue, R!Resume, R!Goto, E!CallWait, E!Resume, E!Goto, ringVars, eventVars
  <1>5. \A s \in Senders : /\ mpc'[s] = mpc[s] /\ pc'[s] = pc[s] /\ epc'[s] = epc[s]
                           /\ idx'[s] = idx[s]
    BY <1>1, <1>3, <1>4 DEF CallsInv
  <1>6. ReceiverInv(r)' /\ (Claimed(r)' => Claimed(r))
    BY <1>1, <1>2, <1>3, <1>4 DEF ReceiverInv, Claimed, CallsInv, Copied
  <1>7. \A s \in Senders : SenderInv(s)' /\ (Published(s)' => Published(s))
    BY <1>5 DEF CallsInv, SenderInv, Published
  <1>8. CallsInv'
    <2>1. /\ mpc' \in [Threads -> {"idle", "enqueue", "signal", "wait", "dequeue"}]
          /\ status' \in [Threads -> {"none", "ok", "queue_full", "timeout"}]
      BY <1>1, <1>4 DEF CallsInv
    <2> QED
      BY <1>1, <1>6, <1>7, <2>1 DEF CallsInv
  <1>9. CreditInv'
    BY <1>1, <1>3, <1>6, <1>7, CreditStays
  <1> QED
    BY <1>8, <1>9

(* A message is published with an event to come. *)
LEMMA EnqueueKeepsLink ==
  ASSUME LinkInv, DocumentedUse, NEW s \in Senders, RingStep(s)
  PROVE  CallsInv' /\ CreditInv'
  <1> USE PartsFacts DEF LinkInv
  <1>1. /\ \A x \in Senders : x = s
        /\ s \in Threads /\ \A r \in Receivers : r \in Threads /\ r # s
    BY MailAssumption DEF DocumentedUse, Threads
  <1>2. R!EnqueueStep(s) /\ UNCHANGED <<eventVars, mpc, status>>
    BY <1>1 DEF RingStep
  <1>3. SenderInv(s)
    BY DEF CallsInv
  <1>4. /\ pc[s] # "idle" /\ pc[s] # "returned" /\ msg' = msg
        /\ \E to \in RP!ProducerPc \ {"idle"} : pc' = [pc EXCEPT ![s] = to]
        /\ idx' = idx \/ \E i : idx' = [idx EXCEPT ![s] = i]
    BY <1>2 DEF R!EnqueueStep, R!InFull, R!InIndex, R!WriteSlot, R!EnqFull, R!EnqLoad,
                R!EnqExchange, R!EnqRetry, R!Return, R!Goto, RP!ProducerPc
  <1>5. mpc[s] = "enqueue" /\ epc[s] = "idle" /\ ~Published(s)
    BY <1>3, <1>4 DEF SenderInv, Published
  <1>6. /\ UNCHANGED <<epc, got, val, mpc, status>>
        /\ \A r \in Receivers : pc'[r] = pc[r] /\ idx'[r] = idx[r] /\ msg'[r] = msg[r]
    BY <1>1, <1>2, <1>4 DEF eventVars
  <1>7. SenderInv(s)'
    BY <1>1, <1>4, <1>5, <1>6 DEF SenderInv
  <1>8. \A r \in Receivers : ReceiverInv(r)' /\ (Claimed(r)' <=> Claimed(r))
    BY <1>6 DEF CallsInv, ReceiverInv, Claimed, Copied
  <1>9. CallsInv'
    BY <1>1, <1>6, <1>7, <1>8 DEF CallsInv
  <1>10. CreditInv'
    <2>1. CASE R!EnqExchange(s)
      <3>1. pc[s] = "enq_cas" /\ q' = R!Enqueued(q) /\ q.count < Depth
        BY <2>1 DEF R!EnqExchange
      <3>2. q'.count = q.count + 1
        BY <3>1, MailAssumption DEF R!Enqueued
      <3>3. ~(\E x \in Senders : Published(x))
        BY <1>1, <1>5
      <3>4. (\E x \in Receivers : Claimed(x)') <=> (\E x \in Receivers : Claimed(x))
        BY <1>8
      <3> QED
        BY <1>6, <3>2, <3>3, <3>4 DEF CreditInv, One
    <2>2. CASE ~R!EnqExchange(s)
      <3>1. q' = q /\ (pc'[s] = "returned" => idx'[s] = -1)
        BY <1>1, <1>2, <2>2 DEF R!EnqueueStep, R!InFull, R!InIndex, R!WriteSlot, R!EnqFull,
             R!EnqLoad, R!EnqRetry, R!Return, R!Goto
      <3>2. ~Published(s)'
        BY <1>1, <1>5, <1>6, <3>1 DEF Published
      <3> QED
        BY <1>1, <1>6, <1>8, <3>1, <3>2, CreditStays
    <2> QED
      BY <2>1, <2>2
  <1> QED
    BY <1>9, <1>10

(* A receiver that has an event finds a message, and takes one. *)
LEMMA DequeueKeepsLink ==
  ASSUME LinkInv, DocumentedUse, NEW r \in Receivers, RingStep(r)
  PROVE  CallsInv' /\ CreditInv'
  <1> USE PartsFacts DEF LinkInv
  <1>1. /\ \A x \in Receivers : x = r
        /\ r \in Threads /\ \A s \in Senders : s \in Threads /\ r # s
    BY MailAssumption DEF DocumentedUse, Threads
  <1>2. R!DequeueStep(r) /\ UNCHANGED <<eventVars, mpc, status>>
    BY <1>1 DEF RingStep
  <1>3. ReceiverInv(r)
    BY DEF CallsInv
  <1>4. pc[r] # "idle" /\ pc[r] # "returned"
    BY <1>2 DEF R!DequeueStep, R!OutEmpty, R!OutIndex, R!ReadSlot, R!DeqEmpty, R!DeqLoad,
                R!DeqExchange, R!DeqRetry
  <1>5. /\ mpc[r] = "dequeue" /\ epc[r] = "idle" /\ Claimed(r)
        /\ pc[r] \in {"out_empty", "out_idx", "read"} \cup Copied
        /\ pc[r] \in Copied => idx[r] >= 0 /\ msg[r] # NoMsg
    BY <1>3, <1>4 DEF ReceiverInv, Claimed
  <1>6. q.count > 0
    BY <1>5 DEF CreditInv, One
  <1>7. /\ UNCHANGED <<epc, got, val, mpc, status>>
        /\ q' = IF pc[r] = "deq_cas" /\ q = expected[r] THEN R!Dequeued(q) ELSE q
        /\ \/ /\ pc[r] = "out_empty" /\ pc' = [pc EXCEPT ![r] = "out_idx"]
              /\ UNCHANGED <<idx, msg>>
           \/ /\ pc[r] = "out_idx" /\ pc' = [pc EXCEPT ![r] = "read"]
              /\ idx' = [idx EXCEPT ![r] = q.idx_out] /\ UNCHANGED msg
           \/ /\ pc[r] = "read" /\ pc' = [pc EXCEPT ![r] = "deq_empty"]
              /\ msg' = [msg EXCEPT ![r] = slots[idx[r]]] /\ UNCHANGED idx
           \/ /\ pc[r] \in {"deq_empty", "deq_load", "deq_cas"} /\ UNCHANGED <<idx, msg>>
              /\ \E to \in {"deq_load", "deq_cas"} : pc' = [pc EXCEPT ![r] = to]
           \/ /\ pc[r] = "deq_cas" /\ q = expected[r] /\ UNCHANGED <<idx, msg>>
              /\ pc' = [pc EXCEPT ![r] = "returned"]
    BY <1>2, <1>5, <1>6
    DEF R!DequeueStep, R!OutEmpty, R!OutIndex, R!ReadSlot, R!DeqEmpty, R!DeqLoad,
        R!DeqExchange, R!DeqRetry, R!Return, R!Goto, R!Empty, Copied, eventVars
  <1>8. \A s \in Senders : pc'[s] = pc[s] /\ idx'[s] = idx[s]
    BY <1>1, <1>7
  <1>9. \A s \in Senders : SenderInv(s)' /\ (Published(s)' <=> Published(s))
    BY <1>7, <1>8 DEF CallsInv, SenderInv, Published
  <1>10. ReceiverInv(r)'
    <2>1. pc[r] = "read" => slots[idx[r]] # NoMsg /\ idx[r] >= 0
      BY MailAssumption
    <2>2. /\ pc'[r] \in {"out_idx", "read"} \cup Copied
          /\ pc'[r] \in Copied =>
               /\ idx'[r] = idx[r]
               /\ msg'[r] = msg[r] \/ (pc[r] = "read" /\ msg'[r] = slots[idx[r]])
               /\ pc[r] \in {"read"} \cup Copied
               /\ pc[r] = "read" => msg'[r] = slots[idx[r]]
      BY <1>1, <1>7 DEF Copied
    <2>3. pc'[r] \in Copied => idx'[r] >= 0 /\ msg'[r] # NoMsg
      BY <1>5, <2>1, <2>2 DEF Copied
    <2>4. mpc'[r] = "dequeue" /\ epc'[r] = "idle"
      BY <1>5, <1>7
    <2> QED
      BY <2>2, <2>3, <2>4 DEF ReceiverInv
  <1>11. CallsInv'
    BY <1>1, <1>7, <1>9, <1>10 DEF CallsInv
  <1>12. CreditInv'
    <2>1. (\E s \in Senders : Published(s)') <=> (\E s \in Senders : Published(s))
      BY <1>9
    <2>2. CASE pc[r] = "deq_cas" /\ q = expected[r]
      <3>1. q'.count = q.count - 1
        <4>1. q.count <= 255
          BY MailAssumption DEF PartsInv, RP!QueueInv, RP!WordConsistent
        <4> QED
          BY <1>6, <1>7, <2>2, <4>1 DEF R!Dequeued
      <3>2. pc'[r] = "returned" /\ mpc'[r] = "dequeue"
        <4>1. R!DeqExchange(r)
          BY <1>2, <2>2 DEF R!DequeueStep, R!OutEmpty, R!OutIndex, R!ReadSlot, R!DeqEmpty,
                            R!DeqLoad, R!DeqExchange, R!DeqRetry
        <4> QED
          BY <1>1, <1>5, <1>7, <4>1 DEF R!DeqExchange, R!Return, R!Goto
      <3>3. ~(\E x \in Receivers : Claimed(x)') /\ (\E x \in Receivers : Claimed(x))
        BY <1>1, <1>5, <3>2 DEF Claimed
      <3> QED
        BY <1>7, <2>1, <3>1, <3>3 DEF CreditInv, One
    <2>3. CASE ~(pc[r] = "deq_cas" /\ q = expected[r])
      BY <1>1, <1>5, <1>7, <1>9, <2>3, CreditStays
    <2> QED
      BY <2>2, <2>3
  <1> QED
    BY <1>11, <1>12

(* The event's word passes the event on. *)
LEMMA EventKeepsLink ==
  ASSUME LinkInv, DocumentedUse, NEW t \in Threads, EventStep(t) \/ Disturbance(t)
  PROVE  CallsInv' /\ CreditInv'
  <1> USE PartsFacts DEF LinkInv
  <1>1. /\ \A s1, s2 \in Senders : s1 = s2
        /\ \A r1, r2 \in Receivers : r1 = r2
        /\ \A s \in Senders : s \in Threads /\ s \notin Receivers
        /\ \A r \in Receivers : r \in Threads
    BY MailAssumption DEF DocumentedUse, Threads
  <1>2. UNCHANGED <<q, pc, idx, msg, mpc, status>>
    BY DEF EventStep, Disturbance, ringVars
  <1>3. CASE E!Signal(t)
    <2>1. /\ epc[t] = "signal" /\ got' = got
          /\ \/ epc' = [epc EXCEPT ![t] = "returned"]
             \/ \E u \in Threads : /\ epc[u] = "waiting"
                                   /\ epc' = [epc EXCEPT ![t] = "returned", ![u] = "signalled"]
      BY <1>3 DEF E!Signal, E!Goto
    <2>2. t \in Senders
      BY <2>1 DEF CallsInv, ReceiverInv, Threads
    <2>3. mpc[t] = "signal" /\ pc[t] = "idle" /\ Published(t)
      BY <2>1, <2>2 DEF CallsInv, SenderInv, Published
    <2>4. epc'[t] = "returned"
      BY <2>1
    <2>5. SenderInv(t)' /\ ~Published(t)'
      BY <1>2, <2>3, <2>4 DEF SenderInv, Published
    <2>6. \A r \in Receivers : /\ epc'[r] = epc[r] \/ (epc[r] = "waiting" /\ epc'[r] = "signalled")
                               /\ got'[r] = got[r]
      BY <1>1, <2>1, <2>2
    <2>7. \A r \in Receivers : ReceiverInv(r)' /\ (Claimed(r)' <=> Claimed(r))
      BY <1>2, <2>6 DEF CallsInv, ReceiverInv, Claimed, Copied
    <2>8. CallsInv'
      BY <1>1, <1>2, <2>2, <2>5, <2>7 DEF CallsInv
    <2>9. CreditInv'
      <3>1. ~(\E s \in Senders : Published(s)') /\ (\E s \in Senders : Published(s))
        BY <1>1, <2>2, <2>3, <2>5
      <3>2. (\E r \in Receivers : Claimed(r)') <=> (\E r \in Receivers : Claimed(r))
        BY <2>7
      <3> QED
        BY <1>2, <3>1, <3>2 DEF CreditInv, One
    <2> QED
      BY <2>8, <2>9
  <1>4. CASE ~E!Signal(t)
    <2>1. /\ epc[t] \in {"wait_lock", "waiting", "signalled"}
          /\ \/ \E to \in {"waiting", "signalled"} : epc' = [epc EXCEPT ![t] = to]
             \/ epc' = [epc EXCEPT ![t] = "returned"]
             \/ \E u \in Threads \ {t} :
                  /\ epc[u] = "waiting"
                  /\ epc' = [epc EXCEPT ![t] = "returned", ![u] = "signalled"]
          /\ \/ val' = val /\ (got' = got \/ got' = [got EXCEPT ![t] = {}])
             \/ val # {} /\ val' = {} /\ got' = [got EXCEPT ![t] = val]
      BY <1>4 DEF EventStep, Disturbance, E!Step, E!Disturbance, E!Take, E!Block,
                  E!WakeSpuriously, E!Expire, E!Goto
    <2>2. t \in Receivers
      BY <2>1 DEF CallsInv, SenderInv, Threads
    <2>3. mpc[t] = "wait" /\ pc[t] = "idle" /\ ~Claimed(t)
      BY <2>1, <2>2 DEF CallsInv, ReceiverInv, Claimed
    <2>4. \A s \in Senders : epc'[s] = epc[s]
      <3>1. \A s \in Senders : epc[s] # "waiting"
        BY DEF CallsInv, SenderInv
      <3> QED
        BY <1>1, <2>1, <2>2, <3>1
    <2>5. \A s \in Senders : SenderInv(s)' /\ (Published(s)' <=> Published(s))
      BY <1>2, <2>4 DEF CallsInv, SenderInv, Published
    <2>6. epc'[t] \in {"waiting", "signalled", "returned"}
      BY <2>1
    <2>7. ReceiverInv(t)'
      BY <1>2, <2>3, <2>6 DEF ReceiverInv
    <2>8. CallsInv'
      BY <1>1, <1>2, <2>2, <2>5, <2>7 DEF CallsInv
    <2>9. CreditInv'
      <3>1. (\E s \in Senders : Published(s)') <=> (\E s \in Senders : Published(s))
        BY <2>5
      <3>2. ~(\E r \in Receivers : Claimed(r))
        BY <1>1, <2>2, <2>3
      <3>3. CASE val' = val /\ (got' = got \/ got' = [got EXCEPT ![t] = {}])
        <4>1. got'[t] = {}
          BY <2>1, <3>3
        <4>2. ~(\E r \in Receivers : Claimed(r)')
          BY <1>1, <1>2, <2>2, <2>3, <4>1 DEF Claimed
        <4> QED
          BY <1>2, <3>1, <3>2, <3>3, <4>2 DEF CreditInv, One
      <3>4. CASE val # {} /\ val' = {}
        BY <1>2, <3>1, <3>2, <3>4 DEF CreditInv, One
      <3> QED
        BY <2>1, <3>3, <3>4
    <2> QED
      BY <2>8, <2>9
  <1> QED
    BY <1>3, <1>4

LEMMA LinkHolds == ASSUME DocumentedUse PROVE Spec => []LinkInv
  <1>1. LinkInv /\ [Next]_vars => CallsInv' /\ CreditInv'
    <2> SUFFICES ASSUME LinkInv, [Next]_vars PROVE CallsInv' /\ CreditInv'
      OBVIOUS
    <2>1. CASE UNCHANGED vars
      BY <2>1 DEF vars, ringVars, eventVars, LinkInv, CallsInv, CreditInv, SenderInv,
                  ReceiverInv, Published, Claimed
    <2>2. CASE \E t \in Threads : RingStep(t)
      BY <2>2, EnqueueKeepsLink, DequeueKeepsLink DEF Threads
    <2> QED
      BY <2>1, <2>2, SenderKeepsLink, ReceiverKeepsLink, EventKeepsLink DEF Next
  <1> QED
    BY <1>1, InitLink, PartsHold, PTL DEF LinkInv, Spec

(* The mail queue hands out what was sent, once each and in order: its     *)
(* ring is the bounded FIFO whatever the event does.                       *)
THEOREM MailIsFifo == ASSUME DocumentedUse PROVE Spec => RP!ImplementsFifo
  <1>1. Init => RP!Init
    BY DEF Init, R!Init, RP!Init, R!QueueInit, RP!QueueInit, R!Index, RP!Index, R!Threads,
           RP!Threads
  <1>2. Spec => RP!Spec
    BY <1>1, RingSteps, PTL DEF Spec, RP!Spec
  <1>3. RP!DocumentedUse
    BY DEF DocumentedUse, RP!DocumentedUse
  <1>4. RP!Spec => RP!ImplementsFifo
    BY <1>3, RP!QueueImplementsFifo, RingAssumptions
  <1> QED
    BY <1>2, <1>4, PTL

(* A receive that reports ok has a message: every event a receiver takes   *)
(* was preceded by an enqueue nobody has dequeued, so ddi_queue_receive    *)
(* may ignore the result of ddi_message_dequeue.                           *)
THEOREM ReceivesAreGood == ASSUME DocumentedUse PROVE Spec => []MailInv
  <1>1. LinkInv => TypeOK
    <2> SUFFICES ASSUME LinkInv PROVE TypeOK
      OBVIOUS
    <2>1. R!TypeOK
      BY DEF LinkInv, PartsInv, RP!QueueInv, RP!TypeOK, R!TypeOK, R!Word, RP!Word, R!Byte,
             RP!Byte, R!Index, RP!Index, R!Threads, RP!Threads, R!ProducerPc, RP!ProducerPc,
             R!ConsumerPc, RP!ConsumerPc
    <2>2. E!TypeOK
      BY DEF LinkInv, PartsInv, EP!TypeOK, E!TypeOK
    <2> QED
      BY <2>1, <2>2 DEF LinkInv, CallsInv, TypeOK
  <1>2. LinkInv => OkMeansMessage
    BY DEF LinkInv, CallsInv, ReceiverInv, Copied, OkMeansMessage
  <1> QED
    BY <1>1, <1>2, LinkHolds, PTL DEF MailInv

----------------------------------------------------------------------------
(* Thread handles *)

(* An owner in a call, or done with its handle, has had one. *)
OwnerHasHandle ==
  \A t \in Handles : caller[t] # "idle" => mem[t] # "none"

(* The flag is the owner's word that it has detached and will not join;    *)
(* a thread that frees its struct has read it.                             *)
FlagIsWord(t) ==
  /\ caller[t] = "detach" => flag[t]
  /\ caller[t] \in {"join", "gone"} => ~flag[t]
  /\ flag[t] => detached[t]
  /\ thread[t] = "read" => flag[t]
  /\ mem[t] = "live" /\ ~flag[t] => joinable[t]

(* What is freed is freed by the last that needs it, or after a look at    *)
(* freed memory.                                                           *)
FreedLast(t) ==
  /\ mem[t] = "freed" <=> frees[t] # 0
  /\ mem[t] = "freed" => thread[t] = "ended"
  /\ caller[t] = "join" /\ mem[t] = "freed" => "join" \in stray[t]
  /\ "join" \notin stray[t] => frees[t] <= 1
  /\ "entry" \notin stray[t]
  /\ ~detached[t] => stray[t] = {}
  /\ ~detached[t] /\ mem[t] = "freed" => caller[t] = "gone"

HandleInv ==
  /\ HandlesTypeOK
  /\ OwnerHasHandle
  /\ \A t \in Handles : ~exited[t] => FlagIsWord(t) /\ FreedLast(t)

(* There are no structs and no threads at first. *)
LEMMA InitHandles == HandlesInit => HandleInv
  BY DEF HandlesInit, HandleInv, HandlesTypeOK, OwnerHasHandle, FlagIsWord, FreedLast

(* Each call and each step of the thread keeps the invariant of its        *)
(* handle, and leaves the other handles alone.                             *)
LEMMA StepHandles == HandleInv /\ [HandlesNext]_handleVars => HandleInv'
  <1> SUFFICES ASSUME HandleInv, [HandlesNext]_handleVars PROVE HandleInv'
    OBVIOUS
  <1> USE DEF HandleInv, HandlesTypeOK, OwnerHasHandle, FlagIsWord, FreedLast
  <1>1. ASSUME NEW t \in Handles, Create(t) PROVE HandleInv'
    BY <1>1 DEF Create, ReturnTo
  <1>2. ASSUME NEW t \in Handles, CreateFails(t) PROVE HandleInv'
    BY <1>2 DEF CreateFails, ReturnTo
  <1>3. ASSUME NEW t \in Handles, EntryReturns(t) PROVE HandleInv'
    BY <1>3 DEF EntryReturns
  <1>4. ASSUME NEW t \in Handles, SeeDetached(t) PROVE HandleInv'
    BY <1>4 DEF SeeDetached, Touch
  <1>5. ASSUME NEW t \in Handles, SeeJoinable(t) PROVE HandleInv'
    BY <1>5 DEF SeeJoinable, Touch
  <1>6. ASSUME NEW t \in Handles, FreeDetached(t) PROVE HandleInv'
    BY <1>6 DEF FreeDetached, Touch, Free
  <1>7. ASSUME NEW t \in Handles, Exit(t) PROVE HandleInv'
    BY <1>7 DEF Exit, Touch, Free
  <1>8. ASSUME NEW t \in Handles, Detach(t) PROVE HandleInv'
    BY <1>8 DEF Detach, Touch
  <1>9. ASSUME NEW t \in Handles, DetachPthread(t) PROVE HandleInv'
    BY <1>9 DEF DetachPthread, Touch, ReturnTo
  <1>10. ASSUME NEW t \in Handles, JoinRefused(t) PROVE HandleInv'
    BY <1>10 DEF JoinRefused, Touch, ReturnTo
  <1>11. ASSUME NEW t \in Handles, Join(t) PROVE HandleInv'
    BY <1>11 DEF Join, Touch
  <1>12. ASSUME NEW t \in Handles, Joined(t) PROVE HandleInv'
    BY <1>12 DEF Joined, Touch, Free, ReturnTo
  <1>13. ASSUME NEW t \in Handles, JoinFails(t) PROVE HandleInv'
    BY <1>13 DEF JoinFails, Touch, Free, ReturnTo
  <1>14. CASE UNCHANGED handleVars
    BY <1>14 DEF handleVars
  <1> QED
    BY <1>1, <1>2, <1>3, <1>4, <1>5, <1>6, <1>7, <1>8, <1>9, <1>10, <1>11, <1>12,
       <1>13, <1>14
    DEF HandlesNext, OwnerCall, OwnerStep, ThreadStep

(* The invariant holds of every run. *)
THEOREM HandlesInvariant == HandlesSpec => []HandleInv
  BY InitHandles, StepHandles, PTL DEF HandlesSpec

(* Types: every handle, struct and thread is in one of its states, and a   *)
(* thread has a struct and a struct a thread (ddi_thread_create).          *)
THEOREM HandleTypes == HandlesSpec => []HandlesTypeOK
  BY HandlesInvariant, PTL DEF HandleInv

(* thread_entry finds its struct in place, whatever the owner calls, and   *)
(* so does an owner that never detaches, unless ddi_thread_exit is called. *)
THEOREM EntryIsUndisturbed == HandlesSpec => []EntryUndisturbed
  <1>1. HandleInv => EntryUndisturbed
    BY DEF HandleInv, FreedLast, EntryUndisturbed
  <1> QED
    BY <1>1, HandlesInvariant, PTL

(* A struct is freed once, when its thread is done with it, unless by      *)
(* ddi_thread_exit or after a join that looked at freed memory.            *)
THEOREM StructFreedOnce == HandlesSpec => []FreedOnce
  <1>1. HandleInv => FreedOnce
    BY DEF HandleInv, HandlesTypeOK, FreedLast, FreedOnce
  <1> QED
    BY <1>1, HandlesInvariant, PTL
=============================================================================
