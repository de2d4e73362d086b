------------------------------ MODULE DdiQueue -------------------------------
(***************************************************************************)
(* The message queue of ddi_common_lib/ddi_queue.c: a ring of Depth message *)
(* buffers and one 32-bit word that packs depth, idx_in, idx_out and count *)
(* in 8-bit fields.  Producers and consumers share no lock; each call is   *)
(* split where another thread can run between two accesses to the word or  *)
(* to a buffer, and the word is advanced by compare and exchange.          *)
(*                                                                         *)
(* A message stands for a whole buffer with its length; an enqueue without *)
(* data zero-fills the buffer, which is one more message.  The header      *)
(* allows one producer and one consumer; the sets are parameters so that   *)
(* other modules can ask what happens with more.                           *)
(***************************************************************************)
EXTENDS Integers, Sequences

CONSTANTS
  Depth,      \* ddi_queue_t.depth
  Msgs,       \* the messages producers send
  NoMsg,      \* the content of a buffer nothing was written to
  Producers,  \* threads that call ddi_message_enqueue
  Consumers   \* threads that call ddi_message_dequeue

(***************************************************************************)
(* depth is an 8-bit field that is also a divisor, so it lies in 1..255.   *)
(***************************************************************************)
ASSUME DepthAssumption == Depth \in 1..255
ASSUME MsgAssumption == NoMsg \notin Msgs
ASSUME ThreadAssumption == Producers \cap Consumers = {}

VARIABLES
  q,        \* the packed word: idx_in, idx_out, count
  slots,    \* the message buffers with their lengths
  pc,       \* where each thread is in its call
  idx,      \* the local idx of the call: a slot, or the returned index
  expected, \* the local copy of the word the exchange compares with
  msg,      \* producers: the message to send; consumers: the caller's buffer
  accepted, \* history: message of the last enqueue that was published
  taken     \* history: what the last dequeue that was published handed out

vars == <<q, slots, pc, idx, expected, msg, accepted, taken>>

Threads == Producers \cup Consumers
Index == 0 .. Depth - 1
Byte == 0 .. 255
Word == [idx_in : Byte, idx_out : Byte, count : Byte]

QueueInit == [idx_in |-> Depth - 1, idx_out |-> Depth - 1, count |-> 0]

(* Mutant: the full test is off by one. *)
FullOffByOne == q.count = Depth + 1

Full == q.count = Depth
Empty == q.count = 0

Enqueued(w) ==
  [idx_in |-> (w.idx_in + 1) % Depth, idx_out |-> w.idx_out,
   count |-> (w.count + 1) % 256]
Dequeued(w) ==
  [idx_in |-> w.idx_in, idx_out |-> (w.idx_out + 1) % Depth,
   count |-> (w.count - 1) % 256]

Goto(t, to) == pc' = [pc EXCEPT ![t] = to]

(***************************************************************************)
(* The call of t ends and returns i: the index, or -1.                     *)
(***************************************************************************)
Return(t, i) ==
  /\ Goto(t, "returned")
  /\ idx' = [idx EXCEPT ![t] = i]

Init ==
  /\ q = QueueInit
  /\ slots = [i \in Index |-> NoMsg]
  /\ pc = [t \in Threads |-> "idle"]
  /\ idx = [t \in Threads |-> -1]
  /\ expected = [t \in Threads |-> QueueInit]
  /\ msg = [t \in Threads |-> NoMsg]
  /\ accepted = NoMsg
  /\ taken = NoMsg

----------------------------------------------------------------------------
(* ddi_message_enqueue *)

CallEnqueue(p, m) ==
  /\ pc[p] = "idle"
  /\ Goto(p, "in_full")
  /\ msg' = [msg EXCEPT ![p] = m]
  /\ UNCHANGED <<q, slots, idx, expected, accepted, taken>>

(* ddi_queue_in: the full test, then a second access to read idx_in *)
InFull(p) ==
  /\ pc[p] = "in_full"
  /\ IF Full THEN Return(p, -1) ELSE Goto(p, "in_idx") /\ UNCHANGED idx
  /\ UNCHANGED <<q, slots, expected, msg, accepted, taken>>

InIndex(p) ==
  /\ pc[p] = "in_idx"
  /\ idx' = [idx EXCEPT ![p] = q.idx_in]
  /\ Goto(p, "write")
  /\ UNCHANGED <<q, slots, expected, msg, accepted, taken>>

WriteSlot(p) ==
  /\ pc[p] = "write"
  /\ slots' = [slots EXCEPT ![idx[p]] = msg[p]]
  /\ Goto(p, "enq_full")
  /\ UNCHANGED <<q, idx, expected, msg, accepted, taken>>

(* ddi_enqueue *)
EnqFull(p) ==
  /\ pc[p] = "enq_full"
  /\ IF Full THEN Return(p, -1) ELSE Goto(p, "enq_load") /\ UNCHANGED idx
  /\ UNCHANGED <<q, slots, expected, msg, accepted, taken>>

EnqLoad(p) ==
  /\ pc[p] = "enq_load"
  /\ expected' = [expected EXCEPT ![p] = q]
  /\ Goto(p, "enq_cas")
  /\ UNCHANGED <<q, slots, idx, msg, accepted, taken>>

(* Mutant: the word is stored without comparing it first. *)
EnqPlainStore(p) ==
  /\ pc[p] = "enq_cas"
  /\ q' = Enqueued(expected[p])
  /\ Return(p, Enqueued(expected[p]).idx_in)
  /\ accepted' = msg[p]
  /\ UNCHANGED <<slots, expected, msg, taken>>

EnqExchange(p) ==
  /\ pc[p] = "enq_cas"
  /\ q = expected[p]
  /\ q' = Enqueued(expected[p])
  /\ Return(p, Enqueued(expected[p]).idx_in)
  /\ accepted' = msg[p]
  /\ UNCHANGED <<slots, expected, msg, taken>>

(* Mutant: the loop retries the exchange with the stale copy. *)
EnqRetryStale(p) ==
  /\ pc[p] = "enq_cas"
  /\ q # expected[p]
  /\ IF Full THEN Return(p, -1) ELSE UNCHANGED <<pc, idx>>
  /\ UNCHANGED <<q, slots, expected, msg, accepted, taken>>

EnqRetry(p) ==
  /\ pc[p] = "enq_cas"
  /\ q # expected[p]
  /\ expected' = [expected EXCEPT ![p] = q]
  /\ IF Full THEN Return(p, -1) ELSE Goto(p, "enq_load") /\ UNCHANGED idx
  /\ UNCHANGED <<q, slots, msg, accepted, taken>>

----------------------------------------------------------------------------
(* ddi_message_dequeue: want says whether the caller passed a data buffer  *)

CallDequeue(c, want) ==
  /\ pc[c] = "idle"
  /\ Goto(c, IF want THEN "out_empty" ELSE "drop_empty")
  /\ msg' = [msg EXCEPT ![c] = NoMsg]
  /\ UNCHANGED <<q, slots, idx, expected, accepted, taken>>

(* ddi_queue_out: the empty test, then a second access to read idx_out *)
OutEmpty(c) ==
  /\ pc[c] \in {"out_empty", "drop_empty"}
  /\ IF Empty THEN Return(c, -1)
     ELSE /\ Goto(c, IF pc[c] = "out_empty" THEN "out_idx" ELSE "drop_idx")
          /\ UNCHANGED idx
  /\ UNCHANGED <<q, slots, expected, msg, accepted, taken>>

OutIndex(c) ==
  /\ pc[c] \in {"out_idx", "drop_idx"}
  /\ idx' = [idx EXCEPT ![c] = q.idx_out]
  /\ Goto(c, IF pc[c] = "out_idx" THEN "read" ELSE "deq_empty")
  /\ UNCHANGED <<q, slots, expected, msg, accepted, taken>>

ReadSlot(c) ==
  /\ pc[c] = "read"
  /\ msg' = [msg EXCEPT ![c] = slots[idx[c]]]
  /\ Goto(c, "deq_empty")
  /\ UNCHANGED <<q, slots, idx, expected, accepted, taken>>

(* ddi_dequeue, whose result ddi_message_dequeue ignores: it returns the    *)
(* index of the slot it read whatever happens here                         *)
DeqEmpty(c) ==
  /\ pc[c] = "deq_empty"
  /\ Goto(c, IF Empty THEN "returned" ELSE "deq_load")
  /\ UNCHANGED <<q, slots, idx, expected, msg, accepted, taken>>

DeqLoad(c) ==
  /\ pc[c] = "deq_load"
  /\ expected' = [expected EXCEPT ![c] = q]
  /\ Goto(c, "deq_cas")
  /\ UNCHANGED <<q, slots, idx, msg, accepted, taken>>

DeqExchange(c) ==
  /\ pc[c] = "deq_cas"
  /\ q = expected[c]
  /\ q' = Dequeued(expected[c])
  /\ Goto(c, "returned")
  /\ taken' = msg[c]
  /\ UNCHANGED <<slots, idx, expected, msg, accepted>>

DeqRetry(c) ==
  /\ pc[c] = "deq_cas"
  /\ q # expected[c]
  /\ expected' = [expected EXCEPT ![c] = q]
  /\ Goto(c, IF Empty THEN "returned" ELSE "deq_load")
  /\ UNCHANGED <<q, slots, idx, msg, accepted, taken>>

----------------------------------------------------------------------------
(* The caller has looked at the result and may call again. *)
Resume(t) ==
  /\ pc[t] = "returned"
  /\ Goto(t, "idle")
  /\ UNCHANGED <<q, slots, idx, expected, msg, accepted, taken>>

(* The steps of a call in progress *)
EnqueueStep(p) ==
  \/ InFull(p) \/ InIndex(p) \/ WriteSlot(p)
  \/ EnqFull(p) \/ EnqLoad(p) \/ EnqExchange(p) \/ EnqRetry(p)

DequeueStep(c) ==
  \/ OutEmpty(c) \/ OutIndex(c) \/ ReadSlot(c)
  \/ DeqEmpty(c) \/ DeqLoad(c) \/ DeqExchange(c) \/ DeqRetry(c)

Next ==
  \/ \E p \in Producers, m \in Msgs : CallEnqueue(p, m)
  \/ \E p \in Producers : EnqueueStep(p)
  \/ \E c \in Consumers, want \in BOOLEAN : CallDequeue(c, want)
  \/ \E c \in Consumers : DequeueStep(c)
  \/ \E t \in Threads : Resume(t)

(* A thread inside a call keeps running; nobody has to make a call. *)
Fairness ==
  /\ \A p \in Producers : WF_vars(EnqueueStep(p))
  /\ \A c \in Consumers : WF_vars(DequeueStep(c))

Spec == Init /\ [][Next]_vars
FairSpec == Spec /\ Fairness

----------------------------------------------------------------------------
(* Properties *)

ProducerPc ==
  {"idle", "in_full", "in_idx", "write", "enq_full", "enq_load", "enq_cas",
   "returned"}
ConsumerPc ==
  {"idle", "out_empty", "drop_empty", "out_idx", "drop_idx", "read",
   "deq_empty", "deq_load", "deq_cas", "returned"}

(* Type invariant: the word's fields stay bytes, every local its type.     *)
TypeOK ==
  /\ q \in Word
  /\ slots \in [Index -> Msgs \cup {NoMsg}]
  /\ pc \in [Threads -> ProducerPc \cup ConsumerPc]
  /\ \A p \in Producers : pc[p] \in ProducerPc
  /\ \A c \in Consumers : pc[c] \in ConsumerPc
  /\ idx \in [Threads -> Byte \cup {-1}]
  /\ expected \in [Threads -> Word]
  /\ msg \in [Threads -> Msgs \cup {NoMsg}]
  /\ accepted \in Msgs \cup {NoMsg}
  /\ taken \in Msgs \cup {NoMsg}

(* The three counters of the word agree: count never passes Depth, and     *)
(* idx_in leads idx_out by exactly count elements around the ring.         *)
WordConsistent ==
  /\ q.idx_in \in Index
  /\ q.idx_out \in Index
  /\ q.count \in 0 .. Depth
  /\ \/ q.idx_in = q.idx_out + q.count
     \/ q.idx_in = q.idx_out + q.count - Depth

(* What a producer may rely on between two of its accesses, although the    *)
(* consumer moves the word meanwhile: the room it saw is still there, the   *)
(* slot it took is still idx_in, and what it wrote is still in the slot.    *)
ProducerView ==
  \A p \in Producers :
    /\ pc[p] \in {"in_idx", "write", "enq_full", "enq_load", "enq_cas"} => ~Full
    /\ pc[p] \in {"write", "enq_full", "enq_load", "enq_cas"} => idx[p] = q.idx_in
    /\ pc[p] \in {"enq_full", "enq_load", "enq_cas"} => slots[q.idx_in] = msg[p]
    /\ pc[p] \notin {"idle", "returned"} => msg[p] \in Msgs

(* Likewise a consumer: the message it saw is still there, at idx_out, and  *)
(* its copy is still what the buffer holds (or no copy was asked for).      *)
ConsumerView ==
  \A c \in Consumers :
    /\ pc[c] \in {"out_idx", "drop_idx", "read", "deq_empty", "deq_load", "deq_cas"}
         => ~Empty
    /\ pc[c] \in {"read", "deq_empty", "deq_load", "deq_cas"} => idx[c] = q.idx_out
    /\ pc[c] \in {"deq_empty", "deq_load", "deq_cas"}
         => msg[c] \in {slots[q.idx_out], NoMsg}
    /\ pc[c] \in {"drop_empty", "drop_idx"} => msg[c] = NoMsg

(* The inductive invariant of the queue. *)
QueueInv ==
  /\ TypeOK
  /\ WordConsistent
  /\ ProducerView
  /\ ConsumerView

(* A producer never writes a buffer while a consumer copies it out.        *)
NoSlotOverlap ==
  \A p \in Producers, c \in Consumers :
    pc[p] = "write" /\ pc[c] = "read" => idx[p] # idx[c]

(* A message that was written into its buffer is always published: once    *)
(* ddi_message_enqueue has seen room, ddi_enqueue cannot answer full.      *)
WrittenIsPublished ==
  [][\A p \in Producers :
       pc[p] \in {"enq_full", "enq_cas"} /\ pc'[p] = "returned" => idx'[p] # -1]_vars

(* The buffered messages, oldest first: the consumer's next slot is        *)
(* idx_out, and idx_in is the producer's next one.                         *)
Contents == [i \in 1 .. q.count |-> slots[(q.idx_out + i - 1) % Depth]]

Fifo == INSTANCE BoundedFifo WITH fifo <- Contents

(* The queue is a bounded FIFO: every published message is the one its     *)
(* producer sent, and messages are handed out once each, in order.         *)
ImplementsFifo == Fifo!Spec

(* Every call returns: a producer's exchange can only fail because the     *)
(* consumer moved, and the consumer runs out of messages; a consumer's     *)
(* only because the producer did, and the producer runs out of room.       *)
CallsReturn ==
  /\ \A p \in Producers : pc[p] = "in_full" ~> pc[p] = "returned"
  /\ \A c \in Consumers : pc[c] = "out_empty" ~> pc[c] = "returned"
=============================================================================
