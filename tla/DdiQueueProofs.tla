--------------------------- MODULE DdiQueueProofs ----------------------------
(***************************************************************************)
(* Proofs about the message queue for every depth and every set of         *)
(* messages, under the use its header documents: at most one producer and  *)
(* at most one consumer thread.                                            *)
(***************************************************************************)
EXTENDS DdiQueue, SequenceTheorems, TLAPS

(* ddi_queue.h:50: thread safe, "but only between one producer and one     *)
(* consumer thread".                                                       *)
DocumentedUse ==
  /\ \A p1, p2 \in Producers : p1 = p2
  /\ \A c1, c2 \in Consumers : c1 = c2

(* One turn of the ring: an index less than two turns ahead wraps once.    *)
LEMMA ModWrap ==
  \A a \in 0 .. 2 * Depth - 1 : a % Depth = IF a < Depth THEN a ELSE a - Depth
<1> SUFFICES ASSUME NEW a \in 0 .. 2 * Depth - 1
             PROVE  a % Depth = IF a < Depth THEN a ELSE a - Depth
  OBVIOUS
<1>1. CASE a < Depth
  BY <1>1, DepthAssumption
<1>2. CASE a >= Depth
  BY <1>2, DepthAssumption
<1> QED BY <1>1, <1>2, DepthAssumption

(* The index after i, as the code computes it with %.                      *)
LEMMA NextIndex ==
  ASSUME NEW i \in Index
  PROVE  /\ (i + 1) % Depth = IF i + 1 < Depth THEN i + 1 ELSE 0
         /\ (i + 1) % Depth \in Index
<1>1. CASE i + 1 < Depth
  <2>1. PICK j \in 0 .. 2 * Depth - 1 : j = i + 1
    BY DepthAssumption DEF Index
  <2>2. j % Depth = j
    BY <2>1, <1>1, DepthAssumption
  <2> QED BY <2>1, <2>2, <1>1, DepthAssumption DEF Index
<1>2. CASE i + 1 = Depth
  <2>1. Depth % Depth = 0
    BY DepthAssumption
  <2> QED BY <2>1, <1>2, DepthAssumption DEF Index
<1> QED BY <1>1, <1>2, DepthAssumption DEF Index

(* The word after a successful exchange of a producer that saw room.       *)
LEMMA EnqueuedWord ==
  ASSUME WordConsistent, ~Full
  PROVE  /\ Enqueued(q).idx_in = IF q.idx_in + 1 < Depth THEN q.idx_in + 1 ELSE 0
         /\ Enqueued(q).idx_in \in Index
         /\ Enqueued(q).idx_out = q.idx_out
         /\ Enqueued(q).count = q.count + 1
         /\ Enqueued(q).count \in 1 .. Depth
<1>1. /\ (q.idx_in + 1) % Depth = IF q.idx_in + 1 < Depth THEN q.idx_in + 1 ELSE 0
      /\ (q.idx_in + 1) % Depth \in Index
  BY NextIndex DEF WordConsistent
<1>2. q.count + 1 \in 1 .. Depth /\ (q.count + 1) % 256 = q.count + 1
  BY DepthAssumption DEF WordConsistent, Full
<1> QED BY <1>1, <1>2 DEF Enqueued

(* The word after a successful exchange of a consumer that saw a message.  *)
LEMMA DequeuedWord ==
  ASSUME WordConsistent, ~Empty
  PROVE  /\ Dequeued(q).idx_out = IF q.idx_out + 1 < Depth THEN q.idx_out + 1 ELSE 0
         /\ Dequeued(q).idx_out \in Index
         /\ Dequeued(q).idx_in = q.idx_in
         /\ Dequeued(q).count = q.count - 1
         /\ Dequeued(q).count \in 0 .. Depth - 1
<1>1. /\ (q.idx_out + 1) % Depth = IF q.idx_out + 1 < Depth THEN q.idx_out + 1 ELSE 0
      /\ (q.idx_out + 1) % Depth \in Index
  BY NextIndex DEF WordConsistent
<1>2. q.count - 1 \in 0 .. Depth - 1 /\ (q.count - 1) % 256 = q.count - 1
  BY DepthAssumption DEF WordConsistent, Empty
<1> QED BY <1>1, <1>2 DEF Dequeued

(* Words built by an exchange stay words.                                  *)
LEMMA ExchangedWord ==
  ASSUME NEW w \in Word
  PROVE  Enqueued(w) \in Word /\ Dequeued(w) \in Word
<1>1. \A n \in Nat : n % Depth \in 0 .. Depth - 1
  BY DepthAssumption
<1>2. \A n \in Int : n % 256 \in Byte
  BY DEF Byte
<1>3. (w.idx_in + 1) % Depth \in Byte /\ (w.idx_out + 1) % Depth \in Byte
  <2>1. w.idx_in + 1 \in Nat /\ w.idx_out + 1 \in Nat
    BY DEF Word, Byte
  <2>2. 0 .. Depth - 1 \subseteq Byte
    BY DepthAssumption DEF Byte
  <2> QED BY <1>1, <2>1, <2>2
<1>4. (w.count + 1) % 256 \in Byte /\ (w.count - 1) % 256 \in Byte
  BY <1>2 DEF Word, Byte
<1> QED BY <1>3, <1>4 DEF Enqueued, Dequeued, Word

(* A slot that holds a message is not the slot the producer fills next.    *)
LEMMA NextSlotIsFree ==
  ASSUME TypeOK, WordConsistent, ~Full, ~Empty
  PROVE  q.idx_in # q.idx_out
BY DepthAssumption DEF TypeOK, WordConsistent, Full, Empty, Index, Word, Byte

LEMMA InitInv == Init => QueueInv
<1> SUFFICES ASSUME Init PROVE QueueInv
  OBVIOUS
<1> USE DepthAssumption DEF Init, QueueInit
<1>1. TypeOK
  BY DEF TypeOK, Word, Byte, Threads, ProducerPc, ConsumerPc
<1>2. WordConsistent
  BY DEF WordConsistent, Index
<1>3. ProducerView /\ ConsumerView
  BY DEF ProducerView, ConsumerView, Threads
<1> QED BY <1>1, <1>2, <1>3 DEF QueueInv

(* A call that begins or ends touches nothing the invariant speaks of but   *)
(* the caller's own pc, index and message.                                  *)
LEMMA CallInv ==
  ASSUME QueueInv,
         \/ \E p \in Producers, m \in Msgs : CallEnqueue(p, m)
         \/ \E c \in Consumers, want \in BOOLEAN : CallDequeue(c, want)
         \/ \E t \in Threads : Resume(t)
  PROVE  QueueInv'
<1> USE DEF QueueInv, Goto
<1>1. TypeOK'
  BY ThreadAssumption
  DEF TypeOK, CallEnqueue, CallDequeue, Resume, ProducerPc, ConsumerPc, Threads
<1>2. WordConsistent'
  BY DEF WordConsistent, CallEnqueue, CallDequeue, Resume
<1>3. ProducerView'
  BY ThreadAssumption
  DEF ProducerView, CallEnqueue, CallDequeue, Resume, TypeOK, Threads, Full
<1>4. ConsumerView'
  BY ThreadAssumption
  DEF ConsumerView, CallEnqueue, CallDequeue, Resume, TypeOK, Threads, Empty
<1> QED BY <1>1, <1>2, <1>3, <1>4

(* The steps of an enqueue.  No other producer runs (DocumentedUse), so     *)
(* ProducerView is about p alone; the consumers see their message survive.  *)
LEMMA EnqueueInv ==
  ASSUME QueueInv, DocumentedUse, NEW p \in Producers, EnqueueStep(p)
  PROVE  QueueInv'
<1> USE DEF QueueInv
<1>0. /\ p \in Threads
      /\ \A r \in Producers : r = p
      /\ \A c \in Consumers : c \in Threads /\ c # p
      /\ pc[p] = "write" => idx[p] \in Index
  BY ThreadAssumption DEF Threads, DocumentedUse, ProducerView, WordConsistent
<1>1. CASE InFull(p)
  <2>1. TypeOK'
    BY <1>0, <1>1 DEF TypeOK, InFull, Goto, Return, ProducerPc, ConsumerPc
  <2>2. WordConsistent' /\ ConsumerView'
    BY <1>0, <1>1 DEF WordConsistent, ConsumerView, InFull, Goto, Return, Empty, TypeOK
  <2>3. ProducerView'
    BY <1>0, <1>1 DEF ProducerView, InFull, Goto, Return, Full, TypeOK
  <2> QED BY <2>1, <2>2, <2>3
<1>2. CASE InIndex(p)
  <2>1. TypeOK'
    BY <1>0, <1>2 DEF TypeOK, InIndex, Goto, ProducerPc, ConsumerPc, Word
  <2>2. WordConsistent' /\ ConsumerView'
    BY <1>0, <1>2 DEF WordConsistent, ConsumerView, InIndex, Goto, Empty, TypeOK
  <2>3. ProducerView'
    BY <1>0, <1>2 DEF ProducerView, InIndex, Goto, Full, TypeOK
  <2> QED BY <2>1, <2>2, <2>3
<1>3. CASE WriteSlot(p)
  <2>1. TypeOK'
    BY <1>0, <1>3 DEF TypeOK, WriteSlot, Goto, ProducerPc, ConsumerPc
  <2>2. WordConsistent'
    BY <1>3 DEF WordConsistent, WriteSlot
  <2>3. ProducerView'
    BY <1>0, <1>3 DEF ProducerView, WriteSlot, Goto, Full, TypeOK
  <2>4. ASSUME NEW c \in Consumers,
               pc[c] \in {"deq_empty", "deq_load", "deq_cas"}
        PROVE  slots'[q.idx_out] = slots[q.idx_out]
    <3>1. ~Full /\ ~Empty /\ idx[p] = q.idx_in
      BY <1>3, <2>4 DEF ProducerView, ConsumerView, WriteSlot
    <3>2. q.idx_in # q.idx_out
      BY <3>1, NextSlotIsFree
    <3> QED BY <3>1, <3>2, <1>3 DEF WriteSlot, TypeOK, WordConsistent
  <2>5. ConsumerView'
    <3>1. /\ q' = q /\ idx' = idx /\ msg' = msg
          /\ \A c \in Consumers : pc'[c] = pc[c]
      BY <1>0, <1>3 DEF WriteSlot, Goto, TypeOK
    <3> QED BY <3>1, <2>4 DEF ConsumerView, Empty
  <2> QED BY <2>1, <2>2, <2>3, <2>5
<1>4. CASE EnqFull(p)
  <2>1. TypeOK'
    BY <1>0, <1>4 DEF TypeOK, EnqFull, Goto, Return, ProducerPc, ConsumerPc
  <2>2. WordConsistent' /\ ConsumerView'
    BY <1>0, <1>4 DEF WordConsistent, ConsumerView, EnqFull, Goto, Return, Empty, TypeOK
  <2>3. ProducerView'
    BY <1>0, <1>4 DEF ProducerView, EnqFull, Goto, Return, Full, TypeOK
  <2> QED BY <2>1, <2>2, <2>3
<1>5. CASE EnqLoad(p)
  <2>1. TypeOK'
    BY <1>0, <1>5 DEF TypeOK, EnqLoad, Goto, ProducerPc, ConsumerPc
  <2>2. WordConsistent' /\ ConsumerView'
    BY <1>0, <1>5 DEF WordConsistent, ConsumerView, EnqLoad, Goto, Empty, TypeOK
  <2>3. ProducerView'
    BY <1>0, <1>5 DEF ProducerView, EnqLoad, Goto, Full, TypeOK
  <2> QED BY <2>1, <2>2, <2>3
<1>6. CASE EnqExchange(p)
  <2>0. ~Full /\ q' = Enqueued(q) /\ pc' = [pc EXCEPT ![p] = "returned"]
    BY <1>6 DEF EnqExchange, ProducerView, Return, Goto
  <2>1. TypeOK'
    <3>1. q' \in Word /\ q'.idx_in \in Byte
      BY <2>0, ExchangedWord DEF TypeOK, Word
    <3> QED BY <3>1, <2>0, <1>0, <1>6
            DEF TypeOK, EnqExchange, Return, ProducerPc, ConsumerPc
  <2>2. WordConsistent'
    BY <2>0, EnqueuedWord, DepthAssumption DEF WordConsistent, Index, Full
  <2>3. ProducerView'
    BY <1>0, <2>0 DEF ProducerView, TypeOK
  <2>4. ~Empty' /\ q'.idx_out = q.idx_out
    BY <2>0, EnqueuedWord, DepthAssumption DEF Empty
  <2>5. ConsumerView'
    BY <1>0, <1>6, <2>0, <2>4 DEF ConsumerView, EnqExchange, Return, TypeOK
  <2> QED BY <2>1, <2>2, <2>3, <2>5
<1>7. CASE EnqRetry(p)
  <2>1. TypeOK'
    BY <1>0, <1>7 DEF TypeOK, EnqRetry, Goto, Return, ProducerPc, ConsumerPc
  <2>2. WordConsistent' /\ ConsumerView'
    BY <1>0, <1>7 DEF WordConsistent, ConsumerView, EnqRetry, Goto, Return, Empty, TypeOK
  <2>3. ProducerView'
    BY <1>0, <1>7 DEF ProducerView, EnqRetry, Goto, Return, Full, TypeOK
  <2> QED BY <2>1, <2>2, <2>3
<1> QED BY <1>1, <1>2, <1>3, <1>4, <1>5, <1>6, <1>7 DEF EnqueueStep

(* The steps of a dequeue, the mirror image: the producer keeps its room.   *)
LEMMA DequeueInv ==
  ASSUME QueueInv, DocumentedUse, NEW c \in Consumers, DequeueStep(c)
  PROVE  QueueInv'
<1> USE DEF QueueInv
<1>0. /\ c \in Threads
      /\ \A r \in Consumers : r = c
      /\ \A p \in Producers : p \in Threads /\ p # c
      /\ pc[c] = "read" => idx[c] \in Index
  BY ThreadAssumption DEF Threads, DocumentedUse, ConsumerView, WordConsistent
<1>1. CASE OutEmpty(c)
  <2>1. TypeOK'
    BY <1>0, <1>1 DEF TypeOK, OutEmpty, Goto, Return, ProducerPc, ConsumerPc
  <2>2. WordConsistent' /\ ProducerView'
    BY <1>0, <1>1 DEF WordConsistent, ProducerView, OutEmpty, Goto, Return, Full, TypeOK
  <2>3. ConsumerView'
    BY <1>0, <1>1 DEF ConsumerView, OutEmpty, Goto, Return, Empty, TypeOK
  <2> QED BY <2>1, <2>2, <2>3
<1>2. CASE OutIndex(c)
  <2>1. TypeOK'
    BY <1>0, <1>2 DEF TypeOK, OutIndex, Goto, ProducerPc, ConsumerPc, Word
  <2>2. WordConsistent' /\ ProducerView'
    BY <1>0, <1>2 DEF WordConsistent, ProducerView, OutIndex, Goto, Full, TypeOK
  <2>3. ConsumerView'
    <3>1. /\ q' = q /\ slots' = slots /\ msg' = msg /\ idx'[c] = q.idx_out
          /\ ~Empty
          /\ pc'[c] = "read" \/ (pc'[c] = "deq_empty" /\ pc[c] = "drop_idx")
      BY <1>0, <1>2 DEF ConsumerView, OutIndex, Goto, TypeOK
    <3>2. pc'[c] = "deq_empty" => msg[c] = NoMsg
      BY <3>1, <1>2 DEF OutIndex, ConsumerView
    <3> QED BY <1>0, <3>1, <3>2 DEF ConsumerView, Empty
  <2> QED BY <2>1, <2>2, <2>3
<1>3. CASE ReadSlot(c)
  <2>1. TypeOK'
    BY <1>0, <1>3 DEF TypeOK, ReadSlot, Goto, ProducerPc, ConsumerPc
  <2>2. WordConsistent' /\ ProducerView'
    BY <1>0, <1>3 DEF WordConsistent, ProducerView, ReadSlot, Goto, Full, TypeOK
  <2>3. ConsumerView'
    BY <1>0, <1>3 DEF ConsumerView, ReadSlot, Goto, Empty, TypeOK
  <2> QED BY <2>1, <2>2, <2>3
<1>4. CASE DeqEmpty(c)
  <2>1. TypeOK'
    BY <1>0, <1>4 DEF TypeOK, DeqEmpty, Goto, ProducerPc, ConsumerPc
  <2>2. WordConsistent' /\ ProducerView'
    BY <1>0, <1>4 DEF WordConsistent, ProducerView, DeqEmpty, Goto, Full, TypeOK
  <2>3. ConsumerView'
    BY <1>0, <1>4 DEF ConsumerView, DeqEmpty, Goto, Empty, TypeOK
  <2> QED BY <2>1, <2>2, <2>3
<1>5. CASE DeqLoad(c)
  <2>1. TypeOK'
    BY <1>0, <1>5 DEF TypeOK, DeqLoad, Goto, ProducerPc, ConsumerPc
  <2>2. WordConsistent' /\ ProducerView'
    BY <1>0, <1>5 DEF WordConsistent, ProducerView, DeqLoad, Goto, Full, TypeOK
  <2>3. ConsumerView'
    BY <1>0, <1>5 DEF ConsumerView, DeqLoad, Goto, Empty, TypeOK
  <2> QED BY <2>1, <2>2, <2>3
<1>6. CASE DeqExchange(c)
  <2>0. ~Empty /\ q' = Dequeued(q) /\ pc' = [pc EXCEPT ![c] = "returned"]
    BY <1>6 DEF DeqExchange, ConsumerView, Goto
  <2>1. TypeOK'
    <3>1. q' \in Word
      BY <2>0, ExchangedWord DEF TypeOK
    <3> QED BY <3>1, <2>0, <1>0, <1>6
            DEF TypeOK, DeqExchange, ProducerPc, ConsumerPc
  <2>2. WordConsistent'
    BY <2>0, DequeuedWord, DepthAssumption DEF WordConsistent, Index, Empty
  <2>3. ConsumerView'
    BY <1>0, <2>0 DEF ConsumerView, TypeOK
  <2>4. ~Full' /\ q'.idx_in = q.idx_in
    BY <2>0, DequeuedWord, DepthAssumption DEF Full
  <2>5. ProducerView'
    BY <1>0, <1>6, <2>0, <2>4 DEF ProducerView, DeqExchange, TypeOK
  <2> QED BY <2>1, <2>2, <2>3, <2>5
<1>7. CASE DeqRetry(c)
  <2>1. TypeOK'
    BY <1>0, <1>7 DEF TypeOK, DeqRetry, Goto, ProducerPc, ConsumerPc
  <2>2. WordConsistent' /\ ProducerView'
    BY <1>0, <1>7 DEF WordConsistent, ProducerView, DeqRetry, Goto, Full, TypeOK
  <2>3. ConsumerView'
    BY <1>0, <1>7 DEF ConsumerView, DeqRetry, Goto, Empty, TypeOK
  <2> QED BY <2>1, <2>2, <2>3
<1> QED BY <1>1, <1>2, <1>3, <1>4, <1>5, <1>6, <1>7 DEF DequeueStep

(* The inductive invariant holds under the documented use.                  *)
THEOREM QueueInvariant == ASSUME DocumentedUse PROVE Spec => []QueueInv
<1>1. Init => QueueInv
  BY InitInv
<1>2. QueueInv /\ [Next]_vars => QueueInv'
  <2> SUFFICES ASSUME QueueInv, [Next]_vars PROVE QueueInv'
    OBVIOUS
  <2>1. CASE UNCHANGED vars
    BY <2>1 DEF vars, QueueInv, TypeOK, WordConsistent, ProducerView, ConsumerView,
                Full, Empty
  <2> QED BY <2>1, CallInv, EnqueueInv, DequeueInv DEF Next
<1> QED BY <1>1, <1>2, PTL DEF Spec

(* Whatever the interleaving, every field of the packed word stays a byte   *)
(* and every slot index a byte or -1 (ddi_queue.c:7-118).                   *)
THEOREM TypeCorrect == ASSUME DocumentedUse PROVE Spec => []TypeOK
BY QueueInvariant, PTL DEF QueueInv

(* The producer's memcpy and the consumer's memcpy are never in the same    *)
(* buffer at once, for every depth (ddi_queue.c:154 and 179).               *)
THEOREM SlotsDisjoint == ASSUME DocumentedUse PROVE Spec => []NoSlotOverlap
<1>1. QueueInv => NoSlotOverlap
  BY NextSlotIsFree DEF QueueInv, NoSlotOverlap, ProducerView, ConsumerView
<1> QED BY <1>1, QueueInvariant, PTL

(* count never passes depth and agrees with the two indices.                *)
THEOREM CountersAgree == ASSUME DocumentedUse PROVE Spec => []WordConsistent
BY QueueInvariant, PTL DEF QueueInv

----------------------------------------------------------------------------
(* The ring implements the bounded FIFO: the exchange of an enqueue        *)
(* appends the sender's message, the exchange of a dequeue removes the     *)
(* oldest one, every other step leaves the buffered messages as they are.  *)

Content == Msgs \cup {NoMsg}

(* The slot of the i-th oldest message.                                    *)
LEMMA SlotOf ==
  ASSUME WordConsistent, NEW i \in 1 .. q.count
  PROVE  /\ (q.idx_out + i - 1) % Depth =
              IF q.idx_out + i - 1 < Depth THEN q.idx_out + i - 1
              ELSE (q.idx_out + i - 1) - Depth
         /\ (q.idx_out + i - 1) % Depth \in Index
<1> DEFINE j == q.idx_out + i - 1
<1>1. j \in 0 .. 2 * Depth - 1
  BY DepthAssumption DEF WordConsistent, Index
<1> HIDE DEF j
<1>2. j % Depth = IF j < Depth THEN j ELSE j - Depth
  BY <1>1, ModWrap
<1>3. j % Depth \in Index
  BY <1>1, <1>2, DepthAssumption DEF Index
<1> QED BY <1>2, <1>3 DEF j

(* The buffered messages are a sequence of count messages.                 *)
ContentsAreSlots ==
  /\ Contents \in Seq(Content)
  /\ Len(Contents) = q.count
  /\ \A i \in 1 .. q.count : Contents[i] = slots[(q.idx_out + i - 1) % Depth]

LEMMA ContentsSeq == QueueInv => ContentsAreSlots
<1> SUFFICES ASSUME TypeOK, WordConsistent PROVE ContentsAreSlots
  BY DEF QueueInv
<1>1. q.count \in Nat
  BY DepthAssumption DEF WordConsistent
<1>2. \A i \in 1 .. q.count : slots[(q.idx_out + i - 1) % Depth] \in Content
  BY SlotOf DEF TypeOK, Content
<1>3. Contents \in [1 .. q.count -> Content]
  BY <1>2 DEF Contents
<1>4. Contents \in Seq(Content)
  BY <1>1, <1>3, SeqDef
<1>5. Len(Contents) = q.count
  BY <1>1, <1>3, <1>4, LenProperties
<1> QED BY <1>4, <1>5 DEF Contents, ContentsAreSlots

(* Filling the producer's slot does not disturb the buffered messages.     *)
LEMMA WriteKeepsContents ==
  ASSUME QueueInv, NEW p \in Producers, WriteSlot(p)
  PROVE  Contents' = Contents
<1>1. /\ q' = q
      /\ slots' = [slots EXCEPT ![q.idx_in] = msg[p]]
      /\ q.count < Depth
  <2>1. idx[p] = q.idx_in /\ ~Full
    BY DEF WriteSlot, QueueInv, ProducerView
  <2>2. q.count < Depth
    BY <2>1, DepthAssumption DEF QueueInv, WordConsistent, Full
  <2> QED BY <2>1, <2>2 DEF WriteSlot
<1>2. \A i \in 1 .. q.count : (q.idx_out + i - 1) % Depth # q.idx_in
  <2> SUFFICES ASSUME NEW i \in 1 .. q.count
               PROVE  (q.idx_out + i - 1) % Depth # q.idx_in
    OBVIOUS
  <2> DEFINE s == (q.idx_out + i - 1) % Depth
  <2>1. s = IF q.idx_out + i - 1 < Depth THEN q.idx_out + i - 1
            ELSE (q.idx_out + i - 1) - Depth
    BY SlotOf DEF QueueInv
  <2> HIDE DEF s
  <2>2. s # q.idx_in
    BY <2>1, <1>1, DepthAssumption DEF QueueInv, WordConsistent, Index
  <2> QED BY <2>2 DEF s
<1>3. \A i \in 1 .. q.count :
        slots'[(q.idx_out + i - 1) % Depth] = slots[(q.idx_out + i - 1) % Depth]
  <2> SUFFICES ASSUME NEW i \in 1 .. q.count, NEW s, s = (q.idx_out + i - 1) % Depth
               PROVE  slots'[s] = slots[s]
    OBVIOUS
  <2>1. s \in Index /\ s # q.idx_in
    BY <1>2, SlotOf, Zenon DEF QueueInv
  <2> QED BY <2>1, <1>1 DEF QueueInv, TypeOK
<1> QED BY <1>1, <1>3 DEF Contents

(* Publishing a filled slot appends its message.                           *)
LEMMA ExchangeAppends ==
  ASSUME QueueInv, DocumentedUse, QueueInv', NEW p \in Producers, EnqExchange(p)
  PROVE  Contents' = Append(Contents, msg[p])
<1>1. /\ ~Full /\ q' = Enqueued(q) /\ slots' = slots
      /\ slots[q.idx_in] = msg[p] /\ msg[p] \in Content
  BY DEF EnqExchange, QueueInv, ProducerView, Content
<1>2. q'.idx_out = q.idx_out /\ q'.count = q.count + 1 /\ q.count \in Nat
  BY <1>1, EnqueuedWord, DepthAssumption DEF QueueInv, WordConsistent
<1>3. /\ Contents \in Seq(Content) /\ Len(Contents) = q.count
      /\ \A i \in 1 .. q.count : Contents[i] = slots[(q.idx_out + i - 1) % Depth]
  BY ContentsSeq DEF ContentsAreSlots
<1>4. /\ Contents' \in Seq(Content) /\ Len(Contents') = q.count + 1
      /\ \A i \in 1 .. q.count + 1 : Contents'[i] = slots[(q.idx_out + i - 1) % Depth]
  <2>1. ContentsAreSlots'
    BY ContentsSeq, PTL
  <2> QED BY <2>1, <1>1, <1>2 DEF ContentsAreSlots
<1>5. (q.idx_out + q.count) % Depth = q.idx_in
  <2> DEFINE j == q.idx_out + q.count
  <2>1. /\ j \in 0 .. 2 * Depth - 1
        /\ q.idx_in \in 0 .. Depth - 1
        /\ q.idx_in = j \/ q.idx_in = j - Depth
    BY <1>1, DepthAssumption DEF QueueInv, WordConsistent, Index, Full
  <2> HIDE DEF j
  <2>2. j % Depth = IF j < Depth THEN j ELSE j - Depth
    BY <2>1, ModWrap
  <2>3. (IF j < Depth THEN j ELSE j - Depth) = q.idx_in
    BY <2>1, DepthAssumption
  <2> QED BY <2>2, <2>3 DEF j
<1>6. Contents'[q.count + 1] = msg[p]
  <2>1. q.idx_out + (q.count + 1) - 1 = q.idx_out + q.count
    BY <1>2, DepthAssumption DEF QueueInv, WordConsistent, Index
  <2> QED BY <1>1, <1>2, <1>4, <1>5, <2>1
<1>7. /\ Append(Contents, msg[p]) \in Seq(Content)
      /\ Len(Append(Contents, msg[p])) = q.count + 1
      /\ \A i \in 1 .. q.count : Append(Contents, msg[p])[i] = Contents[i]
      /\ Append(Contents, msg[p])[q.count + 1] = msg[p]
  BY <1>1, <1>3, AppendProperties
<1>8. \A i \in 1 .. q.count + 1 : Contents'[i] = Append(Contents, msg[p])[i]
  BY <1>2, <1>3, <1>4, <1>6, <1>7
<1> QED BY <1>4, <1>7, <1>8, SeqEqual

(* Releasing the consumer's slot removes the oldest message.               *)
LEMMA ExchangeRemoves ==
  ASSUME QueueInv, QueueInv', NEW c \in Consumers, DeqExchange(c)
  PROVE  /\ Contents # <<>>
         /\ msg[c] \in {Head(Contents), NoMsg}
         /\ Contents' = Tail(Contents)
<1>1. /\ ~Empty /\ q' = Dequeued(q) /\ slots' = slots
      /\ msg[c] \in {slots[q.idx_out], NoMsg}
  BY DEF DeqExchange, QueueInv, ConsumerView
<1>2. /\ q'.idx_out = IF q.idx_out + 1 < Depth THEN q.idx_out + 1 ELSE 0
      /\ q'.count = q.count - 1 /\ q.count \in 1 .. Depth
      /\ q.idx_out \in 0 .. Depth - 1
  BY <1>1, DequeuedWord, DepthAssumption DEF QueueInv, WordConsistent, Empty, Index
<1>3. /\ Contents \in Seq(Content) /\ Len(Contents) = q.count
      /\ \A i \in 1 .. q.count : Contents[i] = slots[(q.idx_out + i - 1) % Depth]
  BY ContentsSeq DEF ContentsAreSlots
<1>4. /\ Contents' \in Seq(Content) /\ Len(Contents') = q.count - 1
      /\ \A i \in 1 .. q.count - 1 : Contents'[i] = slots[(q'.idx_out + i - 1) % Depth]
  <2>1. ContentsAreSlots'
    BY ContentsSeq, PTL
  <2> QED BY <2>1, <1>1, <1>2 DEF ContentsAreSlots
<1>5. Contents # <<>>
  BY <1>2, <1>3, EmptySeq
<1>6. Head(Contents) = slots[q.idx_out]
  <2> DEFINE j == q.idx_out + 1 - 1
  <2>1. j \in 0 .. 2 * Depth - 1 /\ j < Depth /\ j = q.idx_out
    BY <1>2, DepthAssumption
  <2> HIDE DEF j
  <2>2. j % Depth = q.idx_out
    BY <2>1, ModWrap
  <2>3. Contents[1] = slots[j % Depth]
    BY <1>2, <1>3 DEF j
  <2> QED BY <2>2, <2>3, <1>3, <1>5
<1>7. /\ Tail(Contents) \in Seq(Content)
      /\ Len(Tail(Contents)) = q.count - 1
      /\ \A i \in 1 .. q.count - 1 : Tail(Contents)[i] = Contents[i + 1]
  BY <1>3, <1>5, HeadTailProperties
<1>8. \A i \in 1 .. q.count - 1 : Contents'[i] = Tail(Contents)[i]
  <2> SUFFICES ASSUME NEW i \in 1 .. q.count - 1
               PROVE  Contents'[i] = Tail(Contents)[i]
    OBVIOUS
  <2> DEFINE j == q.idx_out + (i + 1) - 1
             k == q'.idx_out + i - 1
  <2>1. /\ j \in 0 .. 2 * Depth - 1 /\ k \in 0 .. 2 * Depth - 1
        /\ (IF j < Depth THEN j ELSE j - Depth) = (IF k < Depth THEN k ELSE k - Depth)
    BY <1>2, DepthAssumption
  <2> HIDE DEF j, k
  <2>2. j % Depth = k % Depth
    BY <2>1, ModWrap
  <2>3. Contents'[i] = slots[k % Depth]
    BY <1>4 DEF k
  <2>4. i + 1 \in 1 .. q.count
    BY <1>2
  <2>5. Contents[i + 1] = slots[j % Depth]
    BY <1>3, <2>4, Zenon DEF j
  <2> QED BY <1>7, <2>2, <2>3, <2>5
<1> QED BY <1>1, <1>4, <1>5, <1>6, <1>7, <1>8, SeqEqual

(* ddi_queue_init leaves an empty buffer.                                  *)
LEMMA InitFifo == Init => Fifo!Init
<1> SUFFICES ASSUME Init PROVE Fifo!Init
  OBVIOUS
<1>1. q.count = 0
  BY DEF Init, QueueInit
<1>2. ContentsAreSlots
  BY InitInv, ContentsSeq
<1>3. Contents = <<>>
  BY <1>1, <1>2, EmptySeq, SeqEqual DEF ContentsAreSlots
<1> QED BY <1>3 DEF Fifo!Init, Init

(* Every step of the queue is a step of the FIFO or leaves it alone.       *)
LEMMA StepFifo ==
  ASSUME QueueInv, QueueInv', DocumentedUse, [Next]_vars
  PROVE  [Fifo!Next]_Fifo!vars
<1>1. ASSUME NEW p \in Producers, EnqExchange(p)
      PROVE  Fifo!Next
  <2>1. Contents' = Append(Contents, msg[p])
    BY <1>1, ExchangeAppends
  <2>2. Len(Contents) < Depth /\ msg[p] \in Msgs
    BY <1>1, ContentsSeq, DepthAssumption
    DEF ContentsAreSlots, QueueInv, ProducerView, WordConsistent, EnqExchange, Full
  <2>3. accepted' = msg[p] /\ taken' = taken
    BY <1>1 DEF EnqExchange
  <2> QED BY <2>1, <2>2, <2>3 DEF Fifo!Next, Fifo!Enqueue
<1>2. ASSUME NEW c \in Consumers, DeqExchange(c)
      PROVE  Fifo!Next
  <2>1. taken' = msg[c] /\ accepted' = accepted
    BY <1>2 DEF DeqExchange
  <2> QED BY <1>2, <2>1, ExchangeRemoves DEF Fifo!Next, Fifo!Dequeue
<1>3. ASSUME NEW p \in Producers, WriteSlot(p)
      PROVE  UNCHANGED Fifo!vars
  BY <1>3, WriteKeepsContents DEF Fifo!vars, WriteSlot
<1>4. ASSUME UNCHANGED <<q, slots, accepted, taken>>
      PROVE  UNCHANGED Fifo!vars
  BY <1>4 DEF Fifo!vars, Contents
<1>5. ASSUME NEW p \in Producers,
             InFull(p) \/ InIndex(p) \/ EnqFull(p) \/ EnqLoad(p) \/ EnqRetry(p)
      PROVE  UNCHANGED Fifo!vars
  BY <1>4, <1>5 DEF InFull, InIndex, EnqFull, EnqLoad, EnqRetry
<1>6. ASSUME NEW c \in Consumers,
             \/ OutEmpty(c) \/ OutIndex(c) \/ ReadSlot(c)
             \/ DeqEmpty(c) \/ DeqLoad(c) \/ DeqRetry(c)
      PROVE  UNCHANGED Fifo!vars
  BY <1>4, <1>6 DEF OutEmpty, OutIndex, ReadSlot, DeqEmpty, DeqLoad, DeqRetry
<1>7. ASSUME \/ \E p \in Producers, m \in Msgs : CallEnqueue(p, m)
             \/ \E c \in Consumers, want \in BOOLEAN : CallDequeue(c, want)
             \/ \E t \in Threads : Resume(t)
      PROVE  UNCHANGED Fifo!vars
  BY <1>4, <1>7 DEF CallEnqueue, CallDequeue, Resume
<1>8. CASE UNCHANGED vars
  BY <1>4, <1>8 DEF vars
<1> QED BY <1>1, <1>2, <1>3, <1>5, <1>6, <1>7, <1>8
        DEF Next, EnqueueStep, DequeueStep

(* One producer and one consumer see a bounded FIFO: nothing lost, nothing *)
(* handed out twice, nothing out of order, for every depth 1..255 and every *)
(* set of messages.                                                        *)
THEOREM QueueImplementsFifo == ASSUME DocumentedUse PROVE Spec => ImplementsFifo
<1>1. QueueInv /\ QueueInv' /\ [Next]_vars => [Fifo!Next]_Fifo!vars
  BY StepFifo
<1> QED BY <1>1, InitFifo, QueueInvariant, PTL DEF Spec, ImplementsFifo, Fifo!Spec

(* What is buffered was sent: the oldest slot holds a message whenever     *)
(* count says that there is one, so that a dequeue that sees it hands out  *)
(* a message.                                                              *)
OldestIsMessage == q.count > 0 => slots[q.idx_out] \in Msgs

THEOREM OldestWasSent == ASSUME DocumentedUse PROVE Spec => []OldestIsMessage
<1>1. Fifo!Init => Contents \in Seq(Msgs)
  BY DEF Fifo!Init
<1>2. Contents \in Seq(Msgs) /\ [Fifo!Next]_Fifo!vars => (Contents \in Seq(Msgs))'
  <2> SUFFICES ASSUME Contents \in Seq(Msgs), [Fifo!Next]_Fifo!vars
               PROVE  Contents' \in Seq(Msgs)
    OBVIOUS
  <2>1. ASSUME NEW m \in Msgs, Fifo!Enqueue(m) PROVE Contents' \in Seq(Msgs)
    BY <2>1, AppendProperties DEF Fifo!Enqueue
  <2>2. CASE Fifo!Dequeue
    BY <2>2, HeadTailProperties DEF Fifo!Dequeue
  <2>3. CASE UNCHANGED Fifo!vars
    BY <2>3 DEF Fifo!vars
  <2> QED BY <2>1, <2>2, <2>3 DEF Fifo!Next
<1>3. Spec => [](Contents \in Seq(Msgs))
  BY <1>1, <1>2, QueueImplementsFifo, PTL DEF ImplementsFifo, Fifo!Spec
<1>4. QueueInv /\ Contents \in Seq(Msgs) => OldestIsMessage
  <2> SUFFICES ASSUME QueueInv, Contents \in Seq(Msgs), q.count > 0
               PROVE  slots[q.idx_out] \in Msgs
    BY DEF OldestIsMessage
  <2>1. /\ Len(Contents) = q.count /\ q.count \in 1 .. Depth /\ q.idx_out \in 0 .. Depth - 1
        /\ \A i \in 1 .. q.count : Contents[i] = slots[(q.idx_out + i - 1) % Depth]
    BY ContentsSeq, DepthAssumption DEF ContentsAreSlots, QueueInv, WordConsistent, Index
  <2>2. Contents[1] \in Msgs
    BY <2>1, ElementOfSeq
  <2> DEFINE j == q.idx_out + 1 - 1
  <2>3. j \in 0 .. 2 * Depth - 1 /\ j < Depth /\ j = q.idx_out
    BY <2>1, DepthAssumption
  <2>4. Contents[1] = slots[j % Depth]
    BY <2>1
  <2> HIDE DEF j
  <2>5. j % Depth = q.idx_out
    BY <2>3, ModWrap
  <2> QED BY <2>2, <2>4, <2>5
<1> QED BY <1>3, <1>4, QueueInvariant, PTL
=============================================================================
