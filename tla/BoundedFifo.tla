----------------------------- MODULE BoundedFifo -----------------------------
(***************************************************************************)
(* What a ddi message queue promises its two clients: a bounded first-in   *)
(* first-out buffer.  accepted is the message of the last successful       *)
(* enqueue, taken what the last successful dequeue handed to its caller:   *)
(* the oldest message, or NoMsg when the caller gave no buffer for it.     *)
(***************************************************************************)
EXTENDS Naturals, Sequences

CONSTANTS
  Depth,   \* the number of queue elements
  Msgs,    \* the messages
  NoMsg    \* "nothing": not a message

VARIABLES fifo, accepted, taken

vars == <<fifo, accepted, taken>>

Init ==
  /\ fifo = <<>>
  /\ accepted = NoMsg
  /\ taken = NoMsg

Enqueue(m) ==
  /\ Len(fifo) < Depth
  /\ fifo' = Append(fifo, m)
  /\ accepted' = m
  /\ UNCHANGED taken

Dequeue ==
  /\ fifo # <<>>
  /\ taken' \in {Head(fifo), NoMsg}
  /\ fifo' = Tail(fifo)
  /\ UNCHANGED accepted

Next == (\E m \in Msgs : Enqueue(m)) \/ Dequeue

Spec == Init /\ [][Next]_vars
=============================================================================
