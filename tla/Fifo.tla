-------------------------------- MODULE Fifo --------------------------------
(***************************************************************************)
(* What Queue.h promises its callers: a bounded first-in first-out buffer  *)
(* whose calls say whether they succeeded, 1, or not, -1.                  *)
(***************************************************************************)
EXTENDS Integers, Sequences

CONSTANTS Capacity, Bytes

VARIABLES items, call, ret, out

Ok     == 1
Failed == -1

Init == items = <<>> /\ call = "reinit" /\ ret = Ok /\ out \in Bytes

(* queue_enqueue: 1 if the data is added, -1 if the buffer is full.        *)
Put(b) ==
  /\ call' = "enqueue"
  /\ \/ /\ Len(items) < Capacity
        /\ items' = Append(items, b)
        /\ ret' = Ok
        /\ UNCHANGED out
     \/ /\ Len(items) = Capacity
        /\ ret' = Failed
        /\ UNCHANGED <<items, out>>

(* queue_dequeue: 1 and the oldest byte, or -1 if the buffer is empty.     *)
Get ==
  /\ call' = "dequeue"
  /\ \/ /\ items # <<>>
        /\ items' = Tail(items)
        /\ out' = Head(items)
        /\ ret' = Ok
     \/ /\ items = <<>>
        /\ ret' = Failed
        /\ UNCHANGED <<items, out>>

Clear == items' = <<>> /\ call' = "reinit" /\ ret' = Ok /\ UNCHANGED out

Next == Get \/ Clear \/ \E b \in Bytes : Put(b)

Spec == Init /\ [][Next]_<<items, call, ret, out>>
=============================================================================
