------------------------------- MODULE Queue --------------------------------
(***************************************************************************)
(* The ring buffer of the meter's serial ports: one slot stays free, head  *)
(* is the slot of the byte read last, tail that of the byte written last.  *)
(* Each call is one step here, as its __monitor qualifier asks; PlcUart    *)
(* takes the calls apart.                                                  *)
(***************************************************************************)
EXTENDS Integers

CONSTANTS Max_Buff_Length, Bytes

ASSUME RingHasRoom ==
  /\ Max_Buff_Length \in 2 .. 256    \* the indices are of type uint8_t
  /\ 0 \in Bytes

VARIABLES
  buffer, head, tail,
  call,                 \* the last call
  ret,                  \* what it returned
  out                   \* where the last queue_dequeue put its byte

qvars == <<buffer, head, tail, call, ret, out>>

Slots == 0 .. Max_Buff_Length - 1

Wrap(i) == IF i >= Max_Buff_Length THEN 0 ELSE i

(* Faulty variant: the free slot is used too, and full looks like empty.  *)
FullOneLate == IF head < tail THEN tail - head = Max_Buff_Length ELSE tail = head

queue_isEmpty == head = tail
queue_isFull  == IF head < tail THEN tail - head = Max_Buff_Length - 1
                                ELSE tail = head - 1

-----------------------------------------------------------------------------
QueueInit ==
  /\ buffer = [s \in Slots |-> 0]
  /\ head = 0 /\ tail = 0
  /\ call = "reinit" /\ ret = 1 /\ out \in Bytes

queue_reinit ==
  /\ head' = 0 /\ tail' = 0
  /\ call' = "reinit" /\ ret' = 1
  /\ UNCHANGED <<buffer, out>>

queue_enqueue(b) ==
  /\ call' = "enqueue"
  /\ \/ /\ ~queue_isFull
        /\ tail' = Wrap(tail + 1)
        /\ buffer' = [buffer EXCEPT ![tail'] = b]
        /\ ret' = 1
        /\ UNCHANGED <<head, out>>
     \/ /\ queue_isFull
        /\ ret' = -1
        /\ UNCHANGED <<buffer, head, tail, out>>

queue_dequeue ==
  /\ call' = "dequeue"
  /\ \/ /\ ~queue_isEmpty
        /\ head' = Wrap(head + 1)
        /\ out' = buffer[head']
        /\ ret' = 1
        /\ UNCHANGED <<buffer, tail>>
     \/ /\ queue_isEmpty
        /\ ret' = -1
        /\ UNCHANGED <<buffer, head, tail, out>>

QueueNext == queue_reinit \/ queue_dequeue \/ \E b \in Bytes : queue_enqueue(b)

QueueSpec == QueueInit /\ [][QueueNext]_qvars

-----------------------------------------------------------------------------
(* The bytes between a head h and a tail t, oldest first.                 *)
Count(h, t)  == IF t >= h THEN t - h ELSE t - h + Max_Buff_Length
SlotOf(h, i) == IF h + i < Max_Buff_Length THEN h + i ELSE h + i - Max_Buff_Length
Contents(buf, h, t) == [i \in 1 .. Count(h, t) |-> buf[SlotOf(h, i)]]

(* The indices stay inside the buffer.                                    *)
QueueTypeOK ==
  /\ buffer \in [Slots -> Bytes]
  /\ head \in Slots /\ tail \in Slots
  /\ call \in {"reinit", "enqueue", "dequeue"}
  /\ ret \in {1, -1} /\ out \in Bytes

(* The ring implements a bounded FIFO of Max_Buff_Length - 1 bytes: order *)
(* is kept over the wrap-around, -1 is returned only when the buffer is   *)
(* full (or empty), and nothing is overwritten.                           *)
F == INSTANCE Fifo WITH items <- Contents(buffer, head, tail),
                       Capacity <- Max_Buff_Length - 1
ImplementsFifo == F!Spec
=============================================================================
