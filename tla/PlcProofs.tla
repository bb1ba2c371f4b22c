------------------------------ MODULE PlcProofs ------------------------------
(***************************************************************************)
(* Proofs about the power line parts.                                      *)
(*                                                                         *)
(* PlcUart: for every buffer length, any frames and any interleaving of    *)
(* the main program with the interrupts, the bytes that the ring accepts   *)
(* leave the UART in their order.                                          *)
(*                                                                         *)
(* WireInOrder is not inductive: what leaves next depends on what is in    *)
(* the UART, in the main program's hands and in the ring.  WireInv says    *)
(* where the bytes between the last one sent and the last one accepted     *)
(* are (RingInv, FetchInv), and that the main program and the interrupt    *)
(* handler never feed the UART at the same time (SilentInv).               *)
(*                                                                         *)
(* PlcSession: an attachment to the network is watched over.               *)
(*                                                                         *)
(* PlcReceiver: the frames that are handled are whole and in their order.  *)
(* The steps know of a frame only by the bytes stored: ArrivedInv says     *)
(* that no byte is stored that the modem has not sent, and HandledInv that *)
(* nothing the modem sends now can be taken for a frame handled before.    *)
(***************************************************************************)
EXTENDS PlcUart, PlcSession, PlcReceiver, SequenceTheorems, TLAPS

-----------------------------------------------------------------------------
(* The ring.                                                               *)

\* Wrapping twice is wrapping once.
LEMMA WrapProperties ==
  ASSUME NEW i \in 0 .. Max_Buff_Length
  PROVE  /\ Q!Wrap(i) \in Q!Slots /\ Q!Wrap(Q!Wrap(i)) = Q!Wrap(i)
         /\ i # Max_Buff_Length => Q!Wrap(i) = i /\ i \in Q!Slots /\ i + 1 \in 0 .. Max_Buff_Length
BY UartAssumption DEF Q!Wrap, Q!Slots

\* A byte more in a ring that is not full lies behind all the others.
LEMMA CountGrows ==
  ASSUME NEW h \in Q!Slots, NEW t \in Q!Slots, Q!Count(h, t) # Max_Buff_Length - 1
  PROVE  /\ Q!Count(h, Q!Wrap(t + 1)) = Q!Count(h, t) + 1
         /\ Q!SlotOf(h, Q!Count(h, t) + 1) = Q!Wrap(t + 1)
         /\ \A i \in 1 .. Q!Count(h, t) :
              Q!SlotOf(h, i) \in Q!Slots /\ Q!SlotOf(h, i) # Q!Wrap(t + 1)
<1>1. Q!Count(h, t) \in 0 .. Max_Buff_Length - 2
  BY UartAssumption DEF Q!Slots, Q!Count
<1>2. Q!Count(h, Q!Wrap(t + 1)) = Q!Count(h, t) + 1
  BY <1>1, UartAssumption DEF Q!Slots, Q!Count, Q!Wrap
<1>3. Q!SlotOf(h, Q!Count(h, t) + 1) = Q!Wrap(t + 1)
  BY <1>1, UartAssumption DEF Q!Slots, Q!Count, Q!Wrap, Q!SlotOf
<1>4. \A i \in 1 .. Q!Count(h, t) : Q!SlotOf(h, i) \in Q!Slots /\ Q!SlotOf(h, i) # Q!Wrap(t + 1)
  BY <1>1, UartAssumption DEF Q!Slots, Q!Count, Q!Wrap, Q!SlotOf
<1>. QED  BY <1>2, <1>3, <1>4

\* A byte less: the others move up, the first one was behind the head.
LEMMA CountShrinks ==
  ASSUME NEW h \in Q!Slots, NEW t \in Q!Slots, Q!Count(h, t) # 0
  PROVE  /\ Q!Count(Q!Wrap(h + 1), t) = Q!Count(h, t) - 1
         /\ Q!SlotOf(h, 1) = Q!Wrap(h + 1)
         /\ \A i \in 1 .. Q!Count(h, t) - 1 : Q!SlotOf(Q!Wrap(h + 1), i) = Q!SlotOf(h, i + 1)
<1>1. Q!Count(h, t) \in 1 .. Max_Buff_Length - 1
  BY UartAssumption DEF Q!Slots, Q!Count
<1>2. Q!Count(Q!Wrap(h + 1), t) = Q!Count(h, t) - 1
  BY <1>1, UartAssumption DEF Q!Slots, Q!Count, Q!Wrap
<1>3. Q!SlotOf(h, 1) = Q!Wrap(h + 1)
  BY UartAssumption DEF Q!Slots, Q!Wrap, Q!SlotOf
<1>4. \A i \in 1 .. Q!Count(h, t) - 1 : Q!SlotOf(Q!Wrap(h + 1), i) = Q!SlotOf(h, i + 1)
  BY <1>1, UartAssumption DEF Q!Slots, Q!Wrap, Q!SlotOf
<1>. QED  BY <1>2, <1>3, <1>4

-----------------------------------------------------------------------------
(* Types.                                                                  *)

\* A frame is added only if all of its bytes are within the bound.
TypeInv == UartTypeOK /\ accepted + left <= MaxBytes

\* The interrupt handler keeps the head inside the buffer.
LEMMA FeedTypes ==
  ASSUME TypeInv, FeedTransmitter
  PROVE  /\ head' \in 0 .. Max_Buff_Length
         /\ head' = Max_Buff_Length => pc = "wrap_head"
         /\ UCTXBUF' \in {Empty} \cup (0 .. MaxBytes)
         /\ Tx_Done' \in {0, 1} /\ raced' \in BOOLEAN
<1> USE UartAssumption DEF TypeInv, UartTypeOK
<1>1. CASE Q!queue_isEmpty
  BY <1>1 DEF FeedTransmitter
<1>2. CASE ~Q!queue_isEmpty
  <2>1. /\ head' = Q!Wrap(head + 1) /\ UCTXBUF' = buffer[head'] /\ Tx_Done' = Tx_Done
        /\ buffer \in [Q!Slots -> 0 .. MaxBytes]
    BY <1>2 DEF FeedTransmitter
  <2>2. raced' \in BOOLEAN
    BY <1>2, Zenon DEF FeedTransmitter
  <2>3. head' \in Q!Slots
    BY <2>1 DEF Q!Wrap, Q!Slots
  <2>4. UCTXBUF' \in 0 .. MaxBytes
    BY <2>1, <2>3
  <2>5. head' \in 0 .. Max_Buff_Length /\ head' # Max_Buff_Length
    BY <2>3 DEF Q!Slots
  <2>6. Tx_Done' \in {0, 1}
    BY <2>1
  <2>7. QED
    BY <2>2, <2>4, <2>5, <2>6, Zenon
<1>3. QED
  BY <1>1, <1>2

\* InitPLCUART leaves every variable with its type.
LEMMA InitTypeInv == UartInit => TypeInv
<1> USE UartAssumption
<1> SUFFICES ASSUME UartInit PROVE TypeInv
  OBVIOUS
<1> USE DEF UartInit, Q!Slots
<1>1. buffer \in [Q!Slots -> 0 .. MaxBytes]
  OBVIOUS
<1>2. /\ head \in 0 .. Max_Buff_Length /\ tail \in 0 .. Max_Buff_Length
      /\ head # Max_Buff_Length /\ tail # Max_Buff_Length
      /\ left \in 0 .. MaxFrame /\ data \in 0 .. MaxBytes
      /\ received \in 0 .. MaxReceived /\ accepted \in 0 .. MaxBytes
      /\ accepted + left <= MaxBytes
  OBVIOUS
<1>3. wire \in Seq(0 .. MaxBytes)
  OBVIOUS
<1>4. QED
  BY <1>1, <1>2, <1>3 DEF TypeInv, UartTypeOK

\* No step of the main program and no interrupt leaves an index behind the buffer.
LEMMA TypeInvStep == TypeInv /\ [UartNext]_uartVars => TypeInv'
<1> USE UartAssumption
<1> SUFFICES ASSUME TypeInv, [UartNext]_uartVars PROVE TypeInv'
  OBVIOUS
<1> USE DEF TypeInv, UartTypeOK, ring, hw, mishaps
<1>1. /\ Max_Buff_Length \in Nat /\ Max_Buff_Length > 1
      /\ MaxBytes \in Nat /\ MaxFrame \in Nat /\ MaxReceived \in Nat
  OBVIOUS
<1>2. CASE StartMessage
  BY <1>1, <1>2 DEF StartMessage
<1>3. CASE QueueIsFull
  BY <1>1, <1>3 DEF QueueIsFull
<1>4. CASE AddtoTXBuffer
  BY <1>1, <1>4 DEF AddtoTXBuffer
<1>5. CASE WrapTail
  BY <1>1, <1>5 DEF WrapTail, Q!Wrap
<1>6. CASE StoreByte
  BY <1>1, <1>6 DEF StoreByte, Q!Slots
<1>7. CASE PLC_Start_SendBuffer
  BY <1>1, <1>7 DEF PLC_Start_SendBuffer
<1>8. CASE ClearTxDone
  BY <1>1, <1>8 DEF ClearTxDone
<1>9. CASE DequeueFirst
  <2>1. /\ pc = "dequeue" /\ pc' \in {"idle", "wrap_head"}
        /\ UNCHANGED <<buffer, tail, UCTXBUF, UCTXIFG, Tx_Done, left, data, received, accepted,
                       wire, raced, mixed>>
    BY <1>9 DEF DequeueFirst
  <2>2. head' = head \/ (head' = head + 1 /\ pc' = "wrap_head")
    BY <1>9 DEF DequeueFirst
  <2>3. stalled' \in BOOLEAN
    BY <1>9 DEF DequeueFirst
  <2>4. QED
    BY <1>1, <2>1, <2>2, <2>3
<1>10. CASE WrapHead
  BY <1>1, <1>10 DEF WrapHead, Q!Wrap
<1>11. CASE FetchByte
  BY <1>1, <1>11 DEF FetchByte, Q!Slots
<1>12. CASE PutFirst
  BY <1>1, <1>12 DEF PutFirst
<1>13. CASE TXInterrupt
  <2>1. UNCHANGED <<buffer, tail, pc, left, data, received, accepted, wire, mixed, stalled>>
        /\ UCTXIFG' = FALSE
    BY <1>13 DEF TXInterrupt
  <2>2. FeedTransmitter
    BY <1>13 DEF TXInterrupt
  <2>3. QED
    BY <1>1, <2>1, <2>2, FeedTypes
<1>14. CASE RXInterrupt
  <2>1. /\ UNCHANGED <<buffer, tail, pc, left, data, accepted, wire, stalled>>
        /\ received' \in 0 .. MaxReceived
    BY <1>1, <1>14 DEF RXInterrupt
  <2>2. mixed' \in BOOLEAN /\ UCTXIFG' \in BOOLEAN
    BY <1>14, Zenon DEF RXInterrupt
  <2>3. FeedTransmitter
    BY <1>14 DEF RXInterrupt
  <2>4. QED
    BY <1>1, <2>1, <2>2, <2>3, FeedTypes
<1>15. CASE ShiftOut
  <2>1. UCTXBUF \in 0 .. MaxBytes /\ wire \in Seq(0 .. MaxBytes)
    BY <1>15 DEF ShiftOut
  <2>2. Append(wire, UCTXBUF) \in Seq(0 .. MaxBytes)
    BY <2>1, AppendProperties, Zenon
  <2>3. wire' \in Seq(0 .. MaxBytes)
    BY <1>15, <2>1, <2>2, Zenon DEF ShiftOut
  <2>4. QED
    BY <1>1, <1>15, <2>3 DEF ShiftOut
<1>16. CASE UNCHANGED uartVars
  BY <1>1, <1>16 DEF uartVars
<1>17. QED
  BY <1>2, <1>3, <1>4, <1>5, <1>6, <1>7, <1>8, <1>9, <1>10, <1>11, <1>12, <1>13, <1>14,
     <1>15, <1>16 DEF UartNext, MainProgram

\* Every variable of the transmitter has its type; only inside a call of the main
\* program is an index behind the buffer, for every buffer length.
THEOREM UartTypeCorrect == UartSpec => []UartTypeOK
<1>1. TypeInv => UartTypeOK
  BY DEF TypeInv
<1>2. QED
  BY <1>1, InitTypeInv, TypeInvStep, PTL DEF UartSpec

-----------------------------------------------------------------------------
\* The slots at which head and tail are, or will be when a call has wrapped them.
HeadSlot == Q!Wrap(head)
TailSlot == Q!Wrap(tail)

Storing  == pc \in {"wrap", "store"}
Fetching == pc \in {"wrap_head", "fetch", "put"}
Starting == pc \in {"clear", "dequeue"} \/ Fetching

\* The bytes that were taken from the ring: those sent, the one in the UART and
\* the one that the main program fetches.
Fetched ==
  Len(wire) + (IF UCTXBUF = Empty THEN 0 ELSE 1) + (IF Fetching THEN 1 ELSE 0)

\* Nobody else feeds the UART while the main program starts a transmission,
\* for it has neither a byte nor an interrupt to ask for.
SilentInv ==
  /\ UCTXIFG => UCTXBUF = Empty
  /\ Tx_Done = 1 \/ Starting => UCTXBUF = Empty /\ ~UCTXIFG
  /\ pc = "dequeue" \/ Fetching => Tx_Done = 0

\* The bytes in the ring are those that were accepted and not fetched, in their
\* order, but for one that is being stored.
RingInv ==
  /\ Q!Count(HeadSlot, TailSlot) = accepted - Fetched
  /\ Storing => Fetched < accepted
  /\ \A i \in 1 .. Q!Count(HeadSlot, TailSlot) :
       Fetched + i < accepted \/ ~Storing => buffer[Q!SlotOf(HeadSlot, i)] = Fetched + i

\* Those that were fetched last are on their way.
FetchInv ==
  /\ UCTXBUF # Empty => UCTXBUF = Len(wire) + 1
  /\ pc \in {"wrap_head", "fetch"} => buffer[HeadSlot] = Fetched
  /\ pc = "put" => data = Fetched

WireInv ==
  mixed \/ /\ \A i \in 1 .. Len(wire) : wire[i] = i
           /\ raced \/ (SilentInv /\ RingInv /\ FetchInv)

\* Where everything is.
LEMMA Places ==
  ASSUME TypeInv
  PROVE  /\ HeadSlot \in Q!Slots /\ TailSlot \in Q!Slots
         /\ pc # "wrap_head" => HeadSlot = head
         /\ pc # "wrap" => TailSlot = tail
         /\ Fetched \in Nat /\ accepted \in Nat /\ Len(wire) \in Nat
         /\ buffer \in [Q!Slots -> 0 .. MaxBytes] /\ data \in 0 .. MaxBytes
         /\ Q!Count(HeadSlot, TailSlot) \in 0 .. Max_Buff_Length - 1
<1> USE DEF TypeInv, UartTypeOK
<1>1. /\ HeadSlot \in Q!Slots /\ TailSlot \in Q!Slots
      /\ pc # "wrap_head" => HeadSlot = head
      /\ pc # "wrap" => TailSlot = tail
  BY WrapProperties DEF HeadSlot, TailSlot
<1>2. Len(wire) \in Nat /\ accepted \in Nat
  BY LenProperties
<1>3. Fetched \in Nat
  <2> DEFINE b == IF UCTXBUF = Empty THEN 0 ELSE 1
             f == IF Fetching THEN 1 ELSE 0
  <2>1. b \in Nat /\ f \in Nat
    OBVIOUS
  <2>2. Fetched = Len(wire) + b + f
    BY Zenon DEF Fetched
  <2> HIDE DEF b, f
  <2>3. QED
    BY <1>2, <2>1, <2>2
<1>4. buffer \in [Q!Slots -> 0 .. MaxBytes] /\ data \in 0 .. MaxBytes
  BY DEF Q!Slots
<1>5. Q!Count(HeadSlot, TailSlot) \in 0 .. Max_Buff_Length - 1
  BY <1>1, UartAssumption DEF Q!Slots, Q!Count
<1>6. QED
  BY <1>1, <1>2, <1>3, <1>4, <1>5

\* A step that moves bytes neither in nor out of the ring keeps it.
LEMMA RingKept ==
  ASSUME RingInv, HeadSlot' = HeadSlot, TailSlot' = TailSlot, buffer' = buffer,
         accepted' = accepted, Fetched' = Fetched, Storing' <=> Storing
  PROVE  RingInv'
BY DEF RingInv

\* The oldest byte of a ring is the one after those that were fetched; taking it
\* leaves the others in their order.
LEMMA RingFetched ==
  ASSUME TypeInv, RingInv, Q!Count(HeadSlot, TailSlot) # 0,
         Storing => Fetched + 1 < accepted,
         HeadSlot' = Q!Wrap(HeadSlot + 1), TailSlot' = TailSlot, buffer' = buffer,
         accepted' = accepted, Fetched' = Fetched + 1, Storing' <=> Storing
  PROVE  RingInv' /\ buffer[HeadSlot'] = Fetched + 1
<1> DEFINE n == Q!Count(HeadSlot, TailSlot)
<1>1. HeadSlot \in Q!Slots /\ TailSlot \in Q!Slots /\ Fetched \in Nat /\ accepted \in Nat
      /\ n \in 0 .. Max_Buff_Length - 1 /\ n # 0
  BY Places
<1>2. /\ Q!Count(HeadSlot', TailSlot') = n - 1 /\ Q!SlotOf(HeadSlot, 1) = HeadSlot'
      /\ \A i \in 1 .. n - 1 : Q!SlotOf(HeadSlot', i) = Q!SlotOf(HeadSlot, i + 1)
  BY <1>1, CountShrinks
<1>3. /\ n = accepted - Fetched
      /\ \A i \in 1 .. n : Fetched + i < accepted \/ ~Storing => buffer[Q!SlotOf(HeadSlot, i)] = Fetched + i
  BY DEF RingInv
<1> HIDE DEF n
<1>4. Q!Count(HeadSlot', TailSlot') = accepted' - Fetched'
  BY <1>1, <1>2, <1>3
<1>5. Storing' => Fetched' < accepted'
  OBVIOUS
<1>6. ASSUME NEW i \in 1 .. n - 1, Fetched' + i < accepted' \/ ~Storing'
      PROVE  buffer'[Q!SlotOf(HeadSlot', i)] = Fetched' + i
  <2>1. i + 1 \in 1 .. n /\ Fetched + (i + 1) = Fetched' + i
    BY <1>1
  <2>2. Fetched + (i + 1) < accepted \/ ~Storing
    BY <1>6, <2>1
  <2>3. buffer[Q!SlotOf(HeadSlot, i + 1)] = Fetched + (i + 1)
    BY <1>3, <2>1, <2>2
  <2>4. QED
    BY <1>2, <2>1, <2>3
<1>7. buffer[HeadSlot'] = Fetched + 1
  <2>1. 1 \in 1 .. n
    BY <1>1, UartAssumption
  <2>2. QED
    BY <1>2, <1>3, <2>1
<1>8. QED
  BY <1>2, <1>4, <1>5, <1>6, <1>7 DEF RingInv

\* What a step may take for granted while neither mishap has happened.
Sane == TypeInv /\ SilentInv /\ RingInv /\ FetchInv

\* Steps of the main program between its calls move nothing.
LEMMA QuietStep ==
  ASSUME Sane, ~Storing, ~Fetching, ~Storing', ~Fetching',
         UNCHANGED <<buffer, head, tail, UCTXBUF, accepted, wire>>
  PROVE  RingInv' /\ FetchInv'
<1>1. HeadSlot' = HeadSlot /\ TailSlot' = TailSlot
  BY DEF HeadSlot, TailSlot
<1>2. Fetched' = Fetched
  BY Zenon DEF Fetched
<1>3. RingInv'
  BY <1>1, <1>2, RingKept, Zenon DEF Sane
<1>4. FetchInv'
  BY DEF Sane, FetchInv, Fetching
<1>5. QED
  BY <1>3, <1>4

\* A byte from the modem moves nothing while the line is idle.
LEMMA IdleReceives ==
  ASSUME TypeInv, ~mixed', RXInterrupt
  PROVE  /\ ~mixed
         /\ UNCHANGED <<buffer, head, tail, UCTXBUF, UCTXIFG, Tx_Done, pc, data, accepted, wire, raced>>
<1>1. ~mixed /\ LineIsIdle
  BY Zenon DEF RXInterrupt
<1>2. Q!queue_isEmpty /\ FeedTransmitter /\ Tx_Done = 1
      /\ UNCHANGED <<buffer, tail, pc, data, accepted, wire>>
  BY <1>1 DEF RXInterrupt, LineIsIdle
<1>3. Tx_Done' = 1 /\ UNCHANGED <<head, UCTXBUF, raced>>
  BY <1>2 DEF FeedTransmitter
<1>4. UCTXIFG' = FALSE /\ UCTXIFG = FALSE
  <2>1. UCTXIFG \in BOOLEAN /\ ~UCTXIFG
    BY <1>1, Zenon DEF TypeInv, UartTypeOK, LineIsIdle
  <2>2. UCTXIFG' = (UCTXIFG /\ Q!queue_isEmpty)
    BY DEF RXInterrupt
  <2>3. QED
    BY <2>1, <2>2, Zenon
<1>5. QED
  BY <1>1, <1>2, <1>3, <1>4, Zenon

\* The main program and the interrupts take turns at the UART.
LEMMA SilentStep ==
  ASSUME Sane, ~mixed', [UartNext]_uartVars
  PROVE  SilentInv'
<1> USE DEF Sane, SilentInv, Starting, Fetching, ring, hw, mishaps
<1>1. CASE StartMessage
  BY <1>1 DEF StartMessage
<1>2. CASE QueueIsFull
  BY <1>2 DEF QueueIsFull
<1>3. CASE AddtoTXBuffer
  BY <1>3 DEF AddtoTXBuffer
<1>4. CASE WrapTail
  BY <1>4 DEF WrapTail
<1>5. CASE StoreByte
  BY <1>5 DEF StoreByte
<1>6. CASE PLC_Start_SendBuffer
  BY <1>6 DEF PLC_Start_SendBuffer
<1>7. CASE ClearTxDone
  BY <1>7 DEF ClearTxDone
<1>8. CASE DequeueFirst
  BY <1>8 DEF DequeueFirst
<1>9. CASE WrapHead
  BY <1>9 DEF WrapHead
<1>10. CASE FetchByte
  BY <1>10 DEF FetchByte
<1>11. CASE PutFirst
  BY <1>11 DEF PutFirst
<1>12. CASE TXInterrupt
  BY <1>12 DEF TXInterrupt, FeedTransmitter
<1>13. CASE RXInterrupt
  BY <1>13, IdleReceives
<1>14. CASE ShiftOut
  BY <1>14 DEF ShiftOut
<1>15. CASE UNCHANGED uartVars
  BY <1>15 DEF uartVars
<1>16. QED
  BY <1>1, <1>2, <1>3, <1>4, <1>5, <1>6, <1>7, <1>8, <1>9, <1>10, <1>11, <1>12, <1>13,
     <1>14, <1>15 DEF UartNext, MainProgram

\* The handler fetches the byte after those that were fetched, unless it is the
\* one that the main program is storing.
LEMMA InterruptFetches ==
  ASSUME Sane, ~raced', TXInterrupt
  PROVE  RingInv' /\ FetchInv'
<1>1. /\ UNCHANGED <<buffer, tail, pc, data, accepted, wire>>
      /\ UCTXIFG /\ FeedTransmitter
  BY DEF TXInterrupt
<1>2. ~Starting /\ UCTXBUF = Empty
  BY <1>1, Zenon DEF Sane, SilentInv
<1>3. CASE Q!queue_isEmpty
  <2>1. UNCHANGED <<head, UCTXBUF>>
    BY <1>1, <1>3 DEF FeedTransmitter
  <2>2. HeadSlot' = HeadSlot /\ TailSlot' = TailSlot /\ Fetched' = Fetched
        /\ (Storing' <=> Storing)
    BY <1>1, <2>1 DEF HeadSlot, TailSlot, Fetched, Fetching, Storing
  <2>3. RingInv'
    BY <1>1, <2>2, RingKept, Zenon DEF Sane
  <2>4. FetchInv'
    BY <1>1, <1>2, <2>1 DEF Sane, FetchInv, Starting, Fetching
  <2>5. QED
    BY <2>3, <2>4
<1>4. CASE ~Q!queue_isEmpty
  <2> DEFINE n == Q!Count(HeadSlot, TailSlot)
  <2>1. /\ head' = Q!Wrap(head + 1) /\ UCTXBUF' = buffer[head'] /\ head # tail
        /\ ~(pc \in {"wrap", "store"} /\ head' = Q!Wrap(tail))
    BY <1>1, <1>4 DEF FeedTransmitter, Q!queue_isEmpty
  <2>2. /\ head \in 0 .. Max_Buff_Length /\ tail \in 0 .. Max_Buff_Length
        /\ head # Max_Buff_Length
    BY <1>2 DEF Sane, TypeInv, UartTypeOK, Starting, Fetching
  <2>3. /\ HeadSlot = head /\ head' = Q!Wrap(head + 1) /\ HeadSlot' = Q!Wrap(head + 1)
        /\ TailSlot' = TailSlot
    BY <1>1, <2>1, <2>2, WrapProperties, UartAssumption DEF HeadSlot, TailSlot
  <2>4. /\ head \in Q!Slots /\ TailSlot \in Q!Slots /\ Fetched \in Nat /\ accepted \in Nat
        /\ Len(wire) \in Nat
        /\ n \in 0 .. Max_Buff_Length - 1 /\ buffer \in [Q!Slots -> 0 .. MaxBytes]
    BY <2>3, Places DEF Sane
  <2>5. n = accepted - Fetched /\ (Storing => Fetched < accepted)
    BY DEF Sane, RingInv
  <2>6. n # 0
    <3>1. CASE Storing
      <4> HIDE DEF n
      <4>1. QED
        BY <2>4, <2>5, <3>1
    <3>2. CASE ~Storing
      <4>1. TailSlot = tail
        BY <3>2, Places DEF Sane, Storing
      <4>2. QED
        BY <2>1, <2>3, <2>4, <4>1, UartAssumption DEF Q!Count, Q!Slots
    <3>3. QED
      BY <3>1, <3>2
  <2>7. Storing => n # 1
    <3> SUFFICES ASSUME Storing, n = 1 PROVE FALSE
      OBVIOUS
    <3>1. Q!Wrap(head + 1) = TailSlot
      BY <2>3, <2>4, UartAssumption DEF Q!Count, Q!Slots, Q!Wrap
    <3>2. TailSlot = Q!Wrap(tail)
      BY <2>2, WrapProperties DEF TailSlot
    <3>3. QED
      BY <2>1, <2>3, <3>1, <3>2 DEF Storing
  <2>8. Storing => Fetched + 1 < accepted
    <3> HIDE DEF n
    <3>1. QED
      BY <2>4, <2>5, <2>6, <2>7
  <2>9. UCTXBUF' \in 0 .. MaxBytes
    <3>1. head + 1 \in 0 .. Max_Buff_Length
      BY <2>4, UartAssumption DEF Q!Slots
    <3>2. Q!Wrap(head + 1) \in Q!Slots
      BY <3>1, WrapProperties
    <3>3. QED
      BY <2>1, <2>4, <3>2
  <2>10. Fetched = Len(wire) /\ Fetched' = Len(wire) + 1 /\ (Storing' <=> Storing)
    <3>1. UCTXBUF' # Empty
      BY <2>9 DEF Empty
    <3>2. ~Fetching /\ ~Fetching' /\ (Storing' <=> Storing)
      BY <1>1, <1>2 DEF Fetching, Starting, Storing
    <3>3. Fetched = Len(wire) + 0 + 0 /\ Fetched' = Len(wire) + 1 + 0
      BY <1>1, <1>2, <3>1, <3>2, Zenon DEF Fetched
    <3>4. QED
      BY <2>4, <3>2, <3>3
  <2>11. RingInv' /\ buffer[HeadSlot'] = Fetched + 1
    <3>1. Fetched' = Fetched + 1 /\ HeadSlot' = Q!Wrap(HeadSlot + 1)
      BY <2>3, <2>10
    <3>2. QED
      BY <1>1, <2>3, <2>6, <2>8, <2>10, <3>1, RingFetched, Zenon DEF Sane
  <2>12. FetchInv'
    BY <1>1, <1>2, <2>1, <2>3, <2>10, <2>11 DEF FetchInv, Starting, Fetching
  <2>13. QED
    BY <2>11, <2>12
<1>5. QED
  BY <1>3, <1>4

\* Adding a byte: first it is accepted and its slot is taken, then it is stored.
LEMMA AddKeeps ==
  ASSUME Sane, AddtoTXBuffer
  PROVE  RingInv' /\ FetchInv'
<1>1. /\ pc = "add" /\ pc' = "wrap" /\ accepted' = accepted + 1 /\ tail' = tail + 1
      /\ UNCHANGED <<buffer, head, UCTXBUF, data, wire>> /\ ~Q!queue_isFull
  BY DEF AddtoTXBuffer, hw
<1> DEFINE n == Q!Count(head, tail)
<1>2. /\ HeadSlot = head /\ TailSlot = tail /\ head \in Q!Slots /\ tail \in Q!Slots
      /\ Fetched \in Nat /\ accepted \in Nat /\ n \in 0 .. Max_Buff_Length - 1
  BY <1>1, Places DEF Sane
<1>3. HeadSlot' = head /\ TailSlot' = Q!Wrap(tail + 1) /\ Fetched' = Fetched
  BY <1>1, <1>2 DEF HeadSlot, TailSlot, Fetched, Fetching
<1>4. n # Max_Buff_Length - 1
  BY <1>1, <1>2, UartAssumption DEF Q!queue_isFull, Q!Count, Q!Slots
<1>5. Q!Count(head, Q!Wrap(tail + 1)) = n + 1
  BY <1>2, <1>4, CountGrows
<1>6. n = accepted - Fetched
      /\ \A i \in 1 .. n : buffer[Q!SlotOf(head, i)] = Fetched + i
  BY <1>1, <1>2 DEF Sane, RingInv, Storing
<1> HIDE DEF n
<1>7. Q!Count(HeadSlot', TailSlot') = accepted' - Fetched' /\ Fetched' < accepted'
  BY <1>1, <1>2, <1>3, <1>5, <1>6
<1>8. ASSUME NEW i \in 1 .. n + 1, Fetched' + i < accepted'
      PROVE  buffer'[Q!SlotOf(HeadSlot', i)] = Fetched' + i
  <2>1. i \in 1 .. n
    BY <1>1, <1>2, <1>3, <1>6, <1>8
  <2>2. QED
    BY <1>1, <1>3, <1>6, <2>1
<1>9. RingInv'
  BY <1>1, <1>3, <1>5, <1>7, <1>8 DEF RingInv, Storing
<1>10. FetchInv'
  BY <1>1 DEF Sane, FetchInv, Fetching
<1>11. QED
  BY <1>9, <1>10

\* Storing the byte completes it: the ring is in order again.
LEMMA StoreKeeps ==
  ASSUME Sane, StoreByte
  PROVE  RingInv' /\ FetchInv'
<1>1. /\ pc = "store" /\ pc' = "add" /\ buffer' = [buffer EXCEPT ![tail] = accepted]
      /\ UNCHANGED <<head, tail, UCTXBUF, data, accepted, wire>>
  BY DEF StoreByte, hw
<1> DEFINE n == Q!Count(head, tail)
<1>2. /\ HeadSlot = head /\ TailSlot = tail /\ head \in Q!Slots /\ tail \in Q!Slots
      /\ Fetched \in Nat /\ accepted \in Nat /\ n \in 0 .. Max_Buff_Length - 1
      /\ buffer \in [Q!Slots -> 0 .. MaxBytes]
  BY <1>1, Places DEF Sane
<1>3. HeadSlot' = head /\ TailSlot' = tail /\ Fetched' = Fetched
  BY <1>1, <1>2 DEF HeadSlot, TailSlot, Fetched, Fetching
<1>4. /\ n = accepted - Fetched /\ Fetched < accepted
      /\ \A i \in 1 .. n : Fetched + i < accepted => buffer[Q!SlotOf(head, i)] = Fetched + i
  BY <1>1, <1>2 DEF Sane, RingInv, Storing
<1>5. Q!SlotOf(head, n) = tail /\ \A i \in 1 .. n - 1 : Q!SlotOf(head, i) # tail /\ Q!SlotOf(head, i) \in Q!Slots
  BY <1>2, <1>4, UartAssumption DEF Q!SlotOf, Q!Count, Q!Slots
<1>6. /\ buffer'[tail] = accepted
      /\ \A s \in Q!Slots : s # tail => buffer'[s] = buffer[s]
  BY <1>1, <1>2
<1> HIDE DEF n
<1>7. ASSUME NEW i \in 1 .. n PROVE buffer'[Q!SlotOf(head, i)] = Fetched + i
  <2>1. CASE i = n
    BY <1>2, <1>4, <1>5, <1>6, <2>1
  <2>2. CASE i \in 1 .. n - 1
    <3>1. Fetched + i < accepted
      BY <1>2, <1>4, <2>2
    <3>2. QED
      BY <1>4, <1>5, <1>6, <2>2, <3>1
  <2>3. QED
    BY <1>2, <2>1, <2>2
<1>8. Q!Count(HeadSlot', TailSlot') = accepted' - Fetched'
  BY <1>1, <1>3, <1>4 DEF n
<1>9. RingInv'
  BY <1>1, <1>3, <1>7, <1>8 DEF RingInv, Storing, n
<1>10. FetchInv'
  BY <1>1 DEF Sane, FetchInv, Fetching
<1>11. QED
  BY <1>9, <1>10

\* Starting a transmission: first the head moves, then the byte is fetched and
\* put into the UART, which is silent.
LEMMA DequeueKeeps ==
  ASSUME Sane, DequeueFirst
  PROVE  RingInv' /\ FetchInv'
<1>1. /\ pc = "dequeue" /\ UNCHANGED <<buffer, tail, UCTXBUF, data, accepted, wire>>
  BY DEF DequeueFirst, hw
<1>2. UCTXBUF = Empty
  BY <1>1, Zenon DEF Sane, SilentInv, Starting
<1>3. CASE Q!queue_isEmpty
  <2>1. pc' = "idle" /\ head' = head
    BY <1>3 DEF DequeueFirst
  <2>2. ~Storing /\ ~Fetching /\ ~Storing' /\ ~Fetching'
    BY <1>1, <2>1 DEF Storing, Fetching
  <2>3. QED
    BY <1>1, <2>1, <2>2, QuietStep, Zenon
<1>4. CASE ~Q!queue_isEmpty
  <2>1. pc' = "wrap_head" /\ head' = head + 1 /\ head # tail
    BY <1>4 DEF DequeueFirst, Q!queue_isEmpty
  <2>2. /\ HeadSlot = head /\ TailSlot = tail /\ head \in Q!Slots /\ tail \in Q!Slots
        /\ Len(wire) \in Nat
    BY <1>1, Places DEF Sane
  <2>3. HeadSlot' = Q!Wrap(HeadSlot + 1) /\ TailSlot' = TailSlot
    BY <1>1, <2>1, <2>2 DEF HeadSlot, TailSlot
  <2>4. Q!Count(HeadSlot, TailSlot) # 0
    BY <2>1, <2>2, UartAssumption DEF Q!Count, Q!Slots
  <2>5. ~Storing /\ ~Storing' /\ ~Fetching /\ Fetching'
    BY <1>1, <2>1 DEF Storing, Fetching
  <2>6. Fetched = Len(wire) + 0 + 0 /\ Fetched' = Len(wire) + 0 + 1
    BY <1>1, <1>2, <2>5, Zenon DEF Fetched
  <2>7. Fetched' = Fetched + 1
    BY <2>2, <2>6
  <2>8. RingInv' /\ buffer[HeadSlot'] = Fetched + 1
    BY <1>1, <2>3, <2>4, <2>5, <2>7, RingFetched, Zenon DEF Sane
  <2>9. FetchInv'
    BY <1>1, <1>2, <2>1, <2>7, <2>8 DEF FetchInv
  <2>10. QED
    BY <2>8, <2>9
<1>5. QED
  BY <1>3, <1>4

\* The byte that is fetched stays the next one until the UART has it.
LEMMA PutKeeps ==
  ASSUME Sane, WrapHead \/ FetchByte \/ PutFirst
  PROVE  RingInv' /\ FetchInv'
<1>1. /\ UNCHANGED <<buffer, tail, accepted, wire>> /\ Fetching /\ ~Storing /\ ~Storing'
  BY DEF WrapHead, FetchByte, PutFirst, hw, ring, Fetching, Storing
<1>2. UCTXBUF = Empty
  BY <1>1, Zenon DEF Sane, SilentInv, Starting
<1>3. Len(wire) \in Nat /\ data \in 0 .. MaxBytes /\ head \in 0 .. Max_Buff_Length
  BY Places DEF Sane, TypeInv, UartTypeOK
<1>4. Fetched = Len(wire) + 0 + 1
  BY <1>1, <1>2, Zenon DEF Fetched
<1>5. HeadSlot' = HeadSlot /\ TailSlot' = TailSlot
  <2>1. head' = head \/ (head' = Q!Wrap(head) /\ Q!Wrap(head') = Q!Wrap(head))
    BY <1>3, WrapProperties
       DEF WrapHead, FetchByte, PutFirst, ring
  <2>2. QED
    BY <1>1, <2>1 DEF HeadSlot, TailSlot
<1>6. Fetched' = Fetched /\ FetchInv'
  <2>1. CASE WrapHead
    <3>1. pc = "wrap_head" /\ pc' = "fetch" /\ UCTXBUF' = UCTXBUF
      BY <2>1 DEF WrapHead, hw
    <3>2. Fetched' = Len(wire) + 0 + 1
      BY <1>1, <1>2, <3>1 DEF Fetched, Fetching
    <3>3. QED
      BY <1>1, <1>2, <1>4, <1>5, <3>1, <3>2 DEF Sane, FetchInv
  <2>2. CASE FetchByte
    <3>1. pc = "fetch" /\ pc' = "put" /\ UCTXBUF' = UCTXBUF /\ data' = buffer[head]
      BY <2>2 DEF FetchByte, hw
    <3>2. Fetched' = Len(wire) + 0 + 1
      BY <1>1, <1>2, <3>1 DEF Fetched, Fetching
    <3>3. head = HeadSlot
      BY <3>1, Places DEF Sane
    <3>4. QED
      BY <1>1, <1>2, <1>4, <1>5, <3>1, <3>2, <3>3 DEF Sane, FetchInv
  <2>3. CASE PutFirst
    <3>1. pc = "put" /\ pc' = "idle" /\ UCTXBUF' = data
      BY <2>3 DEF PutFirst
    <3>2. UCTXBUF' # Empty
      BY <1>3, <3>1 DEF Empty
    <3>3. Fetched' = Len(wire) + 1 + 0
      BY <1>1, <3>1, <3>2 DEF Fetched, Fetching
    <3>4. Fetched' = Fetched /\ data = Len(wire) + 1
      BY <1>3, <1>4, <3>1, <3>3 DEF Sane, FetchInv
    <3>5. QED
      BY <1>1, <3>1, <3>4 DEF FetchInv
  <2>4. QED
    BY <2>1, <2>2, <2>3
<1>7. RingInv'
  BY <1>1, <1>5, <1>6, RingKept, Zenon DEF Sane
<1>8. QED
  BY <1>6, <1>7

\* What the UART sends is the byte after those that it has sent.
LEMMA ShiftKeeps ==
  ASSUME Sane, ~raced, ShiftOut
  PROVE  /\ RingInv' /\ FetchInv'
         /\ wire' = Append(wire, Len(wire) + 1) /\ Len(wire') = Len(wire) + 1
<1>1. /\ UCTXBUF # Empty /\ UCTXBUF' = Empty /\ wire' = Append(wire, UCTXBUF)
      /\ UNCHANGED <<buffer, head, tail, pc, accepted, data>>
  BY DEF ShiftOut, ring
<1>2. ~Starting
  BY <1>1, Zenon DEF Sane, SilentInv
<1>3. UCTXBUF = Len(wire) + 1
  BY <1>1, Zenon DEF Sane, FetchInv
<1>4. UCTXBUF \in 0 .. MaxBytes /\ wire \in Seq(0 .. MaxBytes) /\ Len(wire) \in Nat
  BY <1>1, Places DEF Sane, TypeInv, UartTypeOK
<1>5. Len(wire') = Len(wire) + 1
  BY <1>1, <1>4, AppendProperties
<1>6. ~Fetching /\ ~Fetching' /\ (Storing' <=> Storing)
  BY <1>1, <1>2 DEF Starting, Fetching, Storing
<1>7. Fetched' = Fetched
  <2>1. Fetched = Len(wire) + 1 + 0 /\ Fetched' = Len(wire') + 0 + 0
    BY <1>1, <1>6, Zenon DEF Fetched
  <2>2. QED
    BY <1>4, <1>5, <2>1
<1>8. HeadSlot' = HeadSlot /\ TailSlot' = TailSlot
  BY <1>1 DEF HeadSlot, TailSlot
<1>9. RingInv'
  BY <1>1, <1>6, <1>7, <1>8, RingKept, Zenon DEF Sane
<1>10. FetchInv'
  BY <1>1, <1>2 DEF FetchInv, Starting, Fetching
<1>11. QED
  BY <1>1, <1>3, <1>5, <1>9, <1>10

\* Every step of the main program, of the interrupts and of the UART.
LEMMA WireStep ==
  ASSUME TypeInv, WireInv, [UartNext]_uartVars
  PROVE  WireInv'
<1> DEFINE Sent == \A i \in 1 .. Len(wire) : wire[i] = i
<1> SUFFICES ASSUME ~mixed' PROVE Sent' /\ (raced' \/ (SilentInv' /\ RingInv' /\ FetchInv'))
  BY Zenon DEF WireInv
<1> USE DEF ring, hw, mishaps
<1>1. ~mixed
  <2>1. CASE RXInterrupt
    BY <2>1, Zenon DEF RXInterrupt
  <2>2. CASE ~RXInterrupt
    BY <2>2 DEF UartNext, MainProgram, uartVars, StartMessage, QueueIsFull,
       AddtoTXBuffer, WrapTail, StoreByte, PLC_Start_SendBuffer,
       ClearTxDone, DequeueFirst, WrapHead, FetchByte, PutFirst,
       TXInterrupt, ShiftOut
  <2>3. QED
    BY <2>1, <2>2
<1>2. Sent /\ (raced \/ Sane)
  BY <1>1, Zenon DEF WireInv, Sane
<1>3. wire' = wire \/ ShiftOut
  BY DEF UartNext, MainProgram, uartVars, StartMessage, QueueIsFull,
       AddtoTXBuffer, WrapTail, StoreByte, PLC_Start_SendBuffer,
       ClearTxDone, DequeueFirst, WrapHead, FetchByte, PutFirst,
       TXInterrupt, RXInterrupt
<1>4. raced => raced'
  BY DEF UartNext, MainProgram, uartVars, StartMessage, QueueIsFull,
       AddtoTXBuffer, WrapTail, StoreByte, PLC_Start_SendBuffer,
       ClearTxDone, DequeueFirst, WrapHead, FetchByte, PutFirst,
       TXInterrupt, RXInterrupt, FeedTransmitter, ShiftOut
<1>5. Sent'
  <2>1. CASE wire' = wire
    BY <1>2, <2>1
  <2>2. CASE ShiftOut /\ raced
    BY <1>2, <2>2, Zenon DEF ShiftOut
  <2>3. CASE ShiftOut /\ ~raced
    <3>1. wire' = Append(wire, Len(wire) + 1) /\ Len(wire') = Len(wire) + 1
      BY <1>2, <2>3, ShiftKeeps
    <3>2. wire \in Seq(0 .. MaxBytes) /\ Len(wire) \in Nat
      BY Places DEF TypeInv, UartTypeOK
    <3>3. wire \in Seq(Nat) /\ Len(wire) + 1 \in Nat
      BY <3>2, UartAssumption
    <3>4. /\ wire'[Len(wire) + 1] = Len(wire) + 1
          /\ \A i \in 1 .. Len(wire) : wire'[i] = wire[i]
      BY <3>1, <3>3, AppendProperties
    <3>5. QED
      BY <1>2, <3>1, <3>2, <3>4
  <2>4. QED
    BY <1>3, <2>1, <2>2, <2>3
<1>6. ASSUME ~raced'
      PROVE  RingInv' /\ FetchInv'
  <2> USE <1>2, <1>4, <1>6
  <2>1. CASE StartMessage \/ QueueIsFull \/ PLC_Start_SendBuffer
             \/ ClearTxDone
    <3>1. /\ ~Storing /\ ~Fetching /\ ~Storing' /\ ~Fetching'
          /\ UNCHANGED <<buffer, head, tail, UCTXBUF, accepted, wire>>
      BY <2>1 DEF StartMessage, QueueIsFull, PLC_Start_SendBuffer,
                  ClearTxDone, Storing, Fetching
    <3>2. QED
      BY <3>1, QuietStep, Zenon
  <2>2. CASE AddtoTXBuffer
    BY <2>2, AddKeeps, Zenon
  <2>3. CASE WrapTail
    <3>1. /\ pc = "wrap" /\ pc' = "store" /\ tail' = Q!Wrap(tail)
          /\ UNCHANGED <<buffer, head, UCTXBUF, accepted, wire>>
      BY <2>3 DEF WrapTail
    <3>2. tail \in 0 .. Max_Buff_Length
      BY DEF TypeInv, UartTypeOK
    <3>3. /\ HeadSlot' = HeadSlot /\ TailSlot' = TailSlot /\ Fetched' = Fetched
          /\ (Storing' <=> Storing)
      BY <3>1, <3>2, WrapProperties DEF HeadSlot, TailSlot, Fetched, Fetching, Storing
    <3>4. RingInv'
      BY <3>1, <3>3, RingKept, Zenon DEF Sane
    <3>5. FetchInv'
      BY <3>1 DEF Sane, FetchInv
    <3>6. QED
      BY <3>4, <3>5
  <2>4. CASE StoreByte
    BY <2>4, StoreKeeps, Zenon
  <2>5. CASE DequeueFirst
    BY <2>5, DequeueKeeps, Zenon
  <2>6. CASE WrapHead \/ FetchByte \/ PutFirst
    BY <2>6, PutKeeps, Zenon
  <2>7. CASE TXInterrupt
    BY <2>7, InterruptFetches, Zenon
  <2>8. CASE RXInterrupt \/ UNCHANGED uartVars
    <3>1. UNCHANGED <<buffer, head, tail, UCTXBUF, pc, data, accepted, wire>>
      BY <2>8, IdleReceives DEF uartVars
    <3>2. HeadSlot' = HeadSlot /\ TailSlot' = TailSlot /\ Fetched' = Fetched
          /\ (Storing' <=> Storing)
      BY <3>1 DEF HeadSlot, TailSlot, Fetched, Fetching, Storing
    <3>3. RingInv'
      BY <3>1, <3>2, RingKept, Zenon DEF Sane
    <3>4. FetchInv'
      BY <3>1, <3>2 DEF Sane, FetchInv
    <3>5. QED
      BY <3>3, <3>4
  <2>9. CASE ShiftOut
    BY <2>9, ShiftKeeps, Zenon
  <2>10. QED
    BY <2>1, <2>2, <2>3, <2>4, <2>5, <2>6, <2>7, <2>8, <2>9 DEF UartNext, MainProgram
<1>7. ~raced' => SilentInv'
  BY <1>2, <1>4, SilentStep, Zenon
<1>8. QED
  BY <1>5, <1>6, <1>7

\* Bytes are where WireInv says in every reachable state.
LEMMA WireInvariant == UartSpec => [](TypeInv /\ WireInv)
<1>1. UartInit => TypeInv /\ WireInv
  <2> SUFFICES ASSUME UartInit PROVE TypeInv /\ WireInv
    OBVIOUS
  <2>1. TypeInv
    BY InitTypeInv
  <2>2. SilentInv
    BY DEF UartInit, SilentInv, Starting, Fetching
  <2>3. Len(wire) = 0 /\ \A i \in 1 .. Len(wire) : wire[i] = i
    BY DEF UartInit
  <2>4. HeadSlot = 0 /\ TailSlot = 0 /\ Fetched = 0 /\ ~Storing /\ accepted = 0
    BY <2>3, UartAssumption DEF UartInit, HeadSlot, TailSlot, Q!Wrap, Fetched, Fetching, Storing
  <2>5. RingInv
    BY <2>4 DEF RingInv, Q!Count
  <2>6. FetchInv
    BY <2>4 DEF UartInit, FetchInv
  <2>7. QED
    BY <2>1, <2>2, <2>3, <2>5, <2>6 DEF WireInv
<1>2. TypeInv /\ WireInv /\ [UartNext]_uartVars => TypeInv' /\ WireInv'
  BY TypeInvStep, WireStep
<1>3. QED
  BY <1>1, <1>2, PTL DEF UartSpec

\* The bytes that the ring has accepted leave the meter in their order, none
\* lost, none twice, none of an old content, until the handler fetches the very
\* byte that is being stored or the modem sends during a transmission: for every
\* buffer length, and wherever the interrupts fall into the calls of Queue.c.
THEOREM AcceptedBytesLeaveInOrder == UartSpec => []WireInOrder
<1>1. WireInv => WireInOrder
  BY Zenon DEF WireInv, WireInOrder
<1>2. QED
  BY <1>1, WireInvariant, PTL

(* What fairness acts on, for Drains: until one of the mishaps a           *)
(* transmission that is going on has a byte in the UART or an interrupt to *)
(* ask for, but for the start of one; and the main program leaves no byte  *)
(* in the ring of a UART that it has not started.                          *)
ActiveInv ==
  \/ raced \/ mixed \/ stalled
  \/ /\ Tx_Done = 0 /\ pc # "dequeue" /\ ~Fetching => UCTXBUF # Empty \/ UCTXIFG
     /\ Tx_Done = 1 /\ pc = "idle" => Q!queue_isEmpty

(* The transmitter never comes to rest with bytes that were accepted and   *)
(* not sent: the call that adds or fetches one still runs, the UART has    *)
(* one, or its interrupt is asked for.                                     *)
NeverStuck ==
  \/ raced \/ mixed \/ stalled
  \/ Len(wire) = accepted
  \/ pc # "idle" \/ UCTXBUF # Empty \/ UCTXIFG

\* The handler either feeds the UART or ends the transmission with an empty ring.
LEMMA ActiveStep ==
  ASSUME TypeInv, WireInv, ActiveInv, [UartNext]_uartVars
  PROVE  ActiveInv'
<1> USE DEF ring, hw, mishaps
<1> SUFFICES ASSUME ~raced', ~mixed', ~stalled'
             PROVE  /\ Tx_Done' = 0 /\ pc' # "dequeue" /\ ~Fetching'
                         => UCTXBUF' # Empty \/ UCTXIFG'
                    /\ Tx_Done' = 1 /\ pc' = "idle" => head' = tail'
  BY DEF ActiveInv, Q!queue_isEmpty
<1>1. ~raced /\ ~stalled
  <2>1. raced => raced'
    BY DEF UartNext, MainProgram, uartVars, StartMessage, QueueIsFull,
       AddtoTXBuffer, WrapTail, StoreByte, PLC_Start_SendBuffer,
       ClearTxDone, DequeueFirst, WrapHead, FetchByte, PutFirst,
       TXInterrupt, RXInterrupt, FeedTransmitter, ShiftOut
  <2>2. stalled' = stalled \/ DequeueFirst
    BY DEF UartNext, MainProgram, uartVars, StartMessage, QueueIsFull,
       AddtoTXBuffer, WrapTail, StoreByte, PLC_Start_SendBuffer,
       ClearTxDone, WrapHead, FetchByte, PutFirst, TXInterrupt, RXInterrupt, ShiftOut
  <2>3. DequeueFirst => stalled' \/ stalled' = stalled
    BY Zenon DEF DequeueFirst
  <2>4. QED
    <3>1. stalled => stalled'
      BY <2>2, <2>3
    <3>2. QED
      BY <2>1, <3>1, Zenon
<1>2. ~mixed
  BY Zenon DEF UartNext, MainProgram, uartVars, StartMessage, QueueIsFull,
       AddtoTXBuffer, WrapTail, StoreByte, PLC_Start_SendBuffer,
       ClearTxDone, DequeueFirst, WrapHead, FetchByte, PutFirst,
       TXInterrupt, RXInterrupt, ShiftOut
<1>3. /\ Tx_Done = 0 /\ pc # "dequeue" /\ ~Fetching => UCTXBUF # Empty \/ UCTXIFG
      /\ Tx_Done = 1 /\ pc = "idle" => head = tail
  BY <1>1, <1>2, Zenon DEF ActiveInv, Q!queue_isEmpty
<1>4. Sane
  BY <1>1, <1>2, Zenon DEF WireInv, Sane
<1>5. CASE StartMessage \/ QueueIsFull \/ AddtoTXBuffer \/ WrapTail \/ StoreByte
           \/ ClearTxDone \/ UNCHANGED uartVars
  BY <1>3, <1>5 DEF StartMessage, QueueIsFull, AddtoTXBuffer, WrapTail, StoreByte,
                    ClearTxDone, uartVars, Fetching
<1>6. CASE PLC_Start_SendBuffer
  BY <1>3, <1>6 DEF PLC_Start_SendBuffer, Fetching
<1>7. CASE DequeueFirst \/ WrapHead \/ FetchByte
  BY <1>3, <1>7 DEF DequeueFirst, WrapHead, FetchByte, Fetching
<1>8. CASE PutFirst
  <2>1. UCTXBUF' # Empty
    BY <1>4, <1>8 DEF PutFirst, Sane, TypeInv, UartTypeOK, Empty
  <2>2. Tx_Done' = 0
    BY <1>4, <1>8 DEF PutFirst, Sane, SilentInv, Fetching
  <2>3. QED
    BY <2>1, <2>2
<1>9. CASE TXInterrupt
  <2>1. FeedTransmitter /\ UNCHANGED <<tail, pc>> /\ UCTXIFG
    BY <1>9 DEF TXInterrupt
  <2>2. CASE head = tail
    BY <2>1, <2>2 DEF FeedTransmitter, Q!queue_isEmpty
  <2>3. CASE head # tail
    <3>1. head' = Q!Wrap(head + 1) /\ UCTXBUF' = buffer[head'] /\ Tx_Done' = Tx_Done
      BY <2>1, <2>3 DEF FeedTransmitter, Q!queue_isEmpty
    <3>2. pc # "wrap_head"
      BY <1>4, <2>1, Zenon DEF Sane, SilentInv, Starting, Fetching
    <3>3. head + 1 \in 0 .. Max_Buff_Length /\ buffer \in [Q!Slots -> 0 .. MaxBytes]
      BY <3>2, UartAssumption DEF TypeInv, UartTypeOK
    <3>4. UCTXBUF' \in 0 .. MaxBytes
      BY <3>1, <3>3, WrapProperties
    <3>5. UCTXBUF' # Empty
      BY <3>4 DEF Empty
    <3>6. Tx_Done' = 1 => pc' # "idle"
      BY <1>3, <2>1, <2>3, <3>1
    <3>7. QED
      BY <3>5, <3>6
  <2>4. QED
    BY <2>2, <2>3
<1>10. CASE RXInterrupt
  <2>1. UNCHANGED <<head, tail, UCTXBUF, UCTXIFG, Tx_Done, pc>>
    BY <1>10, IdleReceives
  <2>2. Fetching' <=> Fetching
    BY <2>1 DEF Fetching
  <2>3. QED
    BY <1>3, <2>1, <2>2
<1>11. CASE ShiftOut
  <2>1. UCTXIFG' /\ UNCHANGED <<head, tail, Tx_Done, pc>>
    BY <1>11 DEF ShiftOut
  <2>2. QED
    BY <1>3, <2>1
<1>12. QED
  BY <1>5, <1>6, <1>7, <1>8, <1>9, <1>10, <1>11 DEF UartNext, MainProgram

\* A transmitter at rest has sent all that its ring accepted, unless a mishap
\* happened: what is left to the fairness of Drains is that calls, interrupts
\* and the UART go on.
THEOREM TransmitterNeverStuck == UartSpec => []NeverStuck
<1>1. UartInit => ActiveInv
  BY DEF UartInit, ActiveInv, Q!queue_isEmpty
<1>2. TypeInv /\ WireInv /\ ActiveInv => NeverStuck
  <2> SUFFICES ASSUME TypeInv, WireInv, ActiveInv,
                      ~raced, ~mixed, ~stalled, pc = "idle", UCTXBUF = Empty, ~UCTXIFG
               PROVE  Len(wire) = accepted
    BY Zenon DEF NeverStuck
  <2>1. Tx_Done = 1 /\ head = tail
    BY DEF ActiveInv, TypeInv, UartTypeOK, Q!queue_isEmpty, Fetching
  <2>2. HeadSlot = head /\ TailSlot = tail /\ head \in Q!Slots
        /\ Len(wire) \in Nat /\ accepted \in Nat
    BY Places
  <2>3. Q!Count(HeadSlot, TailSlot) = 0
    BY <2>1, <2>2, UartAssumption DEF Q!Count, Q!Slots
  <2>4. Fetched = Len(wire)
    <3>1. ~Fetching
      BY DEF Fetching
    <3>2. Fetched = Len(wire) + 0 + 0
      BY <3>1, Zenon DEF Fetched
    <3>3. QED
      BY <2>2, <3>2
  <2>5. Q!Count(HeadSlot, TailSlot) = accepted - Fetched
    BY Zenon DEF WireInv, RingInv
  <2>6. QED
    BY <2>2, <2>3, <2>4, <2>5
<1>3. QED
  BY <1>1, <1>2, WireInvariant, ActiveStep, PTL DEF UartSpec

-----------------------------------------------------------------------------
(* The session with the modem: AttachmentWatched holds together with what  *)
(* each step of the initialisation has left behind (WatchInv).             *)

Tasks == {"KeepAlive", "Get_Mac_PIB_TimedOut", "AttachTimedOut"}

(* Before the steps 5, 9 and 10 the request of the step before is over;    *)
(* only the last step makes the session idle, and from the end of the      *)
(* initialisation on an attached meter enquires or waits for the answer.   *)
(* The enquiries start the initialisation again with a step that marks it. *)
WatchInv ==
  /\ PLC_INIT_STATE \in {5, Attach, Finished} => ~messageSent
  /\ plc_state = "IDEAL" => PLC_INIT_STATE = Finished
  /\ PLC_INIT_STATE = Finished /\ plc_connection_status = "ATTACHED"
       => "KeepAlive" \in tasks \/ "Get_Mac_PIB_TimedOut" \in tasks
  /\ ~("KeepAlive" \in tasks /\ "Get_Mac_PIB_TimedOut" \in tasks)
  /\ ("AttachTimedOut" \in tasks)
       <=> (plc_connection_status = "SENDING_ATTACH_REQUEST" /\ ~unattended)

SessionInv == SessionTypeOK /\ WatchInv

\* A request may reach the modem or not.
LEMMA SessionAskingTypes ==
  ASSUME SessionTypeOK, NEW kind \in Kinds
  PROVE  Asking(kind) \in [Kinds -> 0 .. MaxAsked]
BY SessionAssumption DEF SessionTypeOK, Asking

\* Sending keeps every task but the enquiry's time-out.
LEMMA SessionSendingKeeps ==
  ASSUME NEW s \in SUBSET Tasks, NEW jump
  PROVE  /\ AfterSending(s, jump) \subseteq s
         /\ AfterSending(s, jump) \cap {"KeepAlive", "AttachTimedOut"}
              = s \cap {"KeepAlive", "AttachTimedOut"}
         /\ "Get_Mac_PIB_TimedOut" \in s /\ "KeepAlive" \notin s
              => "Get_Mac_PIB_TimedOut" \in AfterSending(s, jump)
BY DEF AfterSending, Tasks

\* What InitPLC2 leaves, called with a step and the tasks scheduled.
LEMMA SessionInitTypes ==
  ASSUME SessionTypeOK,
         NEW step \in 1 .. Finished, NEW s \in SUBSET Tasks, InitPLC2(step, s)
  PROVE  /\ plc_state' \in {"IDEAL", "INITIALIZING"} /\ PLC_INIT_STATE' \in 1 .. Finished
         /\ messageSent' \in BOOLEAN /\ count' \in 0 .. PLC_INIT_MAX_RETRAY - 1
         /\ plc_counter' \in 0 .. plc_wait_time + 1
         /\ statusRecived' \in BOOLEAN
         /\ plc_connection_status' \in {"none", "SENDING_ATTACH_REQUEST", "ATTACHED"}
         /\ attachTimeOutCounter' = attachTimeOutCounter
         /\ tasks' \subseteq Tasks
         /\ asked' \in [Kinds -> 0 .. MaxAsked] /\ unattended' \in BOOLEAN
<1> DEFINE Marks  == messageSent' \in BOOLEAN /\ statusRecived' \in BOOLEAN
                       /\ unattended' \in BOOLEAN
           Steps  == /\ plc_state' \in {"IDEAL", "INITIALIZING"}
                     /\ PLC_INIT_STATE' \in 1 .. Finished
                     /\ plc_connection_status'
                          \in {"none", "SENDING_ATTACH_REQUEST", "ATTACHED"}
                     /\ attachTimeOutCounter' = attachTimeOutCounter
           Counts == /\ count' \in 0 .. PLC_INIT_MAX_RETRAY - 1
                     /\ plc_counter' \in 0 .. plc_wait_time + 1
           Sets   == tasks' \subseteq Tasks /\ asked' \in [Kinds -> 0 .. MaxAsked]
<1>1. Marks
  BY Zenon DEF InitPLC2, SendRequest, RequestTimesOut, RequestIsAnswered,
               StillWaiting, WaitForReset, FirstAttach, FinishInit,
               Attach_Request, SessionTypeOK
<1>2. Steps
  <2>1. plc_state' \in {"IDEAL", "INITIALIZING"}
    BY DEF InitPLC2, SendRequest, RequestTimesOut, RequestIsAnswered,
           StillWaiting, WaitForReset, FirstAttach, FinishInit, SessionTypeOK
  <2>2. \/ PLC_INIT_STATE' \in {PLC_INIT_STATE, step}
        \/ step < Finished /\ PLC_INIT_STATE' = step + 1
    <3>1. CASE WaitForReset(step, s) \/ FirstAttach(step, s)
      <4>1. \/ step = 5 /\ PLC_INIT_STATE' \in {5, 6}
            \/ step = 9 /\ PLC_INIT_STATE' = 10
        BY <3>1 DEF WaitForReset, FirstAttach, Attach, Finished
      <4>2. QED
        BY <4>1 DEF Finished
    <3>2. CASE SendRequest(step, s) \/ StillWaiting(step, s) \/ FinishInit(step, s)
      BY <3>2 DEF SendRequest, StillWaiting, FinishInit
    <3>3. CASE RequestTimesOut(step, s) \/ RequestIsAnswered(step, s)
      <4>1. step \in Requests
        BY <3>3, Zenon DEF RequestTimesOut, RequestIsAnswered
      <4>2. PLC_INIT_STATE' \in {step, step + 1}
        BY <3>3 DEF RequestTimesOut, RequestIsAnswered
      <4>3. QED
        BY <4>1, <4>2 DEF Requests, Finished
    <3>4. QED
      BY <3>1, <3>2, <3>3 DEF InitPLC2
  <2>3. plc_connection_status' \in {"none", "SENDING_ATTACH_REQUEST", "ATTACHED"}
    BY DEF InitPLC2, SendRequest, RequestTimesOut, RequestIsAnswered,
           StillWaiting, WaitForReset, FirstAttach, FinishInit, Attach_Request,
           SessionTypeOK
  <2>4. attachTimeOutCounter' = attachTimeOutCounter
    BY DEF InitPLC2, SendRequest, RequestTimesOut, RequestIsAnswered,
           StillWaiting, WaitForReset, FirstAttach, FinishInit
  <2>5. QED
    BY <2>1, <2>2, <2>3, <2>4 DEF Finished, SessionTypeOK
<1>3. Counts
  <2>1. count' \in {0, count} \/ (~GivesUp /\ count' = count + 1)
    BY DEF InitPLC2, SendRequest, RequestTimesOut, RequestIsAnswered,
           StillWaiting, WaitForReset, FirstAttach, FinishInit
  <2>2. plc_counter' \in {0, plc_counter}
    BY DEF InitPLC2, SendRequest, RequestTimesOut, RequestIsAnswered,
           StillWaiting, WaitForReset, FirstAttach, FinishInit
  <2>3. QED
    BY <2>1, <2>2, SessionAssumption DEF SessionTypeOK, GivesUp
<1>4. Sets
  <2>1. "status" \in Kinds /\ "attach" \in Kinds
    BY DEF Kinds
  <2>2. asked' \in [Kinds -> 0 .. MaxAsked]
    BY <2>1, SessionAskingTypes DEF InitPLC2, SendRequest, RequestTimesOut,
                                    RequestIsAnswered, StillWaiting, WaitForReset,
                                    FirstAttach, FinishInit, SendMessage,
                                    Attach_Request, SessionTypeOK
  <2>3. tasks' \subseteq Tasks
    <3>1. AfterSending(s, jump_cancel_getMACPIB) \subseteq Tasks
      BY DEF AfterSending
    <3>2. tasks' \in {s, AfterSending(s, jump_cancel_getMACPIB),
                      AfterSending(s, jump_cancel_getMACPIB) \union {"AttachTimedOut"}}
      BY DEF InitPLC2, SendRequest, RequestTimesOut, RequestIsAnswered,
             StillWaiting, WaitForReset, FirstAttach, FinishInit, SendMessage,
             Attach_Request
    <3>3. QED
      BY <3>1, <3>2 DEF Tasks
  <2>4. QED
    BY <2>2, <2>3
<1>5. QED
  BY <1>1, <1>2, <1>3, <1>4

\* InitPLC2 keeps what the next step relies on, if it is called with its own
\* step or with one of those that the enquiries jump back to.
LEMMA SessionInitKeeps ==
  ASSUME SessionInv,
         NEW step \in 1 .. Finished, NEW s \in SUBSET Tasks, InitPLC2(step, s),
         plc_state = "IDEAL" => step \in {1, 4, Finished},
         step \in {5, Attach, Finished}
           => ~messageSent /\ s = tasks /\ PLC_INIT_STATE = step,
         ("AttachTimedOut" \in s) <=> ("AttachTimedOut" \in tasks),
         ~("KeepAlive" \in s /\ "Get_Mac_PIB_TimedOut" \in s)
  PROVE  WatchInv'
<1> USE SessionAssumption DEF SessionInv, SessionTypeOK, WatchInv, Finished, Attach,
            Requests
<1>1. CASE SendRequest(step, s)
  BY <1>1, SessionSendingKeeps DEF SendRequest, SendMessage
<1>2. CASE RequestTimesOut(step, s)
  BY <1>2 DEF RequestTimesOut
<1>3. CASE RequestIsAnswered(step, s)
  BY <1>3 DEF RequestIsAnswered
<1>4. CASE StillWaiting(step, s)
  BY <1>4 DEF StillWaiting
<1>5. CASE WaitForReset(step, s)
  BY <1>5 DEF WaitForReset
<1>6. CASE FirstAttach(step, s)
  BY <1>6, SessionSendingKeeps DEF FirstAttach, Attach_Request
<1>7. CASE FinishInit(step, s)
  BY <1>7 DEF FinishInit
<1>8. QED
  BY <1>1, <1>2, <1>3, <1>4, <1>5, <1>6, <1>7 DEF InitPLC2

\* What the main loop calls leaves every variable with its type ...
LEMMA SessionTaskTypes ==
  ASSUME SessionInv, Program
  PROVE  SessionTypeOK'
<1> USE SessionAssumption DEF SessionInv, init, watch, Received
<1>1. CASE StatusReply \/ AttachAccepted \/ StillConnected \/ UnknownState
  BY <1>1 DEF StatusReply, AttachAccepted, StillConnected, UnknownState, SessionTypeOK
<1>2. CASE AttachRefused
  BY <1>2, SessionAskingTypes, SessionSendingKeeps DEF AttachRefused, Attach_Request,
                                                       SessionTypeOK, Kinds, Tasks
<1>3. CASE ConvergenceLayerClosed
  BY <1>3, SessionAskingTypes, SessionSendingKeeps DEF ConvergenceLayerClosed,
                                                       Attach_Request, SessionTypeOK, Kinds,
                                                       Tasks
<1>4. CASE NodeDisconnected
  <2>1. InitPLC2(4, tasks \ {"Get_Mac_PIB_TimedOut"})
    BY <1>4 DEF NodeDisconnected
  <2>2. 4 \in 1 .. Finished /\ tasks \ {"Get_Mac_PIB_TimedOut"} \in SUBSET Tasks
    BY DEF SessionTypeOK, Tasks, Finished
  <2>3. UNCHANGED <<watch, modem>> /\ inbox' = NoReply
    BY <1>4 DEF NodeDisconnected
  <2>4. NoReply \in Replies \union {NoReply}
    OBVIOUS
  <2>5. QED
    BY <2>1, <2>2, <2>3, <2>4, SessionInitTypes DEF SessionTypeOK, Tasks
<1>5. CASE KeepAlive
  BY <1>5, SessionAskingTypes DEF KeepAlive, SessionTypeOK, Kinds, Tasks
<1>6. CASE Get_Mac_PIB_TimedOut
  <2>1. jump_cancel_getMACPIB' = jump_cancel_getMACPIB /\ modem' = modem /\ inbox' = inbox
    BY <1>6 DEF Get_Mac_PIB_TimedOut
  <2>2. CASE temp_counter + 1 = MacTimeouts
    <3>1. InitPLC2(1, tasks \ {"Get_Mac_PIB_TimedOut", "KeepAlive"}) /\ temp_counter' = 0
      BY <1>6, <2>2 DEF Get_Mac_PIB_TimedOut
    <3>2. 1 \in 1 .. Finished /\ tasks \ {"Get_Mac_PIB_TimedOut", "KeepAlive"} \in SUBSET Tasks
      BY DEF SessionTypeOK, Tasks, Finished
    <3>3. QED
      BY <2>1, <3>1, <3>2, SessionInitTypes DEF SessionTypeOK, Tasks, MacTimeouts
  <2>3. CASE temp_counter + 1 # MacTimeouts
    <3>1. /\ UNCHANGED <<init, statusRecived, plc_connection_status, attachTimeOutCounter,
                         asked, unattended>>
          /\ temp_counter' = temp_counter + 1
          /\ tasks' = (tasks \ {"Get_Mac_PIB_TimedOut"}) \union {"KeepAlive"}
      BY <1>6, <2>3 DEF Get_Mac_PIB_TimedOut
    <3>2. tasks' \subseteq Tasks
      BY <3>1 DEF SessionTypeOK, Tasks
    <3>3. temp_counter' \in 0 .. MacTimeouts - 1
      BY <2>3, <3>1 DEF SessionTypeOK, MacTimeouts
    <3>4. QED
      BY <2>1, <3>1, <3>2, <3>3 DEF SessionTypeOK, Tasks
  <2>4. QED
    BY <2>2, <2>3
<1>7. CASE AttachTimedOut
  <2>1. UNCHANGED <<init, statusRecived, watch, inbox, modem>>
    BY <1>7 DEF AttachTimedOut
  <2>2. CASE /\ Attach_Request(tasks \ {"AttachTimedOut"}, FALSE)
             /\ attachTimeOutCounter' = attachTimeOutCounter
    BY <2>1, <2>2, SessionAskingTypes, SessionSendingKeeps DEF Attach_Request, SessionTypeOK,
                                                               Kinds, Tasks
  <2>3. CASE /\ attachTimeOutCounter < AttachWaits
             /\ attachTimeOutCounter' = attachTimeOutCounter + 1
             /\ UNCHANGED <<tasks, plc_connection_status, asked, unattended>>
    <3>1. attachTimeOutCounter' \in 0 .. AttachWaits
      BY <2>3 DEF SessionTypeOK
    <3>2. QED
      BY <2>1, <2>3, <3>1 DEF SessionTypeOK
  <2>4. QED
    BY <1>7, <2>2, <2>3 DEF AttachTimedOut
<1>8. CASE DataTransferRequest
  BY <1>8, SessionAskingTypes, SessionSendingKeeps DEF DataTransferRequest,
                                                       SendMessage, SessionTypeOK, Kinds,
                                                       Tasks
<1>9. CASE Initialize
  BY <1>9, SessionInitTypes DEF Initialize, SessionTypeOK, Tasks
<1>10. QED
  BY <1>1, <1>2, <1>3, <1>4, <1>5, <1>6, <1>7, <1>8, <1>9 DEF Program,
                                                              ProcessRecivedPLCMessage

\* ... and keeps the watch.
LEMMA SessionProgramKeeps ==
  ASSUME SessionInv, Program
  PROVE  WatchInv'
<1> USE SessionAssumption DEF init, watch, Received
<1>1. CASE StatusReply \/ AttachAccepted \/ StillConnected \/ UnknownState
  BY <1>1 DEF StatusReply, AttachAccepted, StillConnected, UnknownState, WatchInv,
              SessionInv
<1>2. CASE AttachRefused
  BY <1>2, SessionSendingKeeps DEF AttachRefused, Attach_Request, SessionTypeOK, Tasks,
                                   WatchInv, SessionInv
<1>3. CASE ConvergenceLayerClosed
  BY <1>3, SessionSendingKeeps DEF ConvergenceLayerClosed, Attach_Request, SessionTypeOK,
                                   Tasks, WatchInv, SessionInv
<1>4. CASE NodeDisconnected
  BY <1>4, SessionInitKeeps DEF NodeDisconnected, SessionTypeOK, Tasks, Finished, Attach,
                                WatchInv, SessionInv
<1>5. CASE KeepAlive
  BY <1>5 DEF KeepAlive, WatchInv, SessionInv
<1>6. CASE Get_Mac_PIB_TimedOut
  <2>1. CASE temp_counter + 1 = MacTimeouts
    <3>1. InitPLC2(1, tasks \ {"Get_Mac_PIB_TimedOut", "KeepAlive"})
      BY <1>6, <2>1 DEF Get_Mac_PIB_TimedOut
    <3>2. 1 \in 1 .. Finished /\ tasks \ {"Get_Mac_PIB_TimedOut", "KeepAlive"} \in SUBSET Tasks
      BY DEF SessionInv, SessionTypeOK, Tasks, Finished
    <3>3. QED
      BY <3>1, <3>2, SessionInitKeeps DEF Finished, Attach
  <2>2. CASE temp_counter + 1 # MacTimeouts
    BY <1>6, <2>2 DEF Get_Mac_PIB_TimedOut, WatchInv, SessionInv
  <2>3. QED
    BY <2>1, <2>2
<1>7. CASE AttachTimedOut
  <2>1. UNCHANGED <<init, statusRecived, watch, inbox, modem>>
    BY <1>7 DEF AttachTimedOut
  <2>2. CASE Attach_Request(tasks \ {"AttachTimedOut"}, FALSE)
    BY <2>1, <2>2, SessionSendingKeeps DEF Attach_Request, SessionTypeOK, Tasks, WatchInv,
                                           SessionInv
  <2>3. CASE UNCHANGED <<tasks, plc_connection_status, asked, unattended>>
    BY <2>1, <2>3 DEF WatchInv, SessionInv
  <2>4. QED
    BY <1>7, <2>2, <2>3 DEF AttachTimedOut
<1>8. CASE DataTransferRequest
  BY <1>8, SessionSendingKeeps DEF DataTransferRequest, SendMessage, SessionTypeOK, Tasks,
                                   WatchInv, SessionInv
<1>9. CASE Initialize
  BY <1>9, SessionInitKeeps DEF Initialize, SessionTypeOK, Tasks, WatchInv, SessionInv
<1>10. QED
  BY <1>1, <1>2, <1>3, <1>4, <1>5, <1>6, <1>7, <1>8, <1>9 DEF Program,
                                                              ProcessRecivedPLCMessage

\* The clock and the modem do not disturb it, whatever the modem answers, loses or forgets.
LEMMA SessionModemKeeps ==
  ASSUME SessionInv, Tick \/ Modem \/ UNCHANGED sessionVars
  PROVE  SessionInv'
<1> USE SessionAssumption DEF SessionInv, SessionTypeOK, WatchInv, init, watch
<1>1. CASE Tick
  BY <1>1 DEF Tick
<1>2. ASSUME NEW kind \in Kinds, Answered(kind),
             inbox' \in Replies \union {NoReply, inbox}
      PROVE  SessionInv'
  BY <1>2 DEF Answered
<1>3. CASE ModemReplies
  <2>1. \A reply \in Replies : reply[1] \in Kinds
    BY DEF Replies, Kinds
  <2>2. QED
    BY <1>2, <1>3, <2>1 DEF ModemReplies
<1>4. CASE ReplyLost
  BY <1>2, <1>4 DEF ReplyLost
<1>5. CASE ModemFails \/ ModemRecovers
  <2>1. asked' \in [Kinds -> 0 .. MaxAsked] /\ modem' \in {"up", "down"}
    BY <1>5 DEF ModemFails, ModemRecovers
  <2>2. UNCHANGED <<init, statusRecived, plc_connection_status, watch,
                    attachTimeOutCounter, tasks, inbox, unattended>>
    BY <1>5 DEF ModemFails, ModemRecovers
  <2>3. QED
    BY <2>1, <2>2
<1>6. CASE UNCHANGED sessionVars
  BY <1>6 DEF sessionVars
<1>7. QED
  BY <1>1, <1>3, <1>4, <1>5, <1>6 DEF Modem

\* The inductive invariant holds in every reachable state.
LEMMA SessionInvariant == SessionSpec => []SessionInv
<1>1. SessionInit => SessionInv
  <2> SUFFICES ASSUME SessionInit PROVE SessionInv
    OBVIOUS
  <2>1. WatchInv
    BY DEF SessionInit, WatchInv, Finished, Attach
  <2>2. asked \in [Kinds -> 0 .. MaxAsked]
    BY SessionAssumption DEF SessionInit
  <2>3. messageSent \in BOOLEAN /\ statusRecived \in BOOLEAN
        /\ jump_cancel_getMACPIB \in BOOLEAN /\ unattended \in BOOLEAN
    BY DEF SessionInit
  <2>4. SessionTypeOK
    BY <2>2, <2>3, SessionAssumption DEF SessionInit, SessionTypeOK, Finished, MacTimeouts
  <2>5. QED
    BY <2>1, <2>4 DEF SessionInv
<1>2. SessionInv /\ [SessionNext]_sessionVars => SessionInv'
  BY SessionProgramKeeps, SessionTaskTypes, SessionModemKeeps DEF SessionNext, SessionInv
<1>3. QED
  BY <1>1, <1>2, PTL DEF SessionSpec

(* The session keeps its types, for any number of tries, waits and         *)
(* requests under way.                                                     *)
THEOREM SessionTypeCorrect == SessionSpec => []SessionTypeOK
<1>1. SessionInv => SessionTypeOK
  BY DEF SessionInv
<1>2. QED
  BY <1>1, SessionInvariant, PTL

(* An attachment is watched over at all times, whatever the modem answers  *)
(* late, twice or never, and in whatever order the timers expire.          *)
THEOREM SessionWatched == SessionSpec => []AttachmentWatched
<1>1. SessionInv => AttachmentWatched
  BY DEF SessionInv, WatchInv, AttachmentWatched, Finished
<1>2. QED
  BY <1>1, SessionInvariant, PTL

-----------------------------------------------------------------------------
(* The receiver: the frames that are handled.                              *)

(* The byte at place i of frame f has been sent.                           *)
Past(f, i) == frame > f \/ (frame = f /\ sent >= i)

(* A frame with no byte beyond its payload, and one at least.              *)
Even(f) == Sizes[f] > 0 /\ Sizes[f] % 2 = 0

(* What is stored has been sent, and a body that is received is not over.  *)
ArrivedInv ==
  /\ header.type # Garbage => Past(header.type, 1)
  /\ \A j \in 1 .. MaxRxBufferLength :
       RX_BUF[j] # Garbage => Past(RX_BUF[j], Len(Fields) + j)
  /\ MessageStatus = "RecevingBody" =>
       \/ blob \/ Rx_Bufffer_Index = 0
       \/ ~BodyReceived(Rx_Bufffer_Index, Sizes[header.length])

(* A frame that was handled has been sent to its end; the header is of it  *)
(* or of a later frame; and while it is still in the buffer nobody takes   *)
(* it for a new one.                                                       *)
HandledInv ==
  /\ loop = "check" => PLCCommunicationDetected
  /\ \A i \in DOMAIN handled : handled[i] # Garbage =>
       /\ frame >= handled[i]
       /\ Sizes[handled[i]] > 0 => Past(handled[i], Len(Fields) + Sizes[handled[i]])
       /\ header.type # Garbage => handled[i] <= header.type
       /\ Even(handled[i]) /\ Whole /\ header.type = handled[i] =>
            loop # "handle" /\ (PLCCommunicationDetected => loop = "clear")

ReceiverInv == ReceiverTypeOK /\ ArrivedInv /\ HandledInv /\ HandledWhole

(* What a place may hold.                                                  *)
Marked == Frames \union {Garbage}

\* The header has three fields.
LEMMA ThreeFields == Len(Fields) = 3
BY DEF Fields

\* The lengths of the frames, and what a byte can be.
LEMMA SizeTypes ==
         /\ Frames \subseteq Nat \ {0} /\ Garbage \notin Frames
         /\ NoCRC \notin Marked /\ 1 \in Frames
         /\ \A f \in Frames : /\ Sizes[f] \in 0 .. MaxRxBufferLength - 1
                                /\ Sizes[f] % 2 \in {0, 1} /\ Length(f) \in Nat
                                /\ Length(f) >= Len(Fields) + Sizes[f]
         /\ MaxRxBufferLength \in Nat \ {0} /\ Len(Sizes) \in Nat
<1>1. Len(Sizes) \in Nat \ {0} /\ \A f \in Frames : Sizes[f] \in 0 .. MaxRxBufferLength - 1
  BY ReceiverAssumption DEF Frames
<1>2. \A f \in Frames : Sizes[f] % 2 \in {0, 1}
  BY <1>1, ReceiverAssumption
<1>3. \A f \in Frames : Length(f) \in Nat /\ Length(f) >= Len(Fields) + Sizes[f]
  BY ThreeFields, <1>1, <1>2, ReceiverAssumption DEF Length
<1>4. MaxRxBufferLength \in Nat \ {0}
  BY <1>1, ReceiverAssumption DEF Frames
<1>5. QED
  BY <1>1, <1>2, <1>3, <1>4 DEF Frames, Garbage, NoCRC, Marked

\* A frame leaves a place of the buffer free.
LEMMA SizeFits ==
         /\ MaxRxBufferLength > 1
         /\ \A f \in Frames : Sizes[f] + (Sizes[f] % 2) < MaxRxBufferLength
BY ReceiverAssumption DEF Frames

\* A byte of the header goes into its field.
LEMMA StoreFills ==
  ASSUME ReceiverTypeOK, RXCount \in 0 .. 2,
         NEW f \in Marked, NEW i \in Nat, Store(f, i)
  PROVE  /\ header' \in [type : Marked, length : Marked, crc : Marked \union {NoCRC}]
         /\ header'.type = IF RXCount = 0 THEN Belongs(f, i, 1) ELSE header.type
         /\ header'.length = IF RXCount = 1 THEN Belongs(f, i, 2) ELSE header.length
         /\ header'.crc = IF RXCount = 2 THEN Belongs(f, i, 3) ELSE header.crc
         /\ UNCHANGED <<RX_BUF, PLCCommunicationDetected>>
<1>1. Belongs(f, i, RXCount + 1) \in Marked
  BY DEF Belongs, Marked
<1>2. header \in [type : Marked, length : Marked, crc : Marked \union {NoCRC}]
  BY DEF ReceiverTypeOK, Marked
<1>3. CASE RXCount = 0
  <2>1. Fields[RXCount + 1] = "type" /\ RXCount + 1 = 1
    BY <1>3 DEF Fields
  <2>2. header' = [header EXCEPT !.type = Belongs(f, i, 1)]
    BY <2>1, Zenon DEF Store
  <2>3. QED
    BY <1>1, <1>2, <1>3, <2>1, <2>2 DEF Store
<1>4. CASE RXCount = 1
  <2>1. Fields[RXCount + 1] = "length" /\ RXCount + 1 = 2
    BY <1>4 DEF Fields
  <2>2. header' = [header EXCEPT !.length = Belongs(f, i, 2)]
    BY <2>1, Zenon DEF Store
  <2>3. QED
    BY <1>1, <1>2, <1>4, <2>1, <2>2 DEF Store
<1>5. CASE RXCount = 2
  <2>1. Fields[RXCount + 1] = "crc" /\ RXCount + 1 = 3
    BY <1>5 DEF Fields
  <2>2. header' = [header EXCEPT !.crc = Belongs(f, i, 3)]
    BY <2>1, Zenon DEF Store
  <2>3. QED
    BY <1>1, <1>2, <1>5, <2>1, <2>2 DEF Store
<1>6. QED
  BY <1>3, <1>4, <1>5

\* A byte leaves the parser and the task's slot with their types.
LEMMA ByteTypes ==
  ASSUME ReceiverTypeOK, ArrivedInv,
         NEW f \in Marked, NEW i \in Nat, PLC_Byte_Recived(f, i), loop' = loop
  PROVE  /\ MessageStatus' \in {"WaittingNewFrame", "RecevingBody"}
         /\ RXCount' \in 0 .. Len(Fields)
         /\ header' \in [type : Marked, length : Marked, crc : Marked \union {NoCRC}]
         /\ RX_BUF' \in [1 .. MaxRxBufferLength -> Marked]
         /\ Rx_Bufffer_Index' \in 0 .. MaxRxBufferLength - 1
         /\ PLCCommunicationDetected' \in BOOLEAN
         /\ time_in_ms' \in BOOLEAN /\ executable' \in BOOLEAN
         /\ blob' \in BOOLEAN /\ (blob' => header'.type = Garbage)
         /\ MessageStatus' = "RecevingBody" =>
              \/ blob' /\ RXCount' \in {0, 1}
              \/ /\ RXCount' \in {0, Len(Fields)}
                 /\ header'.type # Garbage /\ header'.type = header'.length
                 /\ Rx_Bufffer_Index' <= Sizes[header'.length]
                 /\ \/ Rx_Bufffer_Index' = 0
                    \/ ~BodyReceived(Rx_Bufffer_Index', Sizes[header'.length])
         /\ \/ AtRest' \/ Torn'
            \/ time_in_ms' \/ executable' \/ loop' \in {"clear_mark", "reset", "reset_rest"}
<1>1. CASE MessageStatus = "WaittingNewFrame" /\ RXCount = 0 /\ FirstByte(f, i)
  <2>1. UNCHANGED <<MessageStatus, Rx_Bufffer_Index, RX_BUF, PLCCommunicationDetected>>
    BY <1>1 DEF FirstByte, Store
  <2>2. /\ header' \in [type : Marked, length : Marked, crc : Marked \union {NoCRC}]
        /\ RXCount' \in {0, 1} /\ blob' \in BOOLEAN /\ (blob' => header'.type = Garbage)
    <3>1. CASE Store(f, i) /\ RXCount' = 1 /\ blob' \in (IF i = 1 THEN {FALSE} ELSE BOOLEAN)
      <4>1. blob' \in BOOLEAN /\ (blob' => i # 1)
        BY <3>1
      <4>2. i # 1 => Belongs(f, i, 1) = Garbage
        BY DEF Belongs
      <4>3. QED
        BY <1>1, <3>1, <4>1, <4>2, StoreFills
    <3>2. CASE UNCHANGED <<header, RXCount, blob>>
      BY <1>1, <3>2 DEF ReceiverTypeOK, Marked
    <3>3. QED
      BY <1>1, <3>1, <3>2 DEF FirstByte
  <2>3. time_in_ms' = TRUE /\ executable' \in BOOLEAN
    BY <1>1, Zenon DEF FirstByte, schedule_reset, ReceiverTypeOK
  <2>4. QED
    BY <1>1, <2>1, <2>2, <2>3, ThreeFields DEF ReceiverTypeOK, Marked
<1>b. CASE /\ MessageStatus = "WaittingNewFrame" /\ RXCount = 1 /\ blob
           /\ BlobLength(f, i)
  <2>1. /\ header' = [header EXCEPT !.length = Belongs(f, i, 2), !.crc = NoCRC]
        /\ MessageStatus' = "RecevingBody" /\ Rx_Bufffer_Index' = 0
        /\ UNCHANGED <<RXCount, RX_BUF, blob, PLCCommunicationDetected, time_in_ms, executable>>
    BY <1>b DEF BlobLength, slot
  <2>2. Belongs(f, i, 2) \in Marked
    BY DEF Belongs, Marked
  <2>3. header' \in [type : Marked, length : Marked, crc : Marked \union {NoCRC}]
        /\ header'.type = header.type
    BY <2>1, <2>2 DEF ReceiverTypeOK, Marked
  <2>4. \/ time_in_ms' \/ executable' \/ loop' \in {"clear_mark", "reset", "reset_rest"}
    BY <1>b, <2>1 DEF ReceiverTypeOK, AtRest, Torn
  <2>5. MaxRxBufferLength \in Nat \ {0}
    BY SizeTypes
  <2>6. QED
    BY <1>b, <2>1, <2>3, <2>4, <2>5 DEF ReceiverTypeOK, Marked
<1>2. CASE /\ MessageStatus = "WaittingNewFrame" /\ RXCount \in 1 .. Len(Fields) - 1
           /\ ~blob /\ HeaderByte(f, i)
  <2>1. RXCount \in 1 .. 2 /\ RXCount \in 0 .. 2 /\ Len(Fields) = 3
    BY <1>2, ThreeFields
  <2>2. Store(f, i) /\ UNCHANGED <<blob, slot>>
    BY <1>2 DEF HeaderByte
  <2>3. /\ header' \in [type : Marked, length : Marked, crc : Marked \union {NoCRC}]
        /\ UNCHANGED <<RX_BUF, PLCCommunicationDetected>>
    BY <2>1, <2>2, StoreFills
  <2>4. \/ /\ RXCount' = RXCount + 1 /\ RXCount + 1 < 3
           /\ UNCHANGED <<MessageStatus, Rx_Bufffer_Index>>
        \/ /\ HeaderCRC(header')
           /\ MessageStatus' = "RecevingBody" /\ Rx_Bufffer_Index' = 0 /\ RXCount' = 3
        \/ MessageStatus' = "WaittingNewFrame" /\ RXCount' = 0 /\ UNCHANGED Rx_Bufffer_Index
    BY <1>2, <2>1 DEF HeaderByte
  <2>5. MessageStatus' = "RecevingBody" =>
              /\ RXCount' \in {0, Len(Fields)}
              /\ header'.type # Garbage /\ header'.type = header'.length
              /\ Rx_Bufffer_Index' <= Sizes[header'.length]
              /\ Rx_Bufffer_Index' = 0
    <3> SUFFICES ASSUME MessageStatus' = "RecevingBody"
                 PROVE  /\ RXCount' = Len(Fields)
                        /\ header'.type # Garbage /\ header'.type = header'.length
                        /\ Rx_Bufffer_Index' <= Sizes[header'.length]
                        /\ Rx_Bufffer_Index' = 0
      OBVIOUS
    <3>1. HeaderCRC(header') /\ Rx_Bufffer_Index' = 0 /\ RXCount' = 3
      BY <1>2, <2>4
    <3>2. header'.type # Garbage /\ header'.type = header'.length /\ header'.length \in Frames
      BY <2>3, <3>1 DEF HeaderCRC, Marked
    <3>3. Sizes[header'.length] \in 0 .. MaxRxBufferLength - 1
      BY <3>2, SizeTypes
    <3>4. QED
      BY <2>1, <3>1, <3>2, <3>3
  <2>6. RXCount' \in 0 .. 3 /\ Rx_Bufffer_Index' \in 0 .. MaxRxBufferLength - 1
        /\ MessageStatus' \in {"WaittingNewFrame", "RecevingBody"}
    <3>1. MaxRxBufferLength \in Nat \ {0}
      BY SizeTypes
    <3>2. QED
      BY <1>2, <2>1, <2>4, <3>1 DEF ReceiverTypeOK
  <2>7. \/ AtRest' \/ Torn'
        \/ time_in_ms' \/ executable' \/ loop' \in {"clear_mark", "reset", "reset_rest"}
    BY <1>2, <2>1, <2>2, <2>4 DEF ReceiverTypeOK, AtRest, Torn, slot
  <2>8. QED
    BY <1>2, <2>1, <2>2, <2>3, <2>5, <2>6, <2>7 DEF ReceiverTypeOK, Marked, slot
<1>3. CASE /\ MessageStatus = "WaittingNewFrame" /\ RXCount = Len(Fields)
           /\ UNCHANGED <<parser, slot, PLCCommunicationDetected>>
  BY <1>3, SizeTypes DEF parser, slot, ReceiverTypeOK, AtRest, Torn, Marked
<1>4. CASE MessageStatus = "RecevingBody" /\ BodyByte(f, i)
  <2> DEFINE place == Rx_Bufffer_Index + 1
             index == IF place = MaxRxBufferLength THEN 0 ELSE place
  <2>1. MaxRxBufferLength \in Nat \ {0} /\ Rx_Bufffer_Index \in 0 .. MaxRxBufferLength - 1
    BY SizeTypes DEF ReceiverTypeOK
  <2>2. UNCHANGED <<header, blob, time_in_ms, executable>>
    BY <1>4 DEF BodyByte, slot
  <2>3. /\ place \in 1 .. MaxRxBufferLength /\ index \in 0 .. MaxRxBufferLength - 1
        /\ RX_BUF' = [RX_BUF EXCEPT ![place] = Belongs(f, i, Len(Fields) + place)]
    BY <1>4, <2>1 DEF BodyByte
  <2>4. RX_BUF' \in [1 .. MaxRxBufferLength -> Marked]
    BY <2>3 DEF ReceiverTypeOK, Belongs, Marked
  <2>5. \/ /\ ~blob => BodyReceived(index, Sizes[header.length])
           /\ MessageStatus' = "WaittingNewFrame" /\ RXCount' = 0 /\ Rx_Bufffer_Index' = 0
           /\ PLCCommunicationDetected' = TRUE
        \/ /\ ~blob => ~BodyReceived(index, Sizes[header.length])
           /\ Rx_Bufffer_Index' = index
           /\ UNCHANGED <<MessageStatus, RXCount, PLCCommunicationDetected>>
    BY <1>4 DEF BodyByte
  <2>6. header.type \in Marked /\ header.length \in Marked /\ blob \in BOOLEAN
        /\ (blob => header.type = Garbage)
    BY DEF ReceiverTypeOK, Marked
  <2>7. ASSUME ~blob, ~BodyReceived(index, Sizes[header.length])
        PROVE  /\ RXCount \in {0, Len(Fields)}
               /\ header.type # Garbage /\ header.type = header.length
               /\ index <= Sizes[header.length]
    <3>1. /\ RXCount \in {0, Len(Fields)}
          /\ header.type # Garbage /\ header.type = header.length
      BY <1>4, <2>7 DEF ReceiverTypeOK
    <3>2. header.length \in Frames
      BY <2>6, <3>1 DEF Marked
    <3>3. Sizes[header.length] \in Nat
      <4>1. Sizes[header.length] \in 0 .. MaxRxBufferLength - 1
        BY <3>2, SizeTypes
      <4>2. QED
        BY <4>1
    <3>4. index <= Sizes[header.length]
      BY <2>3, <2>7, <3>3 DEF BodyReceived
    <3>5. QED
      BY <3>1, <3>4
  <2> HIDE DEF place, index
  <2>8. Rx_Bufffer_Index' \in 0 .. MaxRxBufferLength - 1 /\ RXCount' \in 0 .. Len(Fields)
        /\ MessageStatus' \in {"WaittingNewFrame", "RecevingBody"}
        /\ PLCCommunicationDetected' \in BOOLEAN
    <3>1. Rx_Bufffer_Index' \in 0 .. MaxRxBufferLength - 1
      BY <2>1, <2>3, <2>5
    <3>2. RXCount' \in 0 .. Len(Fields)
      BY <2>5, ThreeFields DEF ReceiverTypeOK
    <3>3. MessageStatus' \in {"WaittingNewFrame", "RecevingBody"}
      BY <2>5 DEF ReceiverTypeOK
    <3>4. PLCCommunicationDetected' \in BOOLEAN
      BY <2>5, Zenon DEF ReceiverTypeOK
    <3>5. QED
      BY <3>1, <3>2, <3>3, <3>4
  <2>9. MessageStatus' = "RecevingBody" =>
              \/ blob' /\ RXCount' \in {0, 1}
              \/ /\ RXCount' \in {0, Len(Fields)}
                 /\ header'.type # Garbage /\ header'.type = header'.length
                 /\ Rx_Bufffer_Index' <= Sizes[header'.length]
                 /\ \/ Rx_Bufffer_Index' = 0
                    \/ ~BodyReceived(Rx_Bufffer_Index', Sizes[header'.length])
    <3> SUFFICES ASSUME MessageStatus' = "RecevingBody"
                 PROVE  \/ blob /\ RXCount' \in {0, 1}
                        \/ /\ RXCount' \in {0, Len(Fields)}
                           /\ header.type # Garbage /\ header.type = header.length
                           /\ Rx_Bufffer_Index' <= Sizes[header.length]
                           /\ \/ Rx_Bufffer_Index' = 0
                              \/ ~BodyReceived(Rx_Bufffer_Index', Sizes[header.length])
      BY <2>2
    <3>1. /\ ~blob => ~BodyReceived(index, Sizes[header.length])
          /\ Rx_Bufffer_Index' = index /\ RXCount' = RXCount
      BY <2>5
    <3>2. CASE blob
      BY <1>4, <2>6, <3>1, <3>2 DEF ReceiverTypeOK
    <3>3. CASE ~blob
      BY <2>7, <3>1, <3>3
    <3>4. QED
      BY <3>2, <3>3
  <2>10. \/ AtRest' \/ Torn'
         \/ time_in_ms' \/ executable' \/ loop' \in {"clear_mark", "reset", "reset_rest"}
    BY <1>4, <2>2, <2>5 DEF ReceiverTypeOK, AtRest, Torn
  <2>11. QED
    BY <2>2, <2>4, <2>6, <2>8, <2>9, <2>10 DEF ReceiverTypeOK, Marked
<1>5. QED
  BY <1>1, <1>b, <1>2, <1>3, <1>4 DEF PLC_Byte_Recived

\* What a byte of frame f at place i changes is marked with f in its own place only.
LEMMA ByteMarks ==
  ASSUME ReceiverTypeOK, ArrivedInv,
         NEW f \in Marked, NEW i \in Nat, PLC_Byte_Recived(f, i)
  PROVE  /\ header'.type \in {header.type, Belongs(f, i, 1)}
         /\ header'.length \in {header.length, Belongs(f, i, 2)}
         /\ \A j \in 1 .. MaxRxBufferLength :
              RX_BUF'[j] \in {RX_BUF[j], Belongs(f, i, Len(Fields) + j)}
         /\ PLCCommunicationDetected => PLCCommunicationDetected'
         /\ \/ PLCCommunicationDetected' = PLCCommunicationDetected
            \/ /\ MessageStatus = "RecevingBody" /\ header' = header /\ blob' = blob
               /\ RX_BUF'[Rx_Bufffer_Index + 1]
                    = Belongs(f, i, Len(Fields) + (Rx_Bufffer_Index + 1))
<1>1. CASE MessageStatus = "WaittingNewFrame" /\ RXCount = 0 /\ FirstByte(f, i)
  <2>1. CASE Store(f, i)
    BY <1>1, <2>1, StoreFills
  <2>2. CASE UNCHANGED <<header, RX_BUF, PLCCommunicationDetected>>
    BY <2>2
  <2>3. QED
    BY <1>1, <2>1, <2>2 DEF FirstByte
<1>b. CASE BlobLength(f, i)
  <2>1. /\ header' = [header EXCEPT !.length = Belongs(f, i, 2), !.crc = NoCRC]
        /\ UNCHANGED <<RX_BUF, PLCCommunicationDetected>>
    BY <1>b DEF BlobLength
  <2>2. QED
    BY <2>1 DEF ReceiverTypeOK
<1>2. CASE /\ MessageStatus = "WaittingNewFrame" /\ RXCount \in 1 .. Len(Fields) - 1
           /\ ~blob /\ HeaderByte(f, i)
  <2>1. RXCount \in 0 .. 2 /\ Store(f, i)
    BY <1>2, ThreeFields DEF HeaderByte
  <2>2. QED
    BY <2>1, StoreFills
<1>3. CASE UNCHANGED <<parser, slot, PLCCommunicationDetected>>
  BY <1>3 DEF parser
<1>4. CASE MessageStatus = "RecevingBody" /\ BodyByte(f, i)
  <2> DEFINE index == Rx_Bufffer_Index + 1
  <2>1. /\ UNCHANGED <<header, blob>>
        /\ RX_BUF' = [RX_BUF EXCEPT ![index] = Belongs(f, i, Len(Fields) + index)]
    BY <1>4 DEF BodyByte
  <2>2. index \in 1 .. MaxRxBufferLength /\ RX_BUF \in [1 .. MaxRxBufferLength -> Marked]
    <3>1. MaxRxBufferLength \in Nat \ {0}
      BY SizeTypes
    <3>2. QED
      BY <3>1 DEF ReceiverTypeOK, Marked
  <2> HIDE DEF index
  <2>3. /\ RX_BUF'[index] = Belongs(f, i, Len(Fields) + index)
        /\ \A j \in 1 .. MaxRxBufferLength :
             RX_BUF'[j] \in {RX_BUF[j], Belongs(f, i, Len(Fields) + j)}
    BY <2>1, <2>2
  <2>4. PLCCommunicationDetected => PLCCommunicationDetected'
    BY <1>4 DEF BodyByte
  <2>5. QED
    BY <1>4, <2>1, <2>3, <2>4 DEF index
<1>5. QED
  BY <1>1, <1>b, <1>2, <1>3, <1>4 DEF PLC_Byte_Recived

\* No place of a frame that is past is written a second time.
LEMMA PastIsPast ==
  ASSUME ReceiverTypeOK, Sending,
         NEW g \in Frames, NEW p \in Nat, Past(g, p)
  PROVE  /\ Past(g, p)'
         /\ \A place \in Nat : place <= p => Belongs(frame', sent', place) # g
<1>1. /\ frame \in Nat /\ sent \in Nat /\ g \in Nat /\ g # Garbage
      /\ \/ frame' = frame /\ sent' = sent + 1
         \/ frame' = frame + 1 /\ sent' = 1
  BY SizeTypes DEF ReceiverTypeOK, Sending, Garbage
<1>2. QED
  BY <1>1 DEF Past, Belongs

\* A byte that is a frame's own has been sent.
LEMMA OwnIsPast ==
  ASSUME ReceiverTypeOK, Sending,
         NEW g \in Frames, NEW p \in Nat, Belongs(frame', sent', p) = g
  PROVE  Past(g, p)'
<1>1. sent' \in Nat /\ g # Garbage
  <2>1. sent \in Nat
    BY DEF ReceiverTypeOK
  <2>2. g # Garbage
    BY SizeTypes
  <2>3. QED
    BY <2>1, <2>2 DEF Sending
<1>2. frame' = g /\ sent' = p
  BY <1>1 DEF Belongs
<1>3. QED
  BY <1>1, <1>2 DEF Past

\* A byte, its own or damaged, that arrives.
LEMMA ByteKeepsTypes ==
  ASSUME ReceiverInv, ByteArrives
  PROVE  ReceiverTypeOK' /\ ArrivedInv'
<1> USE DEF ReceiverInv
<1>1. UNCHANGED <<loop, handled>> /\ Sending
  BY DEF ByteArrives
<1>2. PICK f \in Marked, i \in Nat :
        /\ PLC_Byte_Recived(f, i)
        /\ f = Garbage \/ (f = frame' /\ i = sent')
  <2>1. frame' \in Marked /\ sent' \in Nat /\ Garbage \in Marked /\ 0 \in Nat
    <3>1. Len(Sizes) \in Nat
      BY SizeTypes
    <3>2. QED
      BY <1>1, <3>1 DEF Sending, ReceiverTypeOK, Marked, Frames
  <2>2. PLC_Byte_Recived(frame', sent') \/ PLC_Byte_Recived(Garbage, 0)
    BY DEF ByteArrives
  <2>3. QED
    BY <2>1, <2>2
<1>3. frame' \in Frames /\ sent' \in 0 .. Length(frame')
  <2>1. \A g \in Frames : Length(g) \in Nat /\ Length(g) >= 3
    BY SizeTypes, ThreeFields, ReceiverAssumption
  <2>2. /\ frame' \in Frames /\ sent' \in Nat
        /\ sent' = 1 \/ (frame' = frame /\ sent' <= Length(frame))
    <3>1. frame \in Frames /\ sent \in Nat
      BY <2>1 DEF ReceiverTypeOK
    <3>2. Frames = 1 .. Len(Sizes) /\ Len(Sizes) \in Nat
      BY SizeTypes DEF Frames
    <3>3. Length(frame) \in Nat /\ frame \in Nat
      BY <2>1, <3>1, <3>2
    <3>4. QED
      BY <1>1, <3>1, <3>2, <3>3 DEF Sending
  <2>3. QED
    BY <2>1, <2>2
<1>4. faults' \in 0 .. MaxFaults
  BY ReceiverAssumption DEF ByteArrives, Fault, ReceiverTypeOK
<1>5. /\ disturbed' \in BOOLEAN /\ clean' \in BOOLEAN
      /\ disturbed' => loop' \in {"check", "handle", "clear"}
  <2>1. disturbed' \in BOOLEAN /\ clean' \in BOOLEAN
    BY Zenon DEF ByteArrives, Undisturbed, ReceiverTypeOK
  <2>2. disturbed' => disturbed \/ loop \in {"check", "handle"}
    BY Zenon DEF ByteArrives
  <2>3. QED
    BY <1>1, <2>1, <2>2 DEF ReceiverTypeOK
<1>6. ReceiverTypeOK'
  BY <1>1, <1>2, <1>3, <1>4, <1>5, ByteTypes DEF ReceiverTypeOK, Marked
<1>7. ArrivedInv'
  <2>1. \A g \in Frames, p \in Nat : Belongs(f, i, p) = g => Past(g, p)'
    <3>1. CASE f = Garbage
      BY <3>1, SizeTypes DEF Belongs
    <3>2. CASE f = frame' /\ i = sent'
      BY <1>1, <3>2, OwnIsPast
    <3>3. QED
      BY <1>2, <3>1, <3>2
  <2>2. \A g \in Frames, p \in Nat : Past(g, p) => Past(g, p)'
    BY <1>1, PastIsPast
  <2>3. /\ header'.type \in {header.type, Belongs(f, i, 1)}
        /\ \A j \in 1 .. MaxRxBufferLength :
             RX_BUF'[j] \in {RX_BUF[j], Belongs(f, i, Len(Fields) + j)}
    BY <1>2, ByteMarks
  <2>4. \A g \in Frames : header'.type = g => Past(g, 1)'
    BY <2>1, <2>2, <2>3, SizeTypes DEF ArrivedInv
  <2>5. \A j \in 1 .. MaxRxBufferLength : \A g \in Frames :
          RX_BUF'[j] = g => Past(g, Len(Fields) + j)'
    <3> SUFFICES ASSUME NEW j \in 1 .. MaxRxBufferLength, NEW g \in Frames, RX_BUF'[j] = g
                 PROVE  Past(g, Len(Fields) + j)'
      OBVIOUS
    <3>1. Len(Fields) + j \in Nat /\ g # Garbage
      BY SizeTypes
    <3>2. RX_BUF[j] = g => Past(g, Len(Fields) + j)
      BY <3>1 DEF ArrivedInv
    <3>3. QED
      BY <2>1, <2>2, <2>3, <3>1, <3>2
  <2>6. MessageStatus' = "RecevingBody" =>
          blob' \/ Rx_Bufffer_Index' = 0 \/ ~BodyReceived(Rx_Bufffer_Index', Sizes[header'.length])
    BY <1>1, <1>2, ByteTypes
  <2>7. /\ header'.type \in Frames \/ header'.type = Garbage
        /\ \A j \in 1 .. MaxRxBufferLength : RX_BUF'[j] \in Frames \/ RX_BUF'[j] = Garbage
    BY <1>6 DEF ReceiverTypeOK
  <2>8. QED
    BY <2>4, <2>5, <2>6, <2>7 DEF ArrivedInv, Past, BodyReceived
<1>8. QED
  BY <1>6, <1>7

\* A frame that was handled is not completed a second time by bytes of others.
LEMMA ByteKeepsHandled ==
  ASSUME ReceiverInv, ByteArrives
  PROVE  HandledInv' /\ HandledWhole'
<1> USE DEF ReceiverInv
<1>1. UNCHANGED <<loop, handled>> /\ Sending
  BY DEF ByteArrives
<1>2. PICK f \in Marked, i \in Nat :
        /\ PLC_Byte_Recived(f, i)
        /\ f = Garbage \/ (f = frame' /\ i = sent')
  <2>1. frame' \in Marked /\ sent' \in Nat /\ Garbage \in Marked /\ 0 \in Nat
    <3>1. Len(Sizes) \in Nat
      BY SizeTypes
    <3>2. QED
      BY <1>1, <3>1 DEF Sending, ReceiverTypeOK, Marked, Frames
  <2>2. PLC_Byte_Recived(frame', sent') \/ PLC_Byte_Recived(Garbage, 0)
    BY DEF ByteArrives
  <2>3. QED
    BY <2>1, <2>2
<1>3. ASSUME NEW n \in DOMAIN handled, NEW g \in Frames, handled[n] = g
      PROVE  /\ frame' >= g
             /\ Sizes[g] > 0 => Past(g, Len(Fields) + Sizes[g])'
             /\ header'.type # Garbage => g <= header'.type
             /\ Even(g) /\ Whole' /\ header'.type = g =>
                  loop' # "handle" /\ (PLCCommunicationDetected' => loop' = "clear")
  <2>1. g \in Frames /\ Sizes[g] \in Nat /\ Len(Fields) + Sizes[g] \in Nat
    <3>1. Sizes[g] \in 0 .. MaxRxBufferLength - 1 /\ Len(Fields) = 3
      BY SizeTypes, ThreeFields
    <3>2. QED
      BY <3>1
  <2>2. /\ frame \in Nat /\ frame' \in Nat /\ frame' >= frame /\ g \in Nat
    <3>1. g \in Nat /\ frame \in Nat
      BY <2>1, SizeTypes DEF ReceiverTypeOK
    <3>2. frame' = frame \/ frame' = frame + 1
      BY <1>1 DEF Sending
    <3>3. QED
      BY <3>1, <3>2
  <2>3. /\ frame >= g
        /\ Sizes[g] > 0 => Past(g, Len(Fields) + Sizes[g])
        /\ header.type # Garbage => g <= header.type
        /\ Even(g) /\ Whole /\ header.type = g =>
                  loop # "handle" /\ (PLCCommunicationDetected => loop = "clear")
    <3>1. g # Garbage
      BY SizeTypes
    <3>2. QED
      BY <1>3, <3>1 DEF HandledInv
  <2>4. header'.type \in {header.type, Belongs(f, i, 1)}
    BY <1>2, ByteMarks
  <2>5. frame' >= g
    BY <2>2, <2>3
  <2>6. Sizes[g] > 0 => Past(g, Len(Fields) + Sizes[g])'
    BY <1>1, <2>1, <2>3, PastIsPast
  <2>7. header'.type # Garbage => g <= header'.type
    BY <1>2, <2>3, <2>4, <2>5 DEF Belongs
  <2>8. ASSUME Even(g), Whole', header'.type = g
        PROVE  loop' # "handle" /\ (PLCCommunicationDetected' => loop' = "clear")
    <3> DEFINE size == Sizes[g]
    <3>1. size \in 1 .. MaxRxBufferLength - 1 /\ size % 2 = 0 /\ Len(Fields) = 3
          /\ MaxRxBufferLength \in Nat
      BY <2>1, <2>8, SizeTypes, ThreeFields DEF Even
    <3>2. \A p \in 1 .. 3 + size : Belongs(f, i, p) # g
      BY <1>1, <1>2, <2>1, <2>3, <3>1, PastIsPast, SizeTypes DEF Belongs
    <3>3. header'.length = g /\ \A j \in 1 .. size : RX_BUF'[j] = g
      BY <2>8 DEF Whole
    <3>4. /\ header'.length \in {header.length, Belongs(f, i, 2)}
          /\ \A j \in 1 .. MaxRxBufferLength :
               RX_BUF'[j] \in {RX_BUF[j], Belongs(f, i, Len(Fields) + j)}
          /\ \/ PLCCommunicationDetected' = PLCCommunicationDetected
             \/ /\ MessageStatus = "RecevingBody" /\ header' = header
                /\ RX_BUF'[Rx_Bufffer_Index + 1]
                     = Belongs(f, i, Len(Fields) + (Rx_Bufffer_Index + 1))
      BY <1>2, ByteMarks
    <3>5. header.type = g /\ header.length = g
      BY <2>4, <2>8, <3>1, <3>2, <3>3, <3>4
    <3>6. \A j \in 1 .. size : RX_BUF[j] = g
      <4> TAKE j \in 1 .. size
      <4>1. j \in 1 .. MaxRxBufferLength /\ Len(Fields) + j \in 1 .. 3 + size
        BY <3>1
      <4>2. QED
        BY <3>2, <3>3, <3>4, <4>1
    <3>7. Whole
      BY <2>1, <3>5, <3>6, SizeTypes DEF Whole
    <3>8. PLCCommunicationDetected' = PLCCommunicationDetected
      <4> SUFFICES ASSUME MessageStatus = "RecevingBody",
                          RX_BUF'[Rx_Bufffer_Index + 1]
                             = Belongs(f, i, Len(Fields) + (Rx_Bufffer_Index + 1))
                   PROVE  FALSE
        BY <3>4
      <4>0. ~blob
        BY <2>1, <3>5, SizeTypes DEF ReceiverTypeOK
      <4>1. Rx_Bufffer_Index \in Nat /\ Rx_Bufffer_Index <= size
            /\ (Rx_Bufffer_Index = 0 \/ ~BodyReceived(Rx_Bufffer_Index, size))
        BY <3>5, <4>0 DEF ReceiverTypeOK, ArrivedInv
      <4>2. Rx_Bufffer_Index + 1 \in 1 .. size
        BY <3>1, <4>1 DEF BodyReceived
      <4>3. QED
        BY <3>1, <3>2, <3>3, <4>2
    <3>9. QED
      BY <1>1, <2>3, <2>8, <3>5, <3>7, <3>8
  <2>9. QED
    BY <2>5, <2>6, <2>7, <2>8
<1>4. HandledInv'
  <2>1. \A n \in DOMAIN handled : handled[n] \in Frames \/ handled[n] = Garbage
    BY DEF ReceiverTypeOK
  <2>2. loop' = "check" => PLCCommunicationDetected'
    BY <1>1, <1>2, ByteMarks DEF HandledInv
  <2>3. QED
    BY <1>1, <1>3, <2>1, <2>2 DEF HandledInv, Past, Whole, Even
<1>5. HandledWhole'
  <2>1. loop' = "handle" /\ ~disturbed' => ~disturbed /\ UNCHANGED <<header, RX_BUF>>
    BY <1>1 DEF ByteArrives
  <2>2. loop' = "handle" /\ ~disturbed' /\ header'.crc # NoCRC => Whole'
    BY <1>1, <2>1 DEF HandledWhole, Whole
  <2>3. QED
    BY <1>1, <2>2 DEF HandledWhole
<1>6. QED
  BY <1>4, <1>5

\* A byte is lost on the way, or the modem breaks a frame off.
LEMMA LossKeeps ==
  ASSUME ReceiverInv, ByteLost \/ BreaksOff
  PROVE  ReceiverInv'
<1> USE DEF ReceiverInv
<1>1. /\ UNCHANGED <<parser, PLCCommunicationDetected, slot, loop, handled, disturbed>>
      /\ clean' = FALSE /\ Fault
  BY DEF ByteLost, BreaksOff
<1>2. /\ frame' \in Frames /\ sent' \in 0 .. Length(frame')
      /\ \A g \in Frames, p \in Nat : Past(g, p) => Past(g, p)'
      /\ frame' >= frame
  <2>1. frame \in Nat /\ \A g \in Frames : Length(g) \in Nat /\ Length(g) >= 3
    <3>1. frame \in Nat
      BY SizeTypes DEF ReceiverTypeOK
    <3>2. \A g \in Frames : Length(g) \in Nat /\ Length(g) >= 3
      BY SizeTypes, ThreeFields, ReceiverAssumption
    <3>3. QED
      BY <3>1, <3>2
  <2>2. CASE ByteLost
    <3>1. frame' \in Frames /\ sent' \in Nat
          /\ (sent' = 1 \/ (frame' = frame /\ sent' <= Length(frame))) /\ frame' >= frame
      <4>1. Sending /\ Frames = 1 .. Len(Sizes) /\ Len(Sizes) \in Nat
        BY <2>2, ReceiverAssumption DEF ByteLost, Frames
      <4>2. frame \in Frames /\ sent \in Nat
        BY DEF ReceiverTypeOK
      <4>3. QED
        BY <2>1, <4>1, <4>2 DEF Sending
    <3>2. QED
      BY <2>1, <2>2, <3>1, PastIsPast DEF ByteLost
  <2>3. CASE BreaksOff
    BY <2>1, <2>3 DEF BreaksOff, ReceiverTypeOK, Past
  <2>4. QED
    BY <2>2, <2>3
<1>3. faults' \in 0 .. MaxFaults
  BY <1>1, ReceiverAssumption DEF Fault, ReceiverTypeOK
<1>4. ReceiverTypeOK'
  <2>1. /\ disturbed' \in BOOLEAN /\ clean' \in BOOLEAN
        /\ disturbed' => loop' \in {"check", "handle", "clear"}
    BY <1>1 DEF ReceiverTypeOK
  <2>2. QED
    BY <1>1, <1>2, <1>3, <2>1 DEF ReceiverTypeOK, parser, slot, AtRest, Torn
<1>5. ArrivedInv'
  <2>1. \A j \in 1 .. MaxRxBufferLength :
          /\ Len(Fields) + j \in Nat
          /\ RX_BUF[j] \in Frames \/ RX_BUF[j] = Garbage
    BY ThreeFields DEF ReceiverTypeOK
  <2>2. header.type \in Frames \/ header.type = Garbage
    BY DEF ReceiverTypeOK
  <2>3. header.type # Garbage => Past(header.type, 1)'
    BY <1>1, <1>2, <2>2 DEF ArrivedInv, Past, parser
  <2>4. QED
    BY <1>1, <1>2, <2>1, <2>2, <2>3 DEF ArrivedInv, Past, parser, BodyReceived
<1>6. HandledInv'
  <2>1. \A n \in DOMAIN handled : handled[n] \in Frames \/ handled[n] = Garbage
    BY DEF ReceiverTypeOK
  <2>2. \A g \in Frames : g \in Nat /\ Len(Fields) + Sizes[g] \in Nat
    <3>1. \A g \in Frames :
            g \in Nat /\ Len(Fields) = 3 /\ Sizes[g] \in 0 .. MaxRxBufferLength - 1
      BY SizeTypes, ThreeFields
    <3>2. QED
      BY <3>1
  <2>3. frame \in Nat /\ frame' \in Nat
    BY <1>2, <2>2 DEF ReceiverTypeOK
  <2>4. ASSUME NEW n \in DOMAIN handled, NEW g \in Frames, handled[n] = g
        PROVE  /\ frame' >= g
               /\ Sizes[g] > 0 => Past(g, Len(Fields) + Sizes[g])'
               /\ header.type # Garbage => g <= header.type
               /\ Even(g) /\ Whole /\ header.type = g =>
                    loop # "handle" /\ (PLCCommunicationDetected => loop = "clear")
    <3>1. /\ frame >= g
          /\ Sizes[g] > 0 => Past(g, Len(Fields) + Sizes[g])
          /\ header.type # Garbage => g <= header.type
          /\ Even(g) /\ Whole /\ header.type = g =>
                    loop # "handle" /\ (PLCCommunicationDetected => loop = "clear")
      BY <2>4, SizeTypes DEF HandledInv
    <3>2. g \in Nat /\ Len(Fields) + Sizes[g] \in Nat
      BY <2>2
    <3>3. Sizes[g] > 0 => Past(g, Len(Fields) + Sizes[g])'
      BY <1>2, <3>1, <3>2
    <3>4. frame' >= g
      <4>1. frame' >= frame /\ frame >= g
        BY <1>2, <3>1
      <4>2. QED
        BY <2>3, <3>2, <4>1
    <3>5. QED
      BY <3>1, <3>3, <3>4
  <2>5. QED
    BY <1>1, <2>1, <2>4 DEF HandledInv, Past, Whole, Even, parser
<1>7. HandledWhole'
  BY <1>1 DEF HandledWhole, Whole, parser
<1>8. QED
  BY <1>4, <1>5, <1>6, <1>7

\* The timer and the steps of the main loop that neither check nor handle a frame.
LEMMA LoopKeeps ==
  ASSUME ReceiverInv,
         \/ TimerExpires \/ NoFrame \/ CheckBegins \/ ClearDetected \/ TaskDue
         \/ ClearTime \/ ClearMark \/ UNCHANGED receiverVars
  PROVE  ReceiverInv'
<1> USE DEF ReceiverInv
<1>1. /\ UNCHANGED <<parser, line, handled>>
      /\ loop' = "handle" => loop = "handle" /\ disturbed' = disturbed
      /\ PLCCommunicationDetected' => PLCCommunicationDetected
      /\ PLCCommunicationDetected /\ loop = "clear"
           => loop' = "clear" \/ ~PLCCommunicationDetected'
  BY DEF TimerExpires, NoFrame, CheckBegins, ClearDetected, TaskDue, ClearTime, ClearMark,
         receiverVars, Step, history, ReceiverTypeOK
<1>2. ReceiverTypeOK'
  <2>1. /\ loop' \in {"loop", "check", "handle", "clear", "tasks", "clear_time", "clear_mark",
                   "reset", "reset_rest"}
        /\ disturbed' => loop' \in {"check", "handle", "clear"}
        /\ \/ time_in_ms' \/ executable' \/ loop' \in {"clear_mark", "reset", "reset_rest"}
           \/ ~(time_in_ms \/ executable \/ loop \in {"clear_mark", "reset", "reset_rest"})
    BY DEF TimerExpires, NoFrame, CheckBegins, ClearDetected, TaskDue, ClearTime, ClearMark,
           receiverVars, Step, slot, history, ReceiverTypeOK
  <2>2. PLCCommunicationDetected' \in BOOLEAN /\ time_in_ms' \in BOOLEAN
        /\ executable' \in BOOLEAN /\ disturbed' \in BOOLEAN /\ clean' \in BOOLEAN
    BY Zenon DEF TimerExpires, NoFrame, CheckBegins, ClearDetected, TaskDue, ClearTime,
                 ClearMark, receiverVars, Step, slot, history, ReceiverTypeOK
  <2>3. QED
    BY <1>1, <2>1, <2>2 DEF ReceiverTypeOK, AtRest, Torn, parser, line
<1>3. ArrivedInv'
  BY <1>1 DEF ArrivedInv, Past, parser, line, BodyReceived
<1>4. HandledInv'
  <2>1. loop' = "check" => PLCCommunicationDetected'
    BY DEF TimerExpires, NoFrame, CheckBegins, ClearDetected, TaskDue, ClearTime, ClearMark,
           receiverVars, Step, HandledInv
  <2>2. QED
    BY <1>1, <2>1 DEF HandledInv, Past, Whole, Even, parser, line
<1>5. HandledWhole'
  BY <1>1 DEF HandledWhole, Whole, parser
<1>6. QED
  BY <1>2, <1>3, <1>4, <1>5

\* The main loop checks a frame that waits: what it goes on with is whole.
LEMMA CheckKeeps ==
  ASSUME ReceiverInv, CheckCRC
  PROVE  ReceiverInv'
<1> USE DEF ReceiverInv
<1>1. /\ UNCHANGED <<parser, PLCCommunicationDetected, slot, history, line>>
      /\ loop = "check"
      /\ (loop' = "handle" /\ (disturbed \/ CRCsMatch)) \/ loop' = "clear"
  BY DEF CheckCRC, Step
<1>2. ReceiverTypeOK'
  BY <1>1 DEF ReceiverTypeOK, parser, slot, history, line, AtRest, Torn
<1>3. ArrivedInv'
  BY <1>1 DEF ArrivedInv, Past, parser, line, BodyReceived
<1>4. HandledInv'
  <2>1. PLCCommunicationDetected /\ loop # "clear" /\ loop' # "check"
    BY <1>1 DEF HandledInv
  <2>2. UNCHANGED <<header, RX_BUF, PLCCommunicationDetected, frame, sent, handled>>
    BY <1>1 DEF parser, history, line
  <2>3. QED
    BY <2>1, <2>2 DEF HandledInv, Past, Whole, Even
<1>5. HandledWhole'
  <2>1. CRCsMatch /\ header.crc # NoCRC => Whole
    BY DEF CRCsMatch, HeaderCRC, PayloadCRC, Whole
  <2>2. QED
    BY <1>1, <2>1 DEF HandledWhole, Whole, parser, history
<1>6. QED
  BY <1>2, <1>3, <1>4, <1>5

\* A frame is handled: it comes after all that were, or again with a byte to come.
LEMMA HandleKeeps ==
  ASSUME ReceiverInv, Handle
  PROVE  ReceiverInv'
<1> USE DEF ReceiverInv
<1> DEFINE h == IF Whole THEN header.type ELSE Garbage
           n == Len(handled) + 1
<1>1. /\ UNCHANGED <<parser, PLCCommunicationDetected, slot, disturbed, clean, line>>
      /\ loop = "handle" /\ loop' = "clear" /\ handled' = Append(handled, h)
  BY DEF Handle, Step
<1>2. h \in Frames \union {Garbage} /\ handled \in Seq(Frames \union {Garbage})
  BY DEF ReceiverTypeOK
<1>3. /\ handled' \in Seq(Frames \union {Garbage}) /\ DOMAIN handled' = 1 .. n
      /\ DOMAIN handled = 1 .. n - 1 /\ n \in Nat
      /\ handled'[n] = h /\ \A i \in DOMAIN handled : handled'[i] = handled[i]
  <2> HIDE DEF h
  <2>1. QED
    BY <1>1, <1>2
<1>4. ReceiverTypeOK'
  BY <1>1, <1>3 DEF ReceiverTypeOK, parser, slot, line, AtRest, Torn
<1>5. ArrivedInv'
  BY <1>1 DEF ArrivedInv, Past, parser, line, BodyReceived
<1>6. h # Garbage =>
        /\ Whole /\ header.type = h /\ h \in Frames /\ frame >= h
        /\ Sizes[h] > 0 => Past(h, Len(Fields) + Sizes[h])
  <2> SUFFICES ASSUME Whole, h # Garbage, h = header.type
               PROVE  /\ h \in Frames /\ frame >= h
                      /\ Sizes[h] > 0 => Past(h, Len(Fields) + Sizes[h])
    OBVIOUS
  <2> HIDE DEF h
  <2>1. h \in Frames /\ frame \in Nat /\ h \in Nat
    BY <1>2, SizeTypes DEF ReceiverTypeOK
  <2>2. Sizes[h] \in 0 .. MaxRxBufferLength - 1 /\ MaxRxBufferLength \in Nat
    BY <2>1, SizeTypes
  <2>3. frame >= h
    BY <2>1 DEF ArrivedInv, Past
  <2>4. Sizes[h] > 0 => Past(h, Len(Fields) + Sizes[h])
    <3> SUFFICES ASSUME Sizes[h] > 0
                 PROVE  Past(h, Len(Fields) + Sizes[h])
      OBVIOUS
    <3>1. Sizes[h] \in 1 .. Sizes[h] /\ Sizes[h] \in 1 .. MaxRxBufferLength
      BY <2>2
    <3>2. RX_BUF[Sizes[h]] = h
      BY <3>1 DEF Whole
    <3>3. QED
      BY <3>1, <3>2 DEF ArrivedInv
  <2>5. QED
    BY <2>1, <2>3, <2>4
<1>7. HandledInv'
  <2>1. ASSUME NEW i \in DOMAIN handled', handled'[i] # Garbage
        PROVE  /\ frame >= handled'[i]
               /\ Sizes[handled'[i]] > 0
                    => Past(handled'[i], Len(Fields) + Sizes[handled'[i]])
               /\ header.type # Garbage => handled'[i] <= header.type
    <3>1. CASE i = n
      <4>1. handled'[i] = h
        BY <1>3, <3>1
      <4> HIDE DEF h
      <4>2. h \in Nat
        BY <1>2, SizeTypes DEF Garbage
      <4>3. QED
        BY <1>6, <2>1, <4>1, <4>2
    <3>2. CASE i \in DOMAIN handled
      BY <1>3, <2>1, <3>2 DEF HandledInv
    <3>3. QED
      BY <1>3, <3>1, <3>2
  <2>2. QED
    BY <1>1, <2>1 DEF HandledInv, Past, Whole, Even, parser, line
<1>8. HandledWhole'
  <2>1. ASSUME NEW i \in DOMAIN handled', NEW j \in DOMAIN handled', i < j,
               handled'[j] # Garbage
        PROVE  \/ handled'[i] < handled'[j]
               \/ /\ handled'[i] = handled'[j]
                  /\ Sizes[handled'[j]] = 0 \/ Sizes[handled'[j]] % 2 = 1
    <3>1. CASE j \in DOMAIN handled
      <4>1. i \in DOMAIN handled
        BY <1>3, <2>1, <3>1
      <4>2. QED
        BY <1>3, <2>1, <3>1, <4>1 DEF HandledWhole
    <3>2. CASE j = n
      <4>1. i \in DOMAIN handled /\ handled'[i] = handled[i] /\ handled'[j] = h
        BY <1>3, <2>1, <3>2
      <4>2. /\ h # Garbage /\ Whole /\ header.type = h /\ h \in Frames
        BY <1>6, <2>1, <4>1
      <4> HIDE DEF h
      <4>3. CASE handled[i] = Garbage
        <5>1. h \in Nat \ {0}
          BY <4>2, SizeTypes
        <5>2. QED
          BY <4>1, <4>3, <5>1 DEF Garbage
      <4>4. CASE handled[i] # Garbage
        <5>1. handled[i] <= h /\ ~(Even(handled[i]) /\ h = handled[i])
          BY <1>1, <4>1, <4>2, <4>4 DEF HandledInv
        <5>2. handled[i] \in Frames
          BY <4>1, <4>4 DEF ReceiverTypeOK
        <5>3. h \in Nat /\ handled[i] \in Nat
          BY <4>2, <5>2, SizeTypes
        <5>4. Sizes[h] \in Nat /\ Sizes[h] % 2 \in {0, 1}
          BY <4>2, SizeTypes
        <5>5. QED
          BY <4>1, <5>1, <5>3, <5>4 DEF Even
      <4>5. QED
        BY <4>3, <4>4
    <3>3. QED
      BY <1>3, <3>1, <3>2
  <2>2. QED
    BY <1>1, <2>1 DEF HandledWhole
<1>9. QED
  BY <1>4, <1>5, <1>7, <1>8

\* The two halves of reset_plc_state_flow.
LEMMA ResetKeeps ==
  ASSUME ReceiverInv, ResetStatus \/ ResetRest
  PROVE  ReceiverInv'
<1> USE DEF ReceiverInv
<1>1. /\ UNCHANGED <<RX_BUF, blob, PLCCommunicationDetected, slot, history, line>>
      /\ loop \in {"reset", "reset_rest"} /\ loop' \in {"reset_rest", "loop"}
      /\ header'.type = header.type /\ header'.length = header.length
      /\ header' \in [type : Marked, length : Marked, crc : Marked \union {NoCRC}]
  BY DEF ResetStatus, ResetRest, Step, ReceiverTypeOK, Marked
<1>2. \/ /\ loop' = "reset_rest" /\ MessageStatus' = "WaittingNewFrame"
         /\ UNCHANGED <<RXCount, Rx_Bufffer_Index>>
      \/ RXCount' = 0 /\ Rx_Bufffer_Index' = 0 /\ MessageStatus' = MessageStatus
  BY DEF ResetStatus, ResetRest, Step
<1>3. MaxRxBufferLength \in Nat \ {0} /\ \A f \in Frames : Sizes[f] \in Nat
  BY SizeTypes
<1>4. ReceiverTypeOK'
  <2>1. MessageStatus' = "RecevingBody" =>
          \/ blob /\ RXCount' \in {0, 1}
          \/ /\ RXCount' \in {0, Len(Fields)}
             /\ header'.type # Garbage /\ header'.type = header'.length
             /\ Rx_Bufffer_Index' <= Sizes[header'.length]
    BY <1>1, <1>2, <1>3 DEF ReceiverTypeOK
  <2>2. \/ AtRest' \/ Torn'
        \/ time_in_ms' \/ executable' \/ loop' \in {"clear_mark", "reset", "reset_rest"}
    BY <1>1, <1>2 DEF ReceiverTypeOK, AtRest, Torn
  <2>3. /\ MessageStatus' \in {"WaittingNewFrame", "RecevingBody"}
        /\ RXCount' \in 0 .. Len(Fields) /\ Rx_Bufffer_Index' \in 0 .. MaxRxBufferLength - 1
    BY <1>2, <1>3 DEF ReceiverTypeOK, Fields
  <2>4. QED
    BY <1>1, <2>1, <2>2, <2>3 DEF ReceiverTypeOK, Marked, slot, history, line
<1>5. ArrivedInv'
  BY <1>1, <1>2 DEF ArrivedInv, Past, line, BodyReceived
<1>6. HandledInv'
  BY <1>1 DEF HandledInv, Past, Whole, Even, line, history
<1>7. HandledWhole'
  BY <1>1 DEF HandledWhole, Whole, history
<1>8. QED
  BY <1>4, <1>5, <1>6, <1>7

\* The inductive invariant holds in every reachable state.
LEMMA ReceiverInvariant == ReceiverSpec => []ReceiverInv
<1>1. ReceiverInit => ReceiverInv
  <2> SUFFICES ASSUME ReceiverInit PROVE ReceiverInv
    OBVIOUS
  <2>1. /\ Len(Fields) = 3 /\ 1 \in Frames /\ Length(1) \in Nat
        /\ MaxRxBufferLength \in Nat \ {0}
    BY SizeTypes, ThreeFields
  <2>2. ReceiverTypeOK
    <3>1. header \in [type : Marked, length : Marked, crc : Marked \union {NoCRC}]
      BY DEF ReceiverInit, Marked
    <3>2. RX_BUF \in [1 .. MaxRxBufferLength -> Marked]
      BY DEF ReceiverInit, Marked
    <3>3. frame \in Frames /\ sent \in 0 .. Length(frame) /\ faults \in 0 .. MaxFaults
          /\ RXCount \in 0 .. Len(Fields) /\ Rx_Bufffer_Index \in 0 .. MaxRxBufferLength - 1
      BY <2>1, ReceiverAssumption DEF ReceiverInit
    <3>4. PLCCommunicationDetected \in BOOLEAN /\ time_in_ms \in BOOLEAN
          /\ executable \in BOOLEAN /\ disturbed \in BOOLEAN /\ clean \in BOOLEAN
      BY DEF ReceiverInit
    <3>5. handled \in Seq(Frames \union {Garbage})
      BY DEF ReceiverInit
    <3>6. QED
      BY <3>1, <3>2, <3>3, <3>4, <3>5 DEF ReceiverInit, ReceiverTypeOK, AtRest, Marked
  <2>3. ArrivedInv /\ HandledInv /\ HandledWhole
    BY DEF ReceiverInit, ArrivedInv, HandledInv, HandledWhole
  <2>4. QED
    BY <2>2, <2>3 DEF ReceiverInv
<1>2. ReceiverInv /\ [ReceiverNext]_receiverVars => ReceiverInv'
  BY ByteKeepsTypes, ByteKeepsHandled, LossKeeps, LoopKeeps, CheckKeeps, HandleKeeps, ResetKeeps
  DEF ReceiverNext, MainLoop, ReceiverInv
<1>3. QED
  BY <1>1, <1>2, PTL DEF ReceiverSpec

(* The parser stays inside its buffer, is inside a body only behind a      *)
(* header that is right or is taken for that of a blob, and is watched     *)
(* over by its task, for any frames, any number of damaged, lost and       *)
(* broken off ones, and every interleaving of the handler of the modem's   *)
(* bytes with the timer and the main loop.                                 *)
THEOREM ReceiverTypeCorrect == ReceiverSpec => []ReceiverTypeOK
<1>1. ReceiverInv => ReceiverTypeOK
  BY DEF ReceiverInv
<1>2. QED
  BY <1>1, ReceiverInvariant, PTL

(* A frame that is handled is whole and comes after those that were, as    *)
(* HandledWhole has it.                                                    *)
THEOREM HandlesWholeFrames == ReceiverSpec => []HandledWhole
<1>1. ReceiverInv => HandledWhole
  BY DEF ReceiverInv
<1>2. QED
  BY <1>1, ReceiverInvariant, PTL
-----------------------------------------------------------------------------
(* What fairness acts on, for CleanHandled.                                *)

(* The first bytes of a clean frame are in their places, and nothing is in *)
(* the way of the next.                                                    *)
Coming ==
  /\ ~executable /\ ~PLCCommunicationDetected /\ loop \in {"loop", "tasks"}
  /\ header.type = frame
  /\ sent < 3 => MessageStatus = "WaittingNewFrame" /\ RXCount = sent
  /\ sent = 2 => header.length = frame
  /\ sent > 2 =>
       /\ MessageStatus = "RecevingBody" /\ Rx_Bufffer_Index = sent - 3
       /\ header.length = frame /\ header.crc = frame
       /\ \A j \in 1 .. sent - 3 : RX_BUF[j] = frame

(* The frame waits for the main loop, with its checksums or without.       *)
FrameWaits ==
  /\ PLCCommunicationDetected /\ loop # "clear" /\ ~disturbed
  /\ header.type = frame /\ header.length = frame /\ header.crc \in {frame, NoCRC}
  /\ \A j \in 1 .. Sizes[frame] : RX_BUF[j] = frame

FrameHandled == \E i \in DOMAIN handled : handled[i] = frame

CleanInv ==
  clean =>
    /\ sent > 0
    /\ sent < Length(frame) => Coming
    /\ sent = Length(frame) /\ Sizes[frame] > 0 => FrameHandled \/ FrameWaits

(* emeter-main.c:566 - a clean frame that has been sent to its end has been *)
(* handled, or it waits undamaged, flagged, and will pass its check.       *)
CleanKept ==
  clean /\ sent = Length(frame) /\ Sizes[frame] > 0 =>
    \/ FrameHandled
    \/ /\ PLCCommunicationDetected /\ loop # "clear"
       /\ CRCsMatch /\ Whole /\ header.type = frame

\* The first byte of a frame at a parser at rest.
LEMMA CleanBegins ==
  ASSUME ReceiverTypeOK, ByteArrives, clean', sent' = 1,
         PLC_Byte_Recived(frame', sent'), clean' = Undisturbed,
         frame' \in Frames
  PROVE  Coming'
<1>1. /\ MessageStatus = "WaittingNewFrame" /\ RXCount = 0
      /\ ~executable /\ ~PLCCommunicationDetected /\ loop \in {"loop", "tasks"} /\ loop' = loop
  BY Zenon DEF Undisturbed, AtRest, ByteArrives
<1>2. FirstByte(frame', 1)
  BY <1>1, ThreeFields DEF PLC_Byte_Recived
<1>3. /\ Store(frame', 1) /\ RXCount' = 1
      /\ UNCHANGED <<MessageStatus, Rx_Bufffer_Index>>
  BY <1>2 DEF FirstByte
<1>4. /\ header'.type = Belongs(frame', 1, 1) /\ PLCCommunicationDetected' = PLCCommunicationDetected
  <2>1. frame' \in Marked /\ 1 \in Nat /\ RXCount \in 0 .. 2
    BY <1>1 DEF Marked
  <2>2. QED
    BY <1>1, <1>3, <2>1, StoreFills
<1>5. header'.type = frame'
  BY <1>4 DEF Belongs
<1>6. ~executable'
  BY <1>1, <1>2, Zenon DEF FirstByte, schedule_reset
<1>7. ~PLCCommunicationDetected'
  BY <1>1, <1>4
<1>8. QED
  BY <1>1, <1>3, <1>5, <1>6, <1>7 DEF Coming

\* The bytes that follow, up to the one that completes the frame.
LEMMA CleanContinues ==
  ASSUME ReceiverTypeOK, Coming, sent > 0, sent < Length(frame),
         PLC_Byte_Recived(frame, sent + 1), UNCHANGED <<loop, frame>>, sent' = sent + 1,
         ~disturbed'
  PROVE  /\ sent' < Length(frame) => Coming'
         /\ sent' = Length(frame) /\ Sizes[frame] > 0 => FrameWaits'
<1>0. /\ frame \in Frames /\ frame \in Marked /\ frame # Garbage /\ sent \in Nat /\ sent # 0
      /\ Len(Fields) = 3 /\ sent + 1 \in Nat
      /\ Sizes[frame] \in 0 .. MaxRxBufferLength - 1 /\ Sizes[frame] % 2 \in {0, 1}
      /\ Length(frame) = 3 + Sizes[frame] + (Sizes[frame] % 2)
      /\ Sizes[frame] + (Sizes[frame] % 2) < MaxRxBufferLength /\ MaxRxBufferLength > 1
  <2>1. frame \in Frames /\ sent \in Nat
    BY DEF ReceiverTypeOK
  <2>2. frame # Garbage /\ frame \in Marked /\ sent # 0 /\ sent + 1 \in Nat
    BY <2>1, SizeTypes DEF Marked
  <2>3. Sizes[frame] \in 0 .. MaxRxBufferLength - 1 /\ Sizes[frame] % 2 \in {0, 1}
    BY <2>1, SizeTypes
  <2>4. Length(frame) = 3 + Sizes[frame] + (Sizes[frame] % 2) /\ Len(Fields) = 3
    BY ThreeFields DEF Length
  <2>5. Sizes[frame] + (Sizes[frame] % 2) < MaxRxBufferLength /\ MaxRxBufferLength > 1
    BY <2>1, SizeFits
  <2>6. QED
    BY <2>1, <2>2, <2>3, <2>4, <2>5
<1>1. CASE sent < 3
  <2>1. MessageStatus = "WaittingNewFrame" /\ RXCount = sent /\ RXCount \in 1 .. 2
    BY <1>0, <1>1 DEF Coming
  <2>2. HeaderByte(frame, sent + 1)
    <3>1. ~blob
      BY <1>0 DEF Coming, ReceiverTypeOK
    <3>2. QED
      BY <1>0, <2>1, <3>1 DEF PLC_Byte_Recived
  <2>3. Store(frame, sent + 1) /\ UNCHANGED <<time_in_ms, executable>> /\ RXCount \in 0 .. 2
    BY <2>1, <2>2 DEF HeaderByte, slot
  <2>4. /\ header'.type = header.type /\ PLCCommunicationDetected' = PLCCommunicationDetected
        /\ header'.length = IF RXCount = 1 THEN Belongs(frame, sent + 1, 2) ELSE header.length
        /\ header'.crc = IF RXCount = 2 THEN Belongs(frame, sent + 1, 3) ELSE header.crc
    BY <1>0, <2>1, <2>3, StoreFills
  <2>5. /\ ~executable' /\ ~PLCCommunicationDetected' /\ loop' \in {"loop", "tasks"}
        /\ header'.type = frame'
    BY <2>3, <2>4 DEF Coming
  <2>6. CASE sent = 1
    <3>1. RXCount' = 2 /\ UNCHANGED MessageStatus
      BY <1>0, <2>1, <2>2, <2>6 DEF HeaderByte
    <3>2. header'.length = frame
      BY <2>1, <2>4, <2>6 DEF Belongs
    <3>3. QED
      BY <1>0, <2>1, <2>5, <2>6, <3>1, <3>2 DEF Coming
  <2>7. CASE sent = 2
    <3>1. header'.length = frame /\ header'.crc = frame /\ header'.type = frame
      BY <2>1, <2>4, <2>5, <2>7 DEF Belongs, Coming
    <3>2. HeaderCRC(header')
      BY <1>0, <3>1 DEF HeaderCRC
    <3>3. MessageStatus' = "RecevingBody" /\ Rx_Bufffer_Index' = 0
      BY <1>0, <2>1, <2>2, <2>7, <3>2 DEF HeaderByte
    <3>4. sent' = 3 /\ \A j \in 1 .. sent' - 3 : RX_BUF'[j] = frame'
      BY <2>7
    <3>5. sent' = Length(frame) => Sizes[frame] = 0
      BY <1>0, <3>4
    <3>6. QED
      BY <2>5, <3>1, <3>3, <3>4, <3>5 DEF Coming
  <2>8. QED
    BY <1>0, <1>1, <2>6, <2>7
<1>2. CASE ~(sent < 3)
  <2> DEFINE index == Rx_Bufffer_Index + 1
  <2>1. /\ MessageStatus = "RecevingBody" /\ index = sent - 2
        /\ header.length = frame /\ header.crc = frame /\ header.type = frame
        /\ \A j \in 1 .. sent - 3 : RX_BUF[j] = frame
        /\ ~executable /\ ~PLCCommunicationDetected /\ loop \in {"loop", "tasks"}
    BY <1>0, <1>2 DEF Coming
  <2>2. /\ BodyByte(frame, sent + 1)
    BY <2>1 DEF PLC_Byte_Recived
  <2>b. ~blob /\ index # MaxRxBufferLength
    <3>1. ~blob
      BY <1>0, <2>1 DEF ReceiverTypeOK
    <3>2. index < 1 + Sizes[frame] + (Sizes[frame] % 2)
      BY <1>0, <1>2, <2>1
    <3>3. index < MaxRxBufferLength
      BY <1>0, <2>1, <3>2, SizeTypes
    <3>4. QED
      BY <1>0, <2>1, <3>1, <3>3, SizeTypes
  <2>3. /\ RX_BUF' = [RX_BUF EXCEPT ![index] = Belongs(frame, sent + 1, 3 + index)]
        /\ UNCHANGED <<header, time_in_ms, executable>>
    BY <1>0, <2>2 DEF BodyByte, slot
  <2>4. Belongs(frame, sent + 1, 3 + index) = frame
    BY <1>0, <2>1 DEF Belongs
  <2>5. index \in 1 .. MaxRxBufferLength /\ RX_BUF \in [1 .. MaxRxBufferLength -> Marked]
    BY <1>0, <1>2, <2>1, SizeTypes DEF ReceiverTypeOK, Marked
  <2>6. \A j \in 1 .. sent - 2 : RX_BUF'[j] = frame
    BY <1>0, <1>2, <2>1, <2>3, <2>4, <2>5
  <2>7. BodyReceived(index, Sizes[frame]) <=> sent + 1 = Length(frame)
    BY <1>0, <1>2, <2>1 DEF BodyReceived
  <2>8. CASE sent + 1 = Length(frame)
    <3>1. PLCCommunicationDetected' = TRUE
      BY <2>1, <2>2, <2>b, <2>7, <2>8 DEF BodyByte
    <3>2. \A j \in 1 .. Sizes[frame] : RX_BUF'[j] = frame
      BY <1>0, <1>2, <2>6, <2>8
    <3>3. QED
      BY <1>0, <2>1, <2>3, <2>8, <3>1, <3>2 DEF FrameWaits
  <2>9. CASE sent + 1 # Length(frame)
    <3>1. Rx_Bufffer_Index' = index /\ UNCHANGED <<MessageStatus, PLCCommunicationDetected>>
      BY <2>1, <2>2, <2>b, <2>7, <2>9 DEF BodyByte
    <3>2. /\ sent' - 3 = sent - 2 /\ ~(sent' < 3) /\ sent' # 2 /\ Rx_Bufffer_Index' = sent' - 3
      BY <1>0, <1>2, <2>1, <3>1
    <3>3. /\ ~executable' /\ ~PLCCommunicationDetected' /\ loop' \in {"loop", "tasks"}
      BY <2>1, <2>3, <3>1
    <3>4. QED
      BY <1>0, <2>1, <2>3, <2>6, <2>9, <3>1, <3>2, <3>3 DEF Coming
  <2>10. QED
    BY <2>8, <2>9
<1>3. QED
  BY <1>1, <1>2

\* A byte from the modem.
LEMMA CleanArrives ==
  ASSUME ReceiverTypeOK, CleanInv, ByteArrives
  PROVE  CleanInv'
<1> SUFFICES ASSUME clean'
             PROVE  /\ sent' > 0
                    /\ sent' < Length(frame') => Coming'
                    /\ sent' = Length(frame') /\ Sizes[frame'] > 0 => FrameHandled' \/ FrameWaits'
  BY Zenon DEF CleanInv
<1>1. PLC_Byte_Recived(frame', sent') /\ clean' = Undisturbed /\ UNCHANGED loop
  BY Zenon DEF ByteArrives
<1>2. Sending
  BY Zenon DEF ByteArrives
<1>3. frame \in Frames /\ sent \in Nat /\ Len(Sizes) \in Nat /\ frame' \in Frames
  <2>1. frame \in Frames /\ sent \in 0 .. Length(frame)
    BY Zenon DEF ReceiverTypeOK
  <2>2. Len(Sizes) \in Nat /\ Length(frame) \in Nat
    BY <2>1, SizeTypes
  <2>3. frame' = frame \/ (frame' = frame + 1 /\ frame < Len(Sizes))
    BY <1>2, Zenon DEF Sending
  <2>4. QED
    BY <2>1, <2>2, <2>3 DEF Frames
<1>4. CASE sent' = 1
  <2>1. Length(frame') \in Nat /\ Length(frame') >= 3
    BY <1>3, SizeTypes, ThreeFields
  <2>2. Coming'
    BY <1>1, <1>3, <1>4, CleanBegins
  <2>3. QED
    BY <1>4, <2>1, <2>2
<1>5. CASE sent' # 1
  <2>1. sent < Length(frame) /\ frame' = frame /\ sent' = sent + 1
    BY <1>2, <1>5 DEF Sending
  <2>2. clean
    BY <1>1, <1>5, Zenon DEF Undisturbed
  <2>3. sent > 0 /\ Coming
    BY <2>1, <2>2, Zenon DEF CleanInv
  <2>4. PLC_Byte_Recived(frame, sent + 1)
    BY <1>1, <2>1
  <2>b. ~disturbed'
    <3>1. loop \in {"loop", "tasks"} /\ ~disturbed
      BY <2>3 DEF Coming, ReceiverTypeOK
    <3>2. QED
      BY <3>1 DEF ByteArrives
  <2>5. /\ sent' < Length(frame) => Coming'
        /\ sent' = Length(frame) /\ Sizes[frame] > 0 => FrameWaits'
    BY <1>1, <2>1, <2>3, <2>4, <2>b, CleanContinues
  <2>6. QED
    BY <1>3, <2>1, <2>5
<1>6. QED
  BY <1>4, <1>5

\* What is handled stays handled.
LEMMA HandledStays ==
  ASSUME ReceiverTypeOK, MainLoop, FrameHandled
  PROVE  FrameHandled'
<1>1. frame' = frame
  BY DEF MainLoop, NoFrame, CheckBegins, CheckCRC, Handle, ClearDetected, TaskDue, ClearTime, ClearMark,
         ResetStatus, ResetRest, Step, line
<1>2. CASE Handle
  <2> DEFINE h == IF Whole THEN header.type ELSE Garbage
  <2>1. h \in Marked /\ handled \in Seq(Marked) /\ handled' = Append(handled, h)
    BY <1>2 DEF ReceiverTypeOK, Handle, Marked
  <2>2. \A i \in DOMAIN handled : i \in DOMAIN handled' /\ handled'[i] = handled[i]
    <3> HIDE DEF h
    <3>1. QED
      BY <2>1
  <2>3. QED
    BY <1>1, <2>2 DEF FrameHandled
<1>3. CASE ~Handle
  <2>1. handled' = handled
    BY <1>3 DEF MainLoop, NoFrame, CheckBegins, CheckCRC, ClearDetected, TaskDue, ClearTime, ClearMark,
                ResetStatus, ResetRest, history
  <2>2. QED
    BY <1>1, <2>1 DEF FrameHandled
<1>4. QED
  BY <1>2, <1>3

\* A frame that waits passes its check and is whole.
LEMMA WaitingPasses ==
  ASSUME ReceiverTypeOK, FrameWaits
  PROVE  /\ Whole /\ CRCsMatch /\ header.type = frame
<1>1. frame \in Frames /\ frame # Garbage
  BY SizeTypes DEF ReceiverTypeOK
<1>2. Whole
  BY <1>1 DEF Whole, FrameWaits
<1>3. header.crc = NoCRC \/ (HeaderCRC(header) /\ PayloadCRC)
  BY <1>1 DEF FrameWaits, HeaderCRC, PayloadCRC
<1>4. QED
  BY <1>2, <1>3 DEF CRCsMatch, FrameWaits

\* The main loop passes by while a frame comes, and handles it before it clears
\* the flag; the reset takes only the checksums from it.
LEMMA CleanIsServed ==
  ASSUME ReceiverTypeOK, CleanInv, MainLoop
  PROVE  CleanInv'
<1>1. UNCHANGED <<frame, sent, clean>>
  BY DEF MainLoop, NoFrame, CheckBegins, CheckCRC, Handle, ClearDetected, TaskDue, ClearTime, ClearMark,
         ResetStatus, ResetRest, Step, line, history
<1> SUFFICES ASSUME clean
             PROVE  /\ sent < Length(frame) => Coming'
                    /\ sent = Length(frame) /\ Sizes[frame] > 0 => FrameHandled' \/ FrameWaits'
  BY <1>1, Zenon DEF CleanInv
<1>2. ASSUME Coming
      PROVE  Coming'
  <2>1. /\ loop \in {"loop", "tasks"} /\ ~PLCCommunicationDetected /\ ~executable
    BY <1>2 DEF Coming
  <2>2. NoFrame \/ (TaskDue /\ loop' = "loop")
    BY <2>1 DEF MainLoop, NoFrame, CheckBegins, CheckCRC, Handle, ClearDetected, TaskDue, ClearTime,
                ClearMark, ResetStatus, ResetRest, Step
  <2>3. /\ UNCHANGED <<parser, PLCCommunicationDetected, executable>>
        /\ loop' \in {"loop", "tasks"}
    BY <2>2 DEF NoFrame, TaskDue, Step, slot
  <2>4. QED
    BY <1>1, <1>2, <2>3 DEF Coming, parser
<1>3. ASSUME FrameWaits
      PROVE  FrameHandled' \/ FrameWaits'
  <2>1. Whole /\ CRCsMatch /\ header.type = frame /\ PLCCommunicationDetected /\ loop # "clear"
        /\ ~disturbed
    BY <1>3, WaitingPasses DEF FrameWaits
  <2>2. CASE Handle
    <3>1. header.type \in Marked /\ handled \in Seq(Marked) /\ handled' = Append(handled, header.type)
      BY <2>1, <2>2 DEF ReceiverTypeOK, Handle, Marked
    <3>2. Len(handled) + 1 \in DOMAIN handled' /\ handled'[Len(handled) + 1] = header.type
      BY <3>1
    <3>3. QED
      BY <1>1, <2>1, <3>2 DEF FrameHandled
  <2>3. CASE ResetRest
    BY <1>1, <1>3, <2>3 DEF ResetRest, Step, FrameWaits, ReceiverTypeOK, history
  <2>4. CASE ~Handle /\ ~ResetRest
    <3>1. UNCHANGED <<header, RX_BUF, PLCCommunicationDetected, disturbed>> /\ loop' # "clear"
      BY <2>1, <2>4 DEF history, MainLoop, NoFrame, CheckBegins, CheckCRC, ClearDetected, TaskDue, ClearTime,
                ClearMark, ResetStatus, Step, parser
    <3>2. QED
      BY <1>1, <1>3, <3>1 DEF FrameWaits
  <2>5. QED
    BY <2>2, <2>3, <2>4
<1>4. QED
  BY <1>2, <1>3, HandledStays, Zenon DEF CleanInv

\* A clean frame that has come to its end has been handled or is about to be:
\* no reset, no task and no pass of the main loop loses it. What is left to the
\* fairness of CleanHandled is that the main loop goes on.
THEOREM CleanFramesAreKept == ReceiverSpec => []CleanKept
<1>1. ReceiverInit => CleanInv
  BY Zenon DEF ReceiverInit, CleanInv
<1>2. ReceiverInv /\ CleanInv /\ [ReceiverNext]_receiverVars => CleanInv'
  <2> SUFFICES ASSUME ReceiverTypeOK, CleanInv, [ReceiverNext]_receiverVars
               PROVE  CleanInv'
    BY Zenon DEF ReceiverInv
  <2>1. CASE ByteArrives
    BY <2>1, CleanArrives
  <2>2. CASE ByteLost \/ BreaksOff
    BY <2>2, Zenon DEF ByteLost, BreaksOff, CleanInv
  <2>3. CASE TimerExpires
    <3>1. UNCHANGED <<header, RX_BUF, PLCCommunicationDetected, loop, frame, sent, handled,
                      disturbed>>
          /\ (clean' => clean /\ sent = Length(frame))
      BY <2>3 DEF TimerExpires, parser, line
    <3>2. (FrameHandled' <=> FrameHandled) /\ (FrameWaits' <=> FrameWaits)
      BY <3>1 DEF FrameHandled, FrameWaits
    <3>3. Length(frame) \in Nat
      BY SizeTypes DEF ReceiverTypeOK
    <3>4. QED
      BY <3>1, <3>2, <3>3 DEF CleanInv
  <2>4. CASE MainLoop
    BY <2>4, CleanIsServed
  <2>5. CASE UNCHANGED receiverVars
    BY <2>5 DEF receiverVars, parser, slot, line, history, CleanInv, Coming, FrameHandled, FrameWaits
  <2>6. QED
    BY <2>1, <2>2, <2>3, <2>4, <2>5 DEF ReceiverNext
<1>3. ReceiverInv /\ CleanInv => CleanKept
  BY WaitingPasses, Zenon DEF ReceiverInv, CleanInv, CleanKept, FrameWaits
<1>4. QED
  BY <1>1, <1>2, <1>3, ReceiverInvariant, PTL DEF ReceiverSpec
=============================================================================
