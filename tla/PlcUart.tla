------------------------------ MODULE PlcUart -------------------------------
(***************************************************************************)
(* The transmitter of the power line modem's serial port: the main program *)
(* puts the bytes of a frame into the ring of Queue.c and starts the UART, *)
(* the interrupt handler fetches the bytes that follow.                    *)
(*                                                                         *)
(* Queue.h defines __monitor, which asks for a call that no interrupt can  *)
(* enter, as nothing.  So the main program's calls are taken apart here;   *)
(* the interrupt handler is not interrupted and is one step.               *)
(*                                                                         *)
(* The bytes that queue_enqueue takes are numbered 1, 2, 3, ...            *)
(***************************************************************************)
EXTENDS Integers, Sequences

CONSTANTS
  Max_Buff_Length,
  MaxBytes,    \* bound: bytes that enter the ring
  MaxFrame,    \* bound: bytes of a frame
  MaxReceived  \* bound: bytes that arrive from the modem

ASSUME UartAssumption ==
  /\ Max_Buff_Length \in 2 .. 256
  /\ MaxBytes \in Nat /\ MaxReceived \in Nat
  /\ MaxFrame \in Nat \ {0}

VARIABLES
  buffer, head, tail,  \* plc_tx_buff
  Tx_Done,
  pc,                  \* where SendMessage and the calls it makes are
  left,                \* bytes of the frame that are still to be added
  data,                \* the local variable of PLC_Start_SendBuffer
  UCTXBUF,             \* the transmit buffer of the UART, Empty when moved on
  UCTXIFG,             \* its interrupt flag
  received,            \* bytes that have arrived
  accepted,            \* history: bytes that entered the ring
  wire,                \* history: bytes that left the UART until a race
  raced,               \* history: a slot was fetched before its byte was stored
  mixed,               \* history: a byte arrived during a transmission
  stalled              \* history: a transmission was started with an empty ring

ring == <<buffer, head, tail>>
hw   == <<UCTXBUF, UCTXIFG>>
mishaps == <<raced, mixed, stalled>>
uartVars == <<ring, hw, Tx_Done, pc, left, data, received, accepted, wire, mishaps>>

Empty == -1

Q == INSTANCE Queue WITH Bytes <- 0 .. MaxBytes, call <- "", ret <- 1, out <- 0

-----------------------------------------------------------------------------
(* After InitPLCUART, whose first interrupt found the ring empty.         *)
UartInit ==
  /\ buffer = [s \in Q!Slots |-> 0] /\ head = 0 /\ tail = 0
  /\ Tx_Done = 1
  /\ pc = "idle" /\ left = 0 /\ data = 0
  /\ UCTXBUF = Empty /\ UCTXIFG = FALSE
  /\ received = 0 /\ accepted = 0 /\ wire = <<>>
  /\ raced = FALSE /\ mixed = FALSE /\ stalled = FALSE

(* Nothing is being sent, and nothing is about to be.                     *)
LineIsIdle ==
  pc = "idle" /\ Tx_Done = 1 /\ Q!queue_isEmpty /\ UCTXBUF = Empty /\ ~UCTXIFG

-----------------------------------------------------------------------------
(* The main program.                                                      *)

StartMessage ==
  /\ pc = "idle"
  /\ \E n \in 1 .. MaxFrame :
       /\ accepted + n <= MaxBytes
       /\ left' = n
  /\ pc' = "add"
  /\ UNCHANGED <<ring, hw, Tx_Done, data, received, accepted, wire, mishaps>>

(* Nobody looks at the result of AddtoTXBuffer.                           *)
QueueIsFull ==
  /\ pc = "add" /\ left > 0
  /\ Q!queue_isFull
  /\ left' = left - 1
  /\ UNCHANGED <<ring, hw, Tx_Done, pc, data, received, accepted, wire, mishaps>>

(* Faulty variant: the ring is not asked whether it is full.              *)
AddUnchecked ==
  /\ pc = "add" /\ left > 0
  /\ accepted' = accepted + 1
  /\ left' = left - 1
  /\ tail' = tail + 1
  /\ pc' = "wrap"
  /\ UNCHANGED <<buffer, head, hw, Tx_Done, data, received, wire, mishaps>>

AddtoTXBuffer ==
  /\ pc = "add" /\ left > 0
  /\ ~Q!queue_isFull
  /\ accepted' = accepted + 1
  /\ left' = left - 1
  /\ tail' = tail + 1
  /\ pc' = "wrap"
  /\ UNCHANGED <<buffer, head, hw, Tx_Done, data, received, wire, mishaps>>

(* Faulty variant: the index may stay behind the buffer.                  *)
WrapTailLate ==
  /\ pc = "wrap"
  /\ tail' = IF tail > Max_Buff_Length THEN 0 ELSE tail
  /\ pc' = "store"
  /\ UNCHANGED <<buffer, head, hw, Tx_Done, left, data, received, accepted, wire, mishaps>>

WrapTail ==
  /\ pc = "wrap"
  /\ tail' = Q!Wrap(tail)
  /\ pc' = "store"
  /\ UNCHANGED <<buffer, head, hw, Tx_Done, left, data, received, accepted, wire, mishaps>>

StoreByte ==
  /\ pc = "store"
  /\ buffer' = [buffer EXCEPT ![tail] = accepted]
  /\ pc' = "add"
  /\ UNCHANGED <<head, tail, hw, Tx_Done, left, data, received, accepted, wire, mishaps>>

(* Faulty variant: the transmission is restarted while one is going on.   *)
StartAlways ==
  /\ pc = "add" /\ left = 0
  /\ pc' = "clear"
  /\ UNCHANGED <<ring, hw, Tx_Done, left, data, received, accepted, wire, mishaps>>

(* Faulty variant: the test of Tx_Done is the wrong way round.            *)
StartIfBusy ==
  /\ pc = "add" /\ left = 0
  /\ pc' = IF Tx_Done = 0 THEN "clear" ELSE "idle"
  /\ UNCHANGED <<ring, hw, Tx_Done, left, data, received, accepted, wire, mishaps>>

PLC_Start_SendBuffer ==
  /\ pc = "add" /\ left = 0
  /\ pc' = IF Tx_Done = 1 THEN "clear" ELSE "idle"
  /\ UNCHANGED <<ring, hw, Tx_Done, left, data, received, accepted, wire, mishaps>>

ClearTxDone ==
  /\ pc = "clear"
  /\ Tx_Done' = 0
  /\ pc' = "dequeue"
  /\ UNCHANGED <<ring, hw, left, data, received, accepted, wire, mishaps>>

DequeueFirst ==
  /\ pc = "dequeue"
  /\ IF Q!queue_isEmpty
       THEN pc' = "idle" /\ stalled' = TRUE /\ UNCHANGED head
       ELSE pc' = "wrap_head" /\ head' = head + 1 /\ UNCHANGED stalled
  /\ UNCHANGED <<buffer, tail, hw, Tx_Done, left, data, received, accepted, wire,
                 raced, mixed>>

WrapHead ==
  /\ pc = "wrap_head"
  /\ head' = Q!Wrap(head)
  /\ pc' = "fetch"
  /\ UNCHANGED <<buffer, tail, hw, Tx_Done, left, data, received, accepted, wire, mishaps>>

FetchByte ==
  /\ pc = "fetch"
  /\ data' = buffer[head]
  /\ pc' = "put"
  /\ UNCHANGED <<ring, hw, Tx_Done, left, received, accepted, wire, mishaps>>

(* Writing the buffer clears the interrupt flag, and replaces a byte that *)
(* has not been moved to the shift register yet.                          *)
PutFirst ==
  /\ pc = "put"
  /\ UCTXBUF' = data /\ UCTXIFG' = FALSE
  /\ pc' = "idle"
  /\ UNCHANGED <<ring, Tx_Done, left, data, received, accepted, wire, mishaps>>

-----------------------------------------------------------------------------
(* The interrupt handler.  Reading UCA1IV clears the flag that is served; *)
(* the case of a received byte falls through to that of the transmitter.  *)

FeedTransmitter ==
  IF Q!queue_isEmpty
    THEN Tx_Done' = 1 /\ UNCHANGED <<head, UCTXBUF, raced>>
    ELSE /\ head' = Q!Wrap(head + 1)
         /\ UCTXBUF' = buffer[head']
         /\ raced' = (raced \/ (pc \in {"wrap", "store"} /\ head' = Q!Wrap(tail)))
         /\ UNCHANGED Tx_Done

TXInterrupt ==
  /\ UCTXIFG
  /\ FeedTransmitter
  /\ UCTXIFG' = FALSE
  /\ UNCHANGED <<buffer, tail, pc, left, data, received, accepted, wire, mixed, stalled>>

RXInterrupt ==
  /\ received < MaxReceived
  /\ received' = received + 1
  /\ mixed' = (mixed \/ ~LineIsIdle)
  /\ UCTXIFG' = (UCTXIFG /\ Q!queue_isEmpty)
  /\ FeedTransmitter
  /\ UNCHANGED <<buffer, tail, pc, left, data, accepted, wire, stalled>>

(* The UART moves its buffer to the shift register.                       *)
ShiftOut ==
  /\ UCTXBUF # Empty
  /\ wire' = IF raced THEN wire ELSE Append(wire, UCTXBUF)
  /\ UCTXBUF' = Empty /\ UCTXIFG' = TRUE
  /\ UNCHANGED <<ring, Tx_Done, pc, left, data, received, accepted, mishaps>>

-----------------------------------------------------------------------------
MainProgram ==
  \/ QueueIsFull \/ AddtoTXBuffer \/ WrapTail \/ StoreByte
  \/ PLC_Start_SendBuffer \/ ClearTxDone \/ DequeueFirst \/ WrapHead
  \/ FetchByte \/ PutFirst

UartNext == StartMessage \/ MainProgram \/ TXInterrupt \/ RXInterrupt \/ ShiftOut

UartSpec == UartInit /\ [][UartNext]_uartVars

(* A call that has begun returns, an interrupt that is asked for is       *)
(* served, and the UART sends at its baud rate.                           *)
UartFairSpec ==
  UartSpec /\ WF_uartVars(MainProgram) /\ WF_uartVars(TXInterrupt) /\ WF_uartVars(ShiftOut)

-----------------------------------------------------------------------------
(* Every variable has its type; only inside a call of the main program is *)
(* an index behind the buffer.                                            *)
UartTypeOK ==
  /\ buffer \in [Q!Slots -> 0 .. MaxBytes]
  /\ head \in 0 .. Max_Buff_Length /\ tail \in 0 .. Max_Buff_Length
  /\ (head = Max_Buff_Length => pc = "wrap_head") /\ (tail = Max_Buff_Length => pc = "wrap")
  /\ Tx_Done \in {0, 1}
  /\ pc \in {"idle", "add", "wrap", "store", "clear", "dequeue", "wrap_head", "fetch", "put"}
  /\ left \in 0 .. MaxFrame
  /\ data \in 0 .. MaxBytes /\ UCTXBUF \in {Empty} \cup (0 .. MaxBytes)
  /\ UCTXIFG \in BOOLEAN
  /\ received \in 0 .. MaxReceived /\ accepted \in 0 .. MaxBytes
  /\ wire \in Seq(0 .. MaxBytes)
  /\ raced \in BOOLEAN /\ mixed \in BOOLEAN /\ stalled \in BOOLEAN

(* The bytes the ring has accepted leave the meter in their order: none   *)
(* is lost, sent twice, or made up from an old content of the ring, unless *)
(* the handler fetched the very byte that was being stored or a byte       *)
(* arrived from the modem during the transmission.                        *)
WireInOrder == mixed \/ \A i \in 1 .. Len(wire) : wire[i] = i

(* Every byte the ring has accepted is eventually sent, unless one of     *)
(* these mishaps happens.                                                 *)
Drains == \A n \in 1 .. MaxBytes :
  accepted >= n ~> Len(wire) >= n \/ raced \/ mixed \/ stalled
=============================================================================
