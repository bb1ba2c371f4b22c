----------------------------- MODULE PlcReceiver -----------------------------
(***************************************************************************)
(* The receiver of the power line modem's serial port.  The interrupt      *)
(* handler parses frames byte by byte into RecivedMessage and RX_BUF, a    *)
(* task resets the parser some time after the first byte of a frame, and   *)
(* the main loop checks and handles a frame that is complete.  They share  *)
(* the one header and the one buffer, and nothing stops the modem.         *)
(*                                                                         *)
(* A frame has a header of three fields (type and flags, length, checksums *)
(* of header and payload) and a payload that the modem fills up to an even *)
(* length.  What is stored is the number of the frame that a byte belongs  *)
(* to in this place, or Garbage: a checksum is right if all it covers is   *)
(* of its frame.  The modem is asked for no blob, and sends none; but      *)
(* garbage may be taken for one, and a blob has no checksums.              *)
(***************************************************************************)
EXTENDS Integers, Sequences

CONSTANTS
  MaxRxBufferLength,
  Sizes,     \* the lengths of the payloads that the modem sends
  MaxFaults  \* bound: bytes damaged or lost, frames broken off

ASSUME ReceiverAssumption ==
  /\ MaxRxBufferLength \in Nat /\ MaxRxBufferLength > 1
  /\ Sizes \in Seq(0 .. MaxRxBufferLength - 1) /\ Sizes # <<>>
  /\ \A f \in DOMAIN Sizes : Sizes[f] + (Sizes[f] % 2) < MaxRxBufferLength
  /\ MaxFaults \in Nat

Frames  == 1 .. Len(Sizes)
Garbage == 0
NoCRC   == -1   \* a checksum of 0: "no CRC16 present"
Fields  == <<"type", "length", "crc">>
Length(f) == Len(Fields) + Sizes[f] + (Sizes[f] % 2)

VARIABLES
  MessageStatus, RXCount,
  header, RX_BUF, Rx_Bufffer_Index,
  blob,                    \* is the type in the header one of the two of blobs?
  PLCCommunicationDetected,
  time_in_ms, executable,  \* of the task: does it count; is it due
  loop,                    \* where the main loop is
  frame, sent,             \* the modem: the frame it sends, its bytes so far
  faults,
  handled,                 \* history: the frames handled, Garbage if not whole
  disturbed,               \* history: what is being checked or handled was
                           \* written to
  clean                    \* history: frame came undamaged to a parser at rest

parser  == <<MessageStatus, RXCount, header, RX_BUF, Rx_Bufffer_Index, blob>>
slot    == <<time_in_ms, executable>>
line    == <<frame, sent, faults>>
history == <<handled, disturbed, clean>>
receiverVars == <<parser, PLCCommunicationDetected, slot, loop, line, history>>

AtRest == MessageStatus = "WaittingNewFrame" /\ RXCount = 0

-----------------------------------------------------------------------------
(* The interrupt handler: a byte that belongs to frame f at place i, or    *)
(* Garbage.                                                                *)

Belongs(f, i, place) == IF i = place THEN f ELSE Garbage

(* schedule_task cancels a task that counts, and leaves one that is due.   *)
schedule_reset ==
  /\ time_in_ms' = TRUE
  /\ executable' = (executable /\ ~time_in_ms)

Store(f, i) ==
  /\ header' = [header EXCEPT ![Fields[RXCount + 1]] = Belongs(f, i, RXCount + 1)]
  /\ UNCHANGED <<RX_BUF, PLCCommunicationDetected>>

(* A byte that cannot be a type is discarded; a type may be any other, and *)
(* one that is not the type of a frame may be that of a blob.              *)
FirstByte(f, i) ==
  /\ schedule_reset
  /\ \/ /\ Store(f, i) /\ RXCount' = 1
        /\ blob' \in (IF i = 1 THEN {FALSE} ELSE BOOLEAN)
     \/ i # 1 /\ UNCHANGED <<header, RX_BUF, PLCCommunicationDetected, RXCount, blob>>
  /\ UNCHANGED <<MessageStatus, Rx_Bufffer_Index>>

(* The length of a blob is the last of its header.                         *)
BlobLength(f, i) ==
  /\ header' = [header EXCEPT !.length = Belongs(f, i, 2), !.crc = NoCRC]
  /\ MessageStatus' = "RecevingBody"
  /\ Rx_Bufffer_Index' = 0
  /\ UNCHANGED <<RXCount, RX_BUF, blob, PLCCommunicationDetected, slot>>

HeaderCRC(h) == h.type # Garbage /\ h.type = h.length /\ h.length = h.crc

(* A faulty variant: the checksum of the header is left to the main loop.  *)
HeaderByteUnchecked(f, i) ==
  /\ Store(f, i)
  /\ RXCount' = RXCount + 1
  /\ IF RXCount + 1 < Len(Fields)
     THEN UNCHANGED <<MessageStatus, Rx_Bufffer_Index>>
     ELSE MessageStatus' = "RecevingBody" /\ Rx_Bufffer_Index' = 0
  /\ UNCHANGED <<blob, slot>>

HeaderByte(f, i) ==
  /\ Store(f, i)
  /\ IF RXCount + 1 < Len(Fields)
     THEN RXCount' = RXCount + 1 /\ UNCHANGED <<MessageStatus, Rx_Bufffer_Index>>
     ELSE IF HeaderCRC(header')
     THEN /\ MessageStatus' = "RecevingBody"
          /\ Rx_Bufffer_Index' = 0
          /\ RXCount' = RXCount + 1
     ELSE /\ MessageStatus' = "WaittingNewFrame"
          /\ RXCount' = 0
          /\ UNCHANGED Rx_Bufffer_Index
  /\ UNCHANGED <<blob, slot>>

(* An odd payload is followed by one more byte, and so is an empty one.    *)
BodyReceived(index, size) == index > size \/ (index = size /\ size % 2 = 0)

(* A blob ends after any number of bytes, or never: its length is whatever *)
(* the bytes in its place say.                                             *)
BodyByte(f, i) ==
  LET place == Rx_Bufffer_Index + 1
      index == IF place = MaxRxBufferLength THEN 0 ELSE place
  IN  /\ RX_BUF' = [RX_BUF EXCEPT ![place] = Belongs(f, i, Len(Fields) + place)]
      /\ \/ /\ (~blob => BodyReceived(index, Sizes[header.length]))
            /\ MessageStatus' = "WaittingNewFrame"
            /\ RXCount' = 0 /\ Rx_Bufffer_Index' = 0
            /\ PLCCommunicationDetected' = TRUE
         \/ /\ (~blob => ~BodyReceived(index, Sizes[header.length]))
            /\ Rx_Bufffer_Index' = index
            /\ UNCHANGED <<MessageStatus, RXCount, PLCCommunicationDetected>>
      /\ UNCHANGED <<header, blob, slot>>

PLC_Byte_Recived(f, i) ==
  \/ MessageStatus = "WaittingNewFrame" /\ RXCount = 0 /\ FirstByte(f, i)
  \/ MessageStatus = "WaittingNewFrame" /\ RXCount = 1 /\ blob /\ BlobLength(f, i)
  \/ /\ MessageStatus = "WaittingNewFrame" /\ RXCount \in 1 .. Len(Fields) - 1 /\ ~blob
     /\ HeaderByte(f, i)
  \/ /\ MessageStatus = "WaittingNewFrame" /\ RXCount = Len(Fields)
     /\ UNCHANGED <<parser, slot, PLCCommunicationDetected>>
  \/ MessageStatus = "RecevingBody" /\ BodyByte(f, i)

-----------------------------------------------------------------------------
(* The modem sends its frames one after the other, at any pace.            *)

Sending == /\ \/ sent < Length(frame) /\ frame' = frame /\ sent' = sent + 1
              \/ /\ sent = Length(frame) /\ frame < Len(Sizes)
                 /\ frame' = frame + 1 /\ sent' = 1

Fault == faults < MaxFaults /\ faults' = faults + 1

Undisturbed ==
  IF sent' = 1
  THEN AtRest /\ ~executable /\ ~PLCCommunicationDetected /\ loop \in {"loop", "tasks"}
  ELSE clean

ByteArrives ==
  /\ Sending
  /\ \/ PLC_Byte_Recived(frame', sent') /\ clean' = Undisturbed /\ UNCHANGED faults
     \/ Fault /\ PLC_Byte_Recived(Garbage, 0) /\ clean' = FALSE
  /\ disturbed' = (disturbed \/ (/\ loop \in {"check", "handle"}
                                 /\ <<header, RX_BUF>>' # <<header, RX_BUF>>))
  /\ UNCHANGED <<loop, handled>>

ByteLost ==
  /\ Sending /\ Fault
  /\ clean' = FALSE
  /\ UNCHANGED <<parser, PLCCommunicationDetected, slot, loop, handled, disturbed>>

BreaksOff ==
  /\ sent < Length(frame) /\ Fault
  /\ sent' = Length(frame)
  /\ clean' = FALSE
  /\ UNCHANGED <<parser, PLCCommunicationDetected, slot, loop, frame, handled, disturbed>>

(* TIMER2_A1_ISR, when PLC_Frame_Timeout has elapsed.                      *)
TimerExpires ==
  /\ time_in_ms
  /\ time_in_ms' = FALSE /\ executable' = TRUE
  /\ clean' = (clean /\ sent = Length(frame))
  /\ UNCHANGED <<parser, PLCCommunicationDetected, loop, line, handled, disturbed>>

-----------------------------------------------------------------------------
(* The main loop: the frame, then the tasks.                               *)

Step(from, to) == loop = from /\ loop' = to /\ UNCHANGED line

NoFrame ==
  /\ ~PLCCommunicationDetected
  /\ Step("loop", "tasks")
  /\ UNCHANGED <<parser, PLCCommunicationDetected, slot, history>>

PayloadCRC == \A j \in 1 .. Sizes[header.length] : RX_BUF[j] = header.crc

(* A faulty variant: the payload is not checked.                           *)
CRCsMatchOfHeader == header.crc = NoCRC \/ HeaderCRC(header)

CRCsMatch == header.crc = NoCRC \/ (HeaderCRC(header) /\ PayloadCRC)

(* ProcessRecivedPLCMessage: the check, which reads the header, the payload *)
(* and the checksums one after the other.  It may come out either way if   *)
(* they are written to meanwhile.                                          *)
CheckBegins ==
  /\ PLCCommunicationDetected
  /\ Step("loop", "check")
  /\ UNCHANGED <<parser, PLCCommunicationDetected, slot, history>>

CheckCRC ==
  /\ \/ (disturbed \/ CRCsMatch) /\ Step("check", "handle")
     \/ (disturbed \/ ~CRCsMatch) /\ Step("check", "clear")
  /\ UNCHANGED <<parser, PLCCommunicationDetected, slot, history>>

(* ... and what the type asks for.                                         *)
Whole ==
  /\ header.type # Garbage /\ header.type = header.length
  /\ \A j \in 1 .. Sizes[header.type] : RX_BUF[j] = header.type

Handle ==
  /\ Step("handle", "clear")
  /\ handled' = Append(handled, IF Whole THEN header.type ELSE Garbage)
  /\ UNCHANGED <<parser, PLCCommunicationDetected, slot, disturbed, clean>>

ClearDetected ==
  /\ Step("clear", "tasks")
  /\ PLCCommunicationDetected' = FALSE
  /\ disturbed' = FALSE
  /\ UNCHANGED <<parser, slot, handled, clean>>

(* execute_tasks: time and mark are cleared before the task runs.          *)
TaskDue ==
  /\ IF executable THEN Step("tasks", "clear_time") ELSE Step("tasks", "loop")
  /\ UNCHANGED <<parser, PLCCommunicationDetected, slot, history>>

ClearTime ==
  /\ Step("clear_time", "clear_mark")
  /\ time_in_ms' = FALSE
  /\ UNCHANGED <<parser, PLCCommunicationDetected, executable, history>>

ClearMark ==
  /\ Step("clear_mark", "reset")
  /\ executable' = FALSE
  /\ UNCHANGED <<parser, PLCCommunicationDetected, time_in_ms, history>>

(* reset_plc_state_flow                                                    *)
ResetStatus ==
  /\ Step("reset", "reset_rest")
  /\ MessageStatus' = "WaittingNewFrame"
  /\ UNCHANGED <<RXCount, header, RX_BUF, Rx_Bufffer_Index, blob, PLCCommunicationDetected,
                 slot, history>>

(* A faulty variant: the reset drops a frame that waits.                   *)
ResetRestDropping ==
  /\ Step("reset_rest", "loop")
  /\ RXCount' = 0 /\ Rx_Bufffer_Index' = 0
  /\ header' = [header EXCEPT !.crc = NoCRC]
  /\ PLCCommunicationDetected' = FALSE
  /\ UNCHANGED <<MessageStatus, RX_BUF, blob, slot, history>>

(* A faulty variant: the count of the header's bytes is not reset.         *)
ResetRestCounting ==
  /\ Step("reset_rest", "loop")
  /\ Rx_Bufffer_Index' = 0
  /\ header' = [header EXCEPT !.crc = NoCRC]
  /\ UNCHANGED <<RXCount, MessageStatus, RX_BUF, blob, PLCCommunicationDetected, slot, history>>

ResetRest ==
  /\ Step("reset_rest", "loop")
  /\ RXCount' = 0 /\ Rx_Bufffer_Index' = 0
  /\ header' = [header EXCEPT !.crc = NoCRC]
  /\ UNCHANGED <<MessageStatus, RX_BUF, blob, PLCCommunicationDetected, slot, history>>

-----------------------------------------------------------------------------
(* After InitPLCUART; the modem has sent nothing.                          *)
ReceiverInit ==
  /\ MessageStatus = "WaittingNewFrame" /\ RXCount = 0 /\ Rx_Bufffer_Index = 0
  /\ header = [type |-> Garbage, length |-> Garbage, crc |-> NoCRC]
  /\ RX_BUF = [j \in 1 .. MaxRxBufferLength |-> Garbage]
  /\ blob = FALSE /\ PLCCommunicationDetected = FALSE
  /\ time_in_ms = FALSE /\ executable = FALSE
  /\ loop = "loop"
  /\ frame = 1 /\ sent = 0 /\ faults = 0
  /\ handled = <<>> /\ disturbed = FALSE /\ clean = FALSE

MainLoop ==
  \/ NoFrame \/ CheckBegins \/ CheckCRC \/ Handle \/ ClearDetected
  \/ TaskDue \/ ClearTime \/ ClearMark \/ ResetStatus \/ ResetRest

ReceiverNext == ByteArrives \/ ByteLost \/ BreaksOff \/ TimerExpires \/ MainLoop

(* The main loop goes on and the timer runs while the task counts.         *)
ReceiverSpec ==
  /\ ReceiverInit /\ [][ReceiverNext]_receiverVars
  /\ WF_receiverVars(MainLoop) /\ WF_receiverVars(TimerExpires)

-----------------------------------------------------------------------------
(* A byte that arrives between the two halves of the reset is parsed with  *)
(* the status of the one and the count of the other: it may have the body  *)
(* received behind a header that was forgotten, with no task to end it.    *)
Torn == MessageStatus = "RecevingBody" /\ RXCount = 0

(* PLC_UART.c:83, 93 - the parser is inside a body only behind a header    *)
(* that is right, and within its length, or behind one that is taken for   *)
(* that of a blob; and a task that counts, is due or is being executed     *)
(* watches over every frame that has begun, though its slot is shared by   *)
(* every frame and cleared in two steps.                                   *)
ReceiverTypeOK ==
  /\ MessageStatus \in {"WaittingNewFrame", "RecevingBody"}
  /\ RXCount \in 0 .. Len(Fields)
  /\ header \in [type : Frames \union {Garbage}, length : Frames \union {Garbage},
                 crc : Frames \union {Garbage, NoCRC}]
  /\ RX_BUF \in [1 .. MaxRxBufferLength -> Frames \union {Garbage}]
  /\ Rx_Bufffer_Index \in 0 .. MaxRxBufferLength - 1
  /\ PLCCommunicationDetected \in BOOLEAN
  /\ time_in_ms \in BOOLEAN /\ executable \in BOOLEAN
  /\ loop \in {"loop", "check", "handle", "clear", "tasks", "clear_time", "clear_mark", "reset",
              "reset_rest"}
  /\ frame \in Frames /\ sent \in 0 .. Length(frame) /\ faults \in 0 .. MaxFaults
  /\ handled \in Seq(Frames \union {Garbage})
  /\ clean \in BOOLEAN /\ disturbed \in BOOLEAN
  /\ disturbed => loop \in {"check", "handle", "clear"}
  /\ blob \in BOOLEAN /\ (blob => header.type = Garbage)
  /\ MessageStatus = "RecevingBody" =>
       \/ blob /\ RXCount \in {0, 1}
       \/ /\ RXCount \in {0, Len(Fields)}
          /\ header.type # Garbage /\ header.type = header.length
          /\ Rx_Bufffer_Index <= Sizes[header.length]
  /\ \/ AtRest \/ Torn
     \/ time_in_ms \/ executable \/ loop \in {"clear_mark", "reset", "reset_rest"}

(* PLC.c:550, emeter-main.c:566 - whatever is damaged, lost or broken off  *)
(* on the way, what is handled is one whole frame, unless it was written to *)
(* while it was checked or handled, or has no checksums: a reset before the *)
(* check removes them, and so does a garbage byte that is taken for the    *)
(* type of a blob.  No frame is handled out of its order, and none twice   *)
(* but one that waits for a byte beyond its payload: it is whole before it *)
(* is received, and is handled early if the flag of another is still set.  *)
HandledWhole ==
  /\ loop = "handle" /\ ~disturbed /\ header.crc # NoCRC => Whole
  /\ \A i, j \in DOMAIN handled :
       i < j /\ handled[j] # Garbage =>
         \/ handled[i] < handled[j]
         \/ handled[i] = handled[j] /\ (Sizes[handled[j]] = 0 \/ Sizes[handled[j]] % 2 = 1)

(* emeter-main.c:566 - a frame with a payload that comes undamaged and in  *)
(* time to a parser at rest is handled, or the modem sends the next one    *)
(* before.                                                                 *)
CleanHandled ==
  \A f \in Frames :
    (frame = f /\ sent = Length(f) /\ clean /\ Sizes[f] > 0)
      ~> (frame # f \/ \E i \in DOMAIN handled : handled[i] = f)

(* PLC_UART.c:86, 109 - a frame that breaks off, or whose end is lost or   *)
(* taken for a header, does not keep the parser from the next one for ever,*)
(* unless a reset was torn.                                                *)
Resynchronises == (~AtRest) ~> (AtRest \/ Torn)
=============================================================================
