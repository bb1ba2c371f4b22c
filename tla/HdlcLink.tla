------------------------------ MODULE HdlcLink ------------------------------
(***************************************************************************)
(* The HDLC data link of the optical port.  A client opens the link with   *)
(* SNRM, sends requests in one or several numbered information frames and  *)
(* gets each answered by one; the meter acknowledges the segments of a     *)
(* request with RR.  Interrupts put the bytes of a frame into the only     *)
(* receive buffer as they arrive and check it at its end; the main program *)
(* processes it later, when the next one may already be overwriting it.    *)
(*                                                                         *)
(* The line may lose a frame either way, the client repeats what is not    *)
(* answered, polls, gives up and connects again.  A timer closes a silent  *)
(* link.  Over the other port, by power line, another client may associate *)
(* at any time; there no data link is in use.                              *)
(*                                                                         *)
(* A body of bytes is a sequence of parts.  Addresses are left out: frames *)
(* of other stations are dropped.  So are the flag ready, which nothing    *)
(* reads, the lengths negotiated, and frames only a meter sends.           *)
(***************************************************************************)
EXTENDS Integers, Sequences, SequencesExt

CONSTANTS
  Modulus,        \* 8: sequence numbers
  MAX_SEGGY_LEN,  \* parts that the buffer of segments holds
  Parts,          \* the number of parts of each request
  Damaged,        \* bound: what the header of a damaged frame may read as
  MaxLosses,      \* bound: frames lost
  MaxRepeats,     \* bound: frames repeated
  MaxTimeouts     \* bound: expiries of the timer, associations by power line

ASSUME HdlcAssumption ==
  /\ Modulus \in Nat /\ Modulus > 2
  /\ MAX_SEGGY_LEN \in Nat
  /\ Parts \in Seq(Nat \ {0})
  /\ {MaxLosses, MaxRepeats, MaxTimeouts} \subseteq Nat

Numbers  == 0 .. Modulus - 1
Inc(n)   == (n + 1) % Modulus
Requests == 1 .. Len(Parts)

(* A piece of a body; the first one tells whether the request is an AARQ,  *)
(* that is, asks for an association.  0 is what other frames carry.  One   *)
(* that is not whole is cut off, at any of its bytes.                      *)
Piece(r, p, aarq) == [req |-> r, part |-> p, AARQ |-> aarq, whole |-> TRUE]
Cut(piece) == [piece EXCEPT !.whole = FALSE]
Parameters == Piece(0, 1, FALSE)
Pieces     ==
  [req : Requests \union {0}, part : Nat \ {0}, AARQ : BOOLEAN, whole : BOOLEAN]

(* Frames: an information frame, and those that carry at most a number.    *)
I(ns, nr, segmented, piece) ==
  [type |-> "I", ns |-> ns, nr |-> nr, segmented |-> segmented, body |-> piece]
Supervisory(type, nr) ==
  [type |-> type, ns |-> 0, nr |-> nr, segmented |-> FALSE, body |-> Parameters]
SNRM == Supervisory("SNRM", 0)
DISC == Supervisory("DISC", 0)
UA   == Supervisory("UA", 0)
DM   == Supervisory("DM", 0)
FRMR == Supervisory("FRMR", 0)
RR(nr) == Supervisory("RR", nr)
None == Supervisory("none", 0)

Frames ==
  [type : {"none", "SNRM", "DISC", "UA", "DM", "FRMR", "RR", "I"},
   ns : Numbers, nr : Numbers, segmented : BOOLEAN, body : Pieces]

ASSUME DamagedAssumption == Damaged \subseteq Frames

VARIABLES
  next_nr, next_ns, ns,  \* the meter's numbers: expected, acknowledged, to send
  disconnected,
  configured,            \* the client is associated
  plcConfigured,         \* link[PLC_PORT].configured
  seggy,                 \* segments received; longer than the buffer: overflown
  rx, Frame_Received,    \* the receive buffer; has it a frame to process?
  rxState,               \* rx.state: what the next byte is
  torn,                  \* history: bytes of a frame have come in over the last one
  accepted,              \* the main program is about to read an accepted body
  toMeter, toClient,     \* the line
  client,                \* "down", "connecting", "up", "disconnecting"
  vs, vr,                \* the client's numbers
  request, part,         \* of the client: the request and the part it is at
  last,                  \* the frame it waits for an answer to, or None
  joined,                \* its association has been answered
  losses, repeats, timeouts,
  mixed,                 \* history: the main program has worked on a torn buffer
  executed,              \* history: the bodies executed until then
  abandoned              \* history: the requests the client has given up

numbers == <<next_nr, next_ns, ns>>
link    == <<numbers, disconnected, configured>>
buffer  == <<rx, Frame_Received, rxState, torn, mixed>>
meter   == <<link, plcConfigured, seggy, buffer, accepted, executed>>
line    == <<toMeter, toClient>>
station == <<client, vs, vr, request, part, last, joined, abandoned>>
bounds  == <<losses, repeats, timeouts>>
vars    == <<meter, line, station, bounds>>

-----------------------------------------------------------------------------
(* The client.  One frame is under way at a time, and a late answer to an  *)
(* earlier session is read before the next one is opened.                  *)

Transmit(frame) ==
  /\ toMeter = None
  /\ toMeter' = frame
  /\ last' = frame

ClientConnects ==
  /\ client = "down" /\ toClient = None
  /\ Transmit(SNRM)
  /\ client' = "connecting"
  /\ UNCHANGED <<meter, toClient, vs, vr, request, part, joined, abandoned, bounds>>

ClientDisconnects ==
  /\ client = "up" /\ last = None
  /\ Transmit(DISC)
  /\ client' = "disconnecting"
  /\ abandoned' = abandoned \union (IF part > 1 THEN {request} ELSE {})
  /\ request' = IF part > 1 THEN request + 1 ELSE request
  /\ part' = 1
  /\ UNCHANGED <<meter, toClient, vs, vr, joined, bounds>>

(* The next part of a request.  The first request of a session associates. *)
ClientRequests ==
  /\ client = "up" /\ last = None /\ request \in Requests
  /\ Transmit(I(vs, vr, part < Parts[request], Piece(request, part, ~joined)))
  /\ UNCHANGED <<meter, toClient, client, vs, vr, request, part, joined, abandoned, bounds>>

ClientPolls ==
  /\ client = "up" /\ last = None /\ repeats < MaxRepeats
  /\ Transmit(RR(vr))
  /\ repeats' = repeats + 1
  /\ UNCHANGED <<meter, toClient, client, vs, vr, request, part, joined, abandoned,
                 losses, timeouts>>

ClientRepeats ==
  /\ last # None /\ toClient = None
  /\ Transmit(last)
  /\ client # "connecting" => repeats < MaxRepeats
  /\ repeats' = IF client = "connecting" THEN repeats ELSE repeats + 1
  /\ UNCHANGED <<meter, toClient, client, vs, vr, request, part, joined, abandoned,
                 losses, timeouts>>

(* A request in progress is not made again.                                *)
Abandon ==
  /\ client' = "down"
  /\ last' = None
  /\ joined' = FALSE
  /\ part' = 1
  /\ IF last.type = "I" \/ part > 1
     THEN abandoned' = abandoned \union {request} /\ request' = request + 1
     ELSE UNCHANGED <<abandoned, request>>
  /\ UNCHANGED <<vs, vr>>

ClientGivesUp ==
  /\ client \in {"up", "disconnecting"} /\ last # None
  /\ Abandon
  /\ UNCHANGED <<meter, line, bounds>>

(* An answer: to SNRM, to a segment, to a request, to RR, or that the link *)
(* is closed.  One that fits none of these is ignored.                     *)
Opened   == client = "connecting" /\ toClient = UA
Taken    == client = "up" /\ last.type = "I" /\ last.segmented /\ toClient = RR(Inc(vs))
Answered == /\ client = "up" /\ last.type = "I" /\ ~last.segmented
            /\ toClient.type = "I" /\ toClient.ns = vr /\ toClient.nr = Inc(vs)
Polled   == client = "up" /\ last.type = "RR" /\ toClient.type = "RR"
Closed   == \/ client = "up" /\ toClient \in {DM, FRMR}
            \/ client = "disconnecting" /\ toClient \in {UA, DM}

ClientReceives ==
  /\ toClient # None
  /\ toClient' = None
  /\ \/ /\ Opened
        /\ client' = "up" /\ last' = None
        /\ vs' = 0 /\ vr' = 0 /\ part' = 1 /\ joined' = FALSE
        /\ UNCHANGED <<request, abandoned>>
     \/ /\ Taken
        /\ vs' = Inc(vs) /\ part' = part + 1 /\ last' = None
        /\ UNCHANGED <<client, vr, request, joined, abandoned>>
     \/ /\ Answered
        /\ vs' = Inc(vs) /\ vr' = Inc(vr) /\ last' = None
        /\ request' = request + 1 /\ part' = 1 /\ joined' = TRUE
        /\ UNCHANGED <<client, abandoned>>
     \/ /\ Polled
        /\ last' = None
        /\ UNCHANGED <<client, vs, vr, request, part, joined, abandoned>>
     \/ Closed /\ Abandon
     \/ /\ ~(Opened \/ Taken \/ Answered \/ Polled \/ Closed)
        /\ UNCHANGED station
  /\ UNCHANGED <<meter, toMeter, bounds>>

-----------------------------------------------------------------------------
(* The line and the interrupts.                                            *)

(* What is left of a frame that is cut off is not waited for: the next     *)
(* byte comes late.                                                        *)
Lose ==
  /\ losses < MaxLosses
  /\ losses' = losses + 1
  /\ \/ toMeter # None /\ toMeter' = None /\ rxState' = "FLAG" /\ UNCHANGED toClient
     \/ toClient # None /\ toClient' = None /\ UNCHANGED <<toMeter, rxState>>
  /\ UNCHANGED <<link, plcConfigured, seggy, rx, Frame_Received, torn, mixed, accepted, executed,
                 station, repeats, timeouts>>

(* The first byte clears the addresses and the control field: until the    *)
(* addresses are in, the buffer is a frame to nobody, and then it is the   *)
(* information frame 0.  The header is checked before the body is taken.   *)
(* A body that is being read is torn as well.                              *)
Byte(before, after, frame) ==
  /\ toMeter # None /\ rxState = before
  /\ rxState' = after
  /\ rx' = frame
  /\ torn' = TRUE
  /\ mixed' = (mixed \/ accepted)
  /\ UNCHANGED <<link, plcConfigured, seggy, Frame_Received, accepted, executed, line,
                 station, bounds>>

Cleared(type) == [I(0, 0, toMeter.segmented, rx.body) EXCEPT !.type = type]

(* The closing flag: the checksum is right, else the frame is lost.        *)
FrameEnds ==
  /\ toMeter # None /\ rxState = "CRC"
  /\ rxState' = "FLAG" /\ torn' = FALSE
  /\ Frame_Received' = TRUE
  /\ toMeter' = None
  /\ UNCHANGED <<link, plcConfigured, seggy, rx, mixed, accepted, executed, toClient, station,
                 bounds>>

iec62056_46_rx_byte ==
  \/ Byte("FLAG", "MSAP", Cleared("none"))
  \/ Byte("MSAP", "CTRL", Cleared("I"))
  \/ Byte("CTRL", "BODY", [toMeter EXCEPT !.body = rx.body])
  \/ Byte("BODY", "CRC", toMeter)
  \/ FrameEnds

(* A damaged header is in the buffer although its checksum is wrong.  Only *)
(* over a frame that waits does it matter; else the frame is just lost.    *)
DamagedHeader ==
  /\ toMeter # None /\ rxState = "CTRL" /\ Frame_Received /\ losses < MaxLosses
  /\ losses' = losses + 1
  /\ toMeter' = None
  /\ rxState' = "FLAG"
  /\ \E header \in Damaged : rx' = [header EXCEPT !.body = rx.body]
  /\ UNCHANGED <<link, plcConfigured, seggy, Frame_Received, torn, mixed, accepted, executed,
                 toClient, station, repeats, timeouts>>

iec62056_46_link_idle_timeout ==
  /\ toMeter = None /\ timeouts < MaxTimeouts
  /\ timeouts' = timeouts + 1
  /\ disconnected' = TRUE
  /\ configured' = FALSE
  /\ UNCHANGED <<numbers, plcConfigured, seggy, buffer, accepted, executed, line, station,
                 losses, repeats>>

PlcAssociates ==
  /\ timeouts < MaxTimeouts /\ ~accepted
  /\ timeouts' = timeouts + 1
  /\ plcConfigured' = TRUE
  /\ UNCHANGED <<link, seggy, buffer, accepted, executed, line, station, losses, repeats>>

-----------------------------------------------------------------------------
(* process_dlms_frame and process_rx_frame.  A frame under way is dropped, *)
(* even when only its opening flag is in.  The control field is read once, *)
(* before a byte can follow.  An answer is sent at once; one that was on   *)
(* its way is cut off.                                                     *)

Answer(frame) == toClient' = frame

Received(type) ==
  /\ Frame_Received /\ ~accepted /\ rx.type = type
  /\ Frame_Received' = FALSE
  /\ rxState' = "FLAG"
  /\ toMeter' = None \/ (rxState = "FLAG" /\ UNCHANGED toMeter)
  /\ mixed' = (mixed \/ torn)
  /\ UNCHANGED <<rx, torn, station, bounds>>

ReceiveNothing ==
  /\ Received("none")
  /\ UNCHANGED <<link, plcConfigured, seggy, accepted, executed, toClient>>

(* check_rx_nr: the client acknowledges what it must, or the answer last   *)
(* sent.                                                                   *)
Acknowledges(nr) == nr = next_ns \/ (nr = Inc(next_ns) /\ nr = ns)

(* The next information frame in sequence is accepted, a repeated one      *)
(* ignored.                                                                *)
InSequenceOrRepeated == next_nr \in {rx.ns, Inc(rx.ns)}  \* A faulty variant: accepts it
InSequence == rx.ns = next_nr

ReceiveI ==
  /\ Received("I")
  /\ IF disconnected
     THEN Answer(DM) /\ UNCHANGED <<numbers, accepted>>
     ELSE IF ~Acknowledges(rx.nr)
     THEN Answer(FRMR) /\ UNCHANGED <<numbers, accepted>>
     ELSE /\ next_ns' = rx.nr
          /\ UNCHANGED ns
          /\ IF InSequence
             THEN next_nr' = Inc(next_nr) /\ accepted' = TRUE /\ UNCHANGED toClient
             ELSE /\ IF Inc(rx.ns) = next_nr
                     THEN UNCHANGED toClient
                     ELSE Answer(RR(next_nr))
                  /\ UNCHANGED <<next_nr, accepted>>
  /\ UNCHANGED <<disconnected, configured, plcConfigured, seggy, executed>>

(* process_i_body: what does not begin like a request is ignored.  An      *)
(* association is answered whether or not it is granted; without one       *)
(* a request is answered with an error, or not at all, and so may be one   *)
(* that is cut off.                                                        *)
Respond ==
  /\ Answer(I(ns, next_nr, FALSE, Parameters))
  /\ ns' = Inc(ns)

Record(body) == executed' = IF mixed THEN executed ELSE Append(executed, body)

process_i_body(body) ==
  LET b == Head(body)
      associates == b.AARQ /\ b.whole
  IN  IF b.req = 0 \/ b.part # 1
      THEN UNCHANGED <<ns, configured, executed, toClient>>
      ELSE \/ /\ associates
              /\ Respond
              /\ Record(body)
              /\ configured' \in BOOLEAN
           \/ /\ ~b.AARQ /\ configured
              /\ Respond
              /\ Record(body)
              /\ UNCHANGED configured
           \/ /\ ~associates /\ (configured => ~b.whole)
              /\ Respond \/ UNCHANGED <<ns, toClient>>
              /\ UNCHANGED <<configured, executed>>

(* The body of an accepted frame, as the buffer now has it.  Its length is *)
(* that of what has come in since.                                         *)
Bodies == IF torn THEN {rx.body, Cut(rx.body)} ELSE {rx.body}

Fits == Len(seggy) < MAX_SEGGY_LEN

Segment(body) ==
  /\ rx.segmented
  /\ seggy' = IF Fits THEN Append(seggy, body)
              ELSE [i \in 1 .. MAX_SEGGY_LEN + 1 |-> Parameters]
  /\ Answer(RR(next_nr))
  /\ UNCHANGED <<ns, configured, executed>>

(* A faulty variant: the segments stay.                                    *)
FinalSegmentKept(body) ==
  /\ ~rx.segmented
  /\ UNCHANGED seggy
  /\ IF seggy = <<>> \/ Fits
     THEN process_i_body(Append(seggy, body))
     ELSE UNCHANGED <<ns, configured, executed, toClient>>

FinalSegment(body) ==
  /\ ~rx.segmented
  /\ seggy' = <<>>
  /\ IF seggy = <<>> \/ Fits
     THEN process_i_body(Append(seggy, body))
     ELSE UNCHANGED <<ns, configured, executed, toClient>>

ReadBody ==
  /\ accepted
  /\ accepted' = FALSE
  /\ \E body \in Bodies : Segment(body) \/ FinalSegment(body)
  /\ UNCHANGED <<next_nr, next_ns, disconnected, plcConfigured, buffer, toMeter, station,
                 bounds>>

ReceiveRR ==
  /\ Received("RR")
  /\ IF Acknowledges(rx.nr)
     THEN next_ns' = rx.nr /\ Answer(RR(next_nr))
     ELSE Answer(FRMR) /\ UNCHANGED next_ns
  /\ UNCHANGED <<next_nr, ns, disconnected, configured, plcConfigured, seggy, accepted,
                 executed>>

(* process_snrm_frame.  A client of the other port is cut off, and this    *)
(* one is refused, although its link is open.                              *)
dl_connect_refused ==  \* A faulty variant: the other client stays
  /\ UNCHANGED plcConfigured
  /\ Answer(IF plcConfigured THEN DM ELSE UA)

dl_connect_indication ==
  /\ plcConfigured' = FALSE
  /\ Answer(IF plcConfigured THEN DM ELSE UA)

ResetReceived == next_nr' = 0 /\ next_ns' = 0 /\ UNCHANGED ns  \* A faulty variant
ResetNumbers  == next_nr' = 0 /\ next_ns' = 0 /\ ns' = 0

ReceiveSNRM ==
  /\ Received("SNRM")
  /\ ResetNumbers
  /\ disconnected' = FALSE
  /\ dl_connect_indication
  /\ UNCHANGED <<configured, seggy, accepted, executed>>

ReceiveDISC ==
  /\ Received("DISC")
  /\ Answer(IF disconnected THEN DM ELSE UA)
  /\ disconnected' = TRUE
  /\ configured' = FALSE
  /\ UNCHANGED <<numbers, plcConfigured, seggy, accepted, executed>>

-----------------------------------------------------------------------------
Init ==
  /\ next_nr = 0 /\ next_ns = 0 /\ ns = 0
  /\ disconnected = TRUE /\ configured = FALSE /\ plcConfigured = FALSE
  /\ seggy = <<>> /\ rx = None /\ Frame_Received = FALSE /\ accepted = FALSE
  /\ rxState = "FLAG" /\ torn = FALSE /\ mixed = FALSE
  /\ toMeter = None /\ toClient = None
  /\ client = "down" /\ vs = 0 /\ vr = 0 /\ request = 1 /\ part = 1
  /\ last = None /\ joined = FALSE
  /\ losses = 0 /\ repeats = 0 /\ timeouts = 0
  /\ executed = <<>> /\ abandoned = {}

Main ==
  ReceiveI \/ ReadBody \/ ReceiveRR \/ ReceiveSNRM \/ ReceiveDISC \/ ReceiveNothing

Next ==
  \/ ClientConnects \/ ClientDisconnects \/ ClientRequests \/ ClientPolls
  \/ ClientRepeats \/ ClientGivesUp \/ ClientReceives
  \/ Lose \/ DamagedHeader
  \/ iec62056_46_rx_byte
  \/ iec62056_46_link_idle_timeout
  \/ PlcAssociates
  \/ Main

(* The main loop processes frames, interrupts take them in, and a client   *)
(* that connects reads its answers and tries again.                        *)
Fairness ==
  /\ WF_vars(Main) /\ WF_vars(iec62056_46_rx_byte)
  /\ WF_vars(ClientReceives) /\ WF_vars(ClientRepeats /\ client = "connecting")

Spec == Init /\ [][Next]_vars /\ Fairness

-----------------------------------------------------------------------------
(* One answer at most is not acknowledged, and it is the last one sent;    *)
(* the buffer of segments is longer than it can be only when overflown.    *)
TypeOK ==
  /\ next_nr \in Numbers /\ next_ns \in Numbers /\ ns \in Numbers
  /\ ns \in {next_ns, Inc(next_ns)} \/ mixed
  /\ disconnected \in BOOLEAN /\ configured \in BOOLEAN /\ plcConfigured \in BOOLEAN
  /\ seggy \in Seq(Pieces) /\ Len(seggy) <= MAX_SEGGY_LEN + 1
  /\ rx \in Frames /\ toMeter \in Frames /\ toClient \in Frames /\ last \in Frames
  /\ Frame_Received \in BOOLEAN /\ accepted \in BOOLEAN
  /\ rxState \in {"FLAG", "MSAP", "CTRL", "BODY", "CRC"}
  /\ torn \in BOOLEAN /\ mixed \in BOOLEAN
  /\ client \in {"down", "connecting", "up", "disconnecting"}
  /\ vs \in Numbers /\ vr \in Numbers
  /\ request \in 1 .. Len(Parts) + 1 /\ part \in Nat \ {0}
  /\ joined \in BOOLEAN
  /\ abandoned \subseteq Requests

(* A request under way counts as made.                                     *)
Begun == part > 1 \/ last.type = "I"

Delivery == INSTANCE RequestDelivery WITH
  made     <- IF Begun THEN request ELSE request - 1,
  executed <- [i \in DOMAIN executed |-> Head(executed[i]).req]

(* Whatever frames are lost and repeated, no request is executed twice, or *)
(* before an earlier one, until the main program first works on a buffer   *)
(* that a further frame is overwriting.                                    *)
DeliversInOrder == Delivery!Spec

(* What is executed until then is a whole request, but for what is left in *)
(* the buffer of segments of requests that the client has given up.        *)
PartOf(b, r, p) == b.req = r /\ b.part = p /\ b.whole

Ends(body) ==
  LET r == Last(body).req
      n == Len(body) - Parts[r]
  IN  /\ r # 0 /\ n >= 0
      /\ \A p \in 1 .. Parts[r] : PartOf(body[n + p], r, p)
      /\ \A i \in 1 .. n : body[i].req \in abandoned \union {0}

ExecutesWhole == \A i \in DOMAIN executed : Ends(executed[i])

(* A client that connects and does not tire is connected in the end, even  *)
(* while the other port was in use, if from some time on the main program  *)
(* is in time for each frame, before a byte of the next one.               *)
InTime   == ~(Frame_Received /\ torn)
Connects == <>[]InTime => (client = "connecting" ~> client = "up")
=============================================================================
