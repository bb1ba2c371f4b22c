--------------------------- MODULE HdlcLinkProofs ---------------------------
(***************************************************************************)
(* Proofs about the HDLC data link.  The inductive invariant says, for     *)
(* every frame that is still under way, in the receive buffer or on the    *)
(* line, how its number relates to the one that the meter expects:         *)
(*                                                                         *)
(*   - the frames under way are of one session, in order, and SNRM is      *)
(*     before all others (PipeInv);                                        *)
(*   - the meter expects the client's last information frame and is ready  *)
(*     for its piece, or has accepted it (SyncInv);                        *)
(*   - an answer that is true stays true until it is read (AnswerInv);     *)
(*   - an accepted frame is what its client waits for an answer to, or its *)
(*     client has given up (AcceptedInv).                                  *)
(*                                                                         *)
(* It says so until the main program first works on a torn buffer: a frame *)
(* over which another one has begun counts as lost (Pending), for it is    *)
(* overwritten in the end, unless the main program comes before that.      *)
(*                                                                         *)
(* Of the sequence numbers the proofs need only that n + 1 differs from n, *)
(* and, at the end, that n + 2 does: no frame is rejected on an open link. *)
(***************************************************************************)
EXTENDS HdlcLink, SequenceTheorems, TLAPS

-----------------------------------------------------------------------------
(* The inductive invariant.                                                *)

\* A frame waits in the receive buffer, and is whole.
Pending == Frame_Received /\ ~torn

\* Is an information frame waiting there; is one on the line?
RxInform   == Pending /\ rx.type = "I"
LineInform == toMeter.type = "I"

\* The next frame that the meter processes resets its numbers ...
SnrmFirst == Pending /\ rx.type = "SNRM"
SnrmAhead == SnrmFirst \/ toMeter.type = "SNRM"
Expected  == IF SnrmFirst THEN 0 ELSE next_nr
Sending   == IF SnrmFirst THEN 0 ELSE ns

\* ... or else it takes no information frame until the client connects again.
Deaf == disconnected /\ ~SnrmFirst

\* The head of the body executed last.
Newest(bodies) == IF bodies = <<>> THEN 0 ELSE Head(bodies[Len(bodies)]).req

Made == IF Begun THEN request ELSE request - 1

\* The segments s end with the parts of request r before part p; what is before
\* them belongs to requests that are gone.
Collected(s, gone, r, p) ==
  \/ Len(s) > MAX_SEGGY_LEN
  \/ /\ p - 1 <= Len(s)
     /\ \A q \in 1 .. p - 1 : PartOf(s[Len(s) - (p - 1) + q], r, q)
     /\ \A i \in 1 .. Len(s) - (p - 1) : s[i].req \in gone \union {0}

\* The meter is ready for part p of request r.
Ready(r, p) == Collected(seggy, abandoned, r, p) /\ Newest(executed) < r

\* A frame that carries a part of a request, the last one if it is not segmented.
IsPart(f) ==
  /\ f.type = "I" /\ f.body.req \in Requests /\ f.body.whole
  /\ f.body.part <= Parts[f.body.req] /\ f.segmented = (f.body.part < Parts[f.body.req])

\* What the client is waiting for, and how far it is with its request.
ClientInv ==
  /\ client = "down" => last = None
  /\ client = "connecting" => last = SNRM
  /\ client = "disconnecting" => last = DISC
  /\ client = "up" =>
       \/ last = None
       \/ last.type = "RR"
       \/ IsPart(last) /\ last.body.req = request /\ last.body.part = part
          /\ last.ns = vs /\ last.nr = vr
  /\ client # "up" => part = 1
  /\ part > 1 => request \in Requests /\ part <= Parts[request]
  /\ \A r \in abandoned : r < request

\* A copy of the frame that the client has sent last in its session, and one of
\* the frame before.
Current(f) ==
  /\ IsPart(f) /\ f.ns = vs /\ f.nr = vr
  /\ \/ client = "up" /\ f = last
     \/ client \in {"down", "connecting"} /\ f.body.req \in abandoned
Old(f) == Inc(f.ns) = vs

\* The frames under way are of one session and in order, and a frame that opens
\* a session is before all of them.
PipeInv ==
  /\ client = "connecting" => toMeter = None \/ toMeter = SNRM
  /\ toMeter.type = "none" => toMeter = None
  /\ toMeter.type = "SNRM" /\ client # "connecting" =>
       /\ Pending => rx.type = "SNRM"
       /\ client = "up" => last = None /\ part = 1
  /\ SnrmAhead /\ client # "connecting" =>
       /\ vs = 0 /\ vr = 0 /\ ~accepted /\ (disconnected \/ (next_nr = 0 /\ ns = 0))
       /\ client = "up" => toClient.type \in {"none", "UA", "DM"} /\ part = 1
  /\ ~Deaf =>
       /\ RxInform => Current(rx) \/ Old(rx)
       /\ LineInform => Current(toMeter) \/ Old(toMeter)
       /\ RxInform /\ LineInform /\ Old(toMeter) => Old(rx)

\* The meter has accepted the client's last frame or is ready for it.
SyncInv ==
  ~Deaf /\ (client = "up" \/ RxInform \/ LineInform) =>
    \/ /\ Expected = vs /\ Sending = vr /\ ~accepted
       /\ client = "up" => Ready(request, part)
       /\ RxInform /\ rx.ns = vs => Ready(rx.body.req, rx.body.part)
       /\ LineInform /\ toMeter.ns = vs => Ready(toMeter.body.req, toMeter.body.part)
    \/ /\ Expected = Inc(vs) /\ ~SnrmFirst
       /\ (RxInform => ~Old(rx)) /\ (LineInform => ~Old(toMeter))
       /\ client = "up" => /\ last.type = "I"
                           /\ ~accepted /\ last.segmented => ns = vr /\ Ready(request, part + 1)

\* What an answer tells the client is true.
AnswerInv ==
  /\ client = "up" /\ toClient.type = "I" =>
       /\ next_nr = Inc(vs) /\ ns = Inc(vr) /\ ~accepted
       /\ last.type = "I" /\ seggy = <<>> /\ ~SnrmFirst
  /\ client = "up" /\ toClient.type = "RR" =>
       /\ ~Deaf => (toClient.nr = vs \/ toClient.nr = next_nr) /\ ~SnrmFirst
       /\ accepted => toClient.nr = vs
  /\ client = "connecting" /\ toClient.type = "UA" =>
       /\ ~accepted /\ (Pending => rx.type = "SNRM")
       /\ disconnected \/ (next_nr = 0 /\ ns = 0)

\* The frame that was accepted is the client's last one, or the client has given up.
AcceptedInv ==
  accepted =>
    /\ ns = next_ns
    /\ IsPart(rx) /\ Ready(rx.body.req, rx.body.part)
    /\ \/ client = "up" /\ rx = last /\ next_nr = Inc(vs) /\ ns = vr
       \/ client \in {"down", "connecting"} /\ rx.body.req \in abandoned

\* Requests are executed in the order in which they are made, and what is in the
\* buffer of segments belongs to one that is not executed.
OrderInv ==
  /\ Newest(executed) <= Made
  /\ \A i \in 1 .. Len(seggy) :
       seggy[i].req \in abandoned \union {0} \/ (Begun /\ seggy[i].req = request)
  /\ seggy # <<>> => Head(seggy).req = 0 \/ Newest(executed) < Head(seggy).req

LinkInv == PipeInv /\ SyncInv /\ AnswerInv /\ AcceptedInv /\ OrderInv

\* A frame that is coming in tears the buffer, and is in it before its end.
BufferInv ==
  /\ rxState # "FLAG" => torn /\ toMeter # None
  /\ rxState = "CRC" => rx = toMeter
  /\ accepted /\ torn => mixed

(* Numbers, frames and bodies.                                             *)

\* A number differs from the next one.
LEMMA IncProperties ==
  /\ 0 \in Numbers
  /\ \A n \in Numbers : Inc(n) \in Numbers /\ Inc(n) # n
<1> USE HdlcAssumption DEF Numbers
<1>1. 0 \in Numbers
  OBVIOUS
<1>2. ASSUME NEW n \in Numbers PROVE Inc(n) \in Numbers /\ Inc(n) # n
  <2>1. CASE n = Modulus - 1
    <3>1. (n + 1) % Modulus = 0
      BY <2>1
    <3>2. QED
      BY <2>1, <3>1 DEF Inc
  <2>2. CASE n # Modulus - 1
    <3>1. n + 1 \in 0 .. Modulus - 1
      BY <2>2
    <3>2. (n + 1) % Modulus = n + 1
      BY <3>1
    <3>3. QED
      BY <3>1, <3>2 DEF Inc
  <2>3. QED
    BY <2>1, <2>2
<1>3. QED
  BY <1>1, <1>2

\* The frames without information ...
LEMMA FrameProperties ==
  /\ None \in Frames /\ None.type = "none"
  /\ SNRM \in Frames /\ SNRM.type = "SNRM" /\ SNRM.body.req = 0 /\ SNRM.segmented = FALSE
  /\ DISC \in Frames /\ DISC.type = "DISC"
  /\ UA \in Frames /\ UA.type = "UA"
  /\ DM \in Frames /\ DM.type = "DM"
  /\ FRMR \in Frames /\ FRMR.type = "FRMR"
  /\ \A n \in Numbers : RR(n) \in Frames /\ RR(n).type = "RR" /\ RR(n).nr = n
  /\ Parameters \in Pieces /\ Parameters.req = 0
<1>1. Parameters \in Pieces /\ Parameters.req = 0
  BY DEF Parameters, Piece, Pieces
<1>2. ASSUME NEW t \in {"none", "SNRM", "DISC", "UA", "DM", "FRMR", "RR"}, NEW n \in Numbers
      PROVE  /\ Supervisory(t, n) \in Frames /\ Supervisory(t, n).type = t
             /\ Supervisory(t, n).nr = n /\ Supervisory(t, n).segmented = FALSE
             /\ Supervisory(t, n).body = Parameters
  BY <1>1, IncProperties DEF Supervisory, Frames
<1>3. /\ None \in Frames /\ None.type = "none"
      /\ SNRM \in Frames /\ SNRM.type = "SNRM" /\ SNRM.body.req = 0 /\ SNRM.segmented = FALSE
      /\ DISC \in Frames /\ DISC.type = "DISC"
      /\ UA \in Frames /\ UA.type = "UA"
      /\ DM \in Frames /\ DM.type = "DM"
      /\ FRMR \in Frames /\ FRMR.type = "FRMR"
  <2>1. None \in Frames /\ None.type = "none"
    BY <1>1, IncProperties DEF None, Supervisory, Frames
  <2>2. SNRM \in Frames /\ SNRM.type = "SNRM" /\ SNRM.body.req = 0 /\ SNRM.segmented = FALSE
    BY <1>1, IncProperties DEF SNRM, Supervisory, Frames
  <2>3. DISC \in Frames /\ DISC.type = "DISC"
    BY <1>2, IncProperties DEF DISC
  <2>4. UA \in Frames /\ UA.type = "UA"
    BY <1>2, IncProperties DEF UA
  <2>5. DM \in Frames /\ DM.type = "DM"
    BY <1>2, IncProperties DEF DM
  <2>6. FRMR \in Frames /\ FRMR.type = "FRMR"
    BY <1>2, IncProperties DEF FRMR
  <2>7. QED
    BY <2>1, <2>2, <2>3, <2>4, <2>5, <2>6
<1>4. \A n \in Numbers : RR(n) \in Frames /\ RR(n).type = "RR" /\ RR(n).nr = n
  BY <1>2 DEF RR
<1>5. QED
  BY <1>1, <1>3, <1>4, Zenon

\* ... and those with it.
LEMMA InformProperties ==
  ASSUME NEW n \in Numbers, NEW m \in Numbers, NEW s \in BOOLEAN, NEW b \in Pieces
  PROVE  /\ I(n, m, s, b) \in Frames /\ I(n, m, s, b).type = "I"
         /\ I(n, m, s, b).ns = n /\ I(n, m, s, b).nr = m
         /\ I(n, m, s, b).segmented = s /\ I(n, m, s, b).body = b
BY DEF I, Frames

\* Nothing is lost when more requests are gone.
LEMMA CollectedKept ==
  ASSUME NEW s, NEW gone, NEW more, gone \subseteq more, NEW r, NEW p, Collected(s, gone, r, p)
  PROVE  Collected(s, more, r, p)
BY DEF Collected

\* The first part of a request finds a buffer of segments of which all are gone.
LEMMA CollectedFirst ==
  ASSUME NEW s \in Seq(Pieces), NEW gone, NEW r,
         \A i \in 1 .. Len(s) : s[i].req \in gone \union {0}
  PROVE  Collected(s, gone, r, 1)
<1>1. Len(s) \in Nat
  BY LenProperties
<1>2. QED
  BY <1>1 DEF Collected

\* A further part is appended.
LEMMA CollectedMore ==
  ASSUME NEW s \in Seq(Pieces), NEW b \in Pieces, NEW gone, Len(s) < MAX_SEGGY_LEN,
         b.whole, Collected(s, gone, b.req, b.part)
  PROVE  Collected(Append(s, b), gone, b.req, b.part + 1)
<1> DEFINE t == Append(s, b)  p == b.part
<1>1. Len(s) \in Nat /\ MAX_SEGGY_LEN \in Nat /\ p \in Nat \ {0}
  BY LenProperties, HdlcAssumption DEF Pieces
<1>2. /\ Len(t) = Len(s) + 1 /\ t[Len(s) + 1] = b
      /\ \A i \in 1 .. Len(s) : t[i] = s[i]
  BY AppendProperties
<1> HIDE DEF t
<1>3. /\ p - 1 <= Len(s)
      /\ \A q \in 1 .. p - 1 : PartOf(s[Len(s) - (p - 1) + q], b.req, q)
      /\ \A i \in 1 .. Len(s) - (p - 1) : s[i].req \in gone \union {0}
  BY <1>1 DEF Collected
<1> HIDE DEF p
<1>4. ASSUME NEW q \in 1 .. (p + 1) - 1
      PROVE  PartOf(t[Len(t) - ((p + 1) - 1) + q], b.req, q)
  <2>1. Len(t) - ((p + 1) - 1) + q = Len(s) - (p - 1) + q
    BY <1>1, <1>2
  <2>2. CASE q = p
    <3>1. Len(s) - (p - 1) + q = Len(s) + 1
      BY <1>1, <2>2
    <3>2. QED
      BY <1>2, <2>1, <2>2, <3>1 DEF p, PartOf
  <2>3. CASE q \in 1 .. p - 1
    <3>1. Len(s) - (p - 1) + q \in 1 .. Len(s)
      BY <1>1, <1>3, <2>3
    <3>2. QED
      BY <1>2, <1>3, <2>1, <2>3, <3>1
  <2>4. QED
    BY <1>1, <2>2, <2>3
<1>5. ASSUME NEW i \in 1 .. Len(t) - ((p + 1) - 1) PROVE t[i].req \in gone \union {0}
  <2>1. i \in 1 .. Len(s) - (p - 1) /\ i \in 1 .. Len(s)
    BY <1>1, <1>2
  <2>2. QED
    BY <1>2, <1>3, <2>1
<1>6. (p + 1) - 1 <= Len(t)
  BY <1>1, <1>2, <1>3
<1>7. Collected(t, gone, b.req, p + 1)
  BY <1>4, <1>5, <1>6 DEF Collected
<1>8. QED
  BY <1>7 DEF t, p

\* The last part makes a body that is whole.
LEMMA CollectedWhole ==
  ASSUME NEW s \in Seq(Pieces), NEW b \in Pieces, Len(s) <= MAX_SEGGY_LEN,
         b.req \in Requests, b.part = Parts[b.req], b.whole,
         Collected(s, abandoned, b.req, b.part)
  PROVE  Ends(Append(s, b))
<1> DEFINE t == Append(s, b)  p == b.part
<1>1. Len(s) \in Nat /\ MAX_SEGGY_LEN \in Nat /\ p \in Nat \ {0}
  BY LenProperties, HdlcAssumption DEF Pieces
<1>2. /\ Len(t) = Len(s) + 1 /\ t[Len(s) + 1] = b
      /\ \A i \in 1 .. Len(s) : t[i] = s[i]
  BY AppendProperties
<1>3. Last(t) = b
  BY <1>2 DEF Last
<1> HIDE DEF t
<1>4. /\ p - 1 <= Len(s)
      /\ \A q \in 1 .. p - 1 : PartOf(s[Len(s) - (p - 1) + q], b.req, q)
      /\ \A i \in 1 .. Len(s) - (p - 1) : s[i].req \in abandoned \union {0}
  BY <1>1 DEF Collected
<1> HIDE DEF p
<1>5. ASSUME NEW q \in 1 .. p
      PROVE  PartOf(t[Len(t) - p + q], b.req, q)
  <2>1. Len(t) - p + q = Len(s) - (p - 1) + q
    BY <1>1, <1>2
  <2>2. CASE q = p
    <3>1. Len(s) - (p - 1) + q = Len(s) + 1
      BY <1>1, <2>2
    <3>2. QED
      BY <1>2, <2>1, <2>2, <3>1 DEF p, PartOf
  <2>3. CASE q \in 1 .. p - 1
    <3>1. Len(s) - (p - 1) + q \in 1 .. Len(s)
      BY <1>1, <1>4, <2>3
    <3>2. QED
      BY <1>2, <1>4, <2>1, <2>3, <3>1
  <2>4. QED
    BY <1>1, <2>2, <2>3
<1>6. ASSUME NEW i \in 1 .. Len(t) - p PROVE t[i].req \in abandoned \union {0}
  <2>1. i \in 1 .. Len(s) - (p - 1) /\ i \in 1 .. Len(s)
    BY <1>1, <1>2
  <2>2. QED
    BY <1>2, <1>4, <2>1
<1>7. Len(t) - p >= 0
  BY <1>1, <1>2, <1>4
<1>8. Ends(t)
  BY <1>3, <1>5, <1>6, <1>7, HdlcAssumption DEF Ends, p, Requests
<1>9. QED
  BY <1>8 DEF t

-----------------------------------------------------------------------------
(* Types.                                                                  *)

TypeInv ==
  /\ TypeOK
  /\ executed \in Seq(Seq(Pieces))
  /\ \A i \in 1 .. Len(executed) : executed[i] # <<>>

IndInv == TypeInv /\ BufferInv /\ ClientInv /\ (mixed \/ LinkInv)

\* The types of what the client knows.
StationTypes ==
  /\ client \in {"down", "connecting", "up", "disconnecting"}
  /\ last \in Frames /\ joined \in BOOLEAN /\ part \in Nat \ {0}
  /\ vs \in Numbers /\ vr \in Numbers
  /\ request \in 1 .. Len(Parts) + 1 /\ abandoned \subseteq Requests

\* The requests given up are some that were made.
LEMMA AbandonTypes ==
  ASSUME StationTypes, ClientInv, client \in {"up", "disconnecting"}, Abandon
  PROVE  StationTypes'
<1>1. request \in 1 .. Len(Parts) + 1 /\ abandoned \subseteq Requests /\ Len(Parts) \in Nat
  BY HdlcAssumption, LenProperties DEF StationTypes
<1>2. last.type = "I" \/ part > 1 => request \in Requests
  BY FrameProperties DEF ClientInv, IsPart
<1>3. \/ /\ request \in Requests
         /\ abandoned' = abandoned \union {request} /\ request' = request + 1
      \/ abandoned' = abandoned /\ request' = request
  BY <1>2, Zenon DEF Abandon
<1>4. request' \in 1 .. Len(Parts) + 1
  BY <1>1, <1>3 DEF Requests
<1>5. abandoned' \subseteq Requests
  BY <1>1, <1>3
<1>6. last' \in Frames
  BY FrameProperties DEF Abandon
<1>7. /\ client' \in {"down", "connecting", "up", "disconnecting"}
      /\ vs' \in Numbers /\ vr' \in Numbers
  BY DEF Abandon, StationTypes
<1>8. joined' \in BOOLEAN
  BY Zenon DEF Abandon
<1>9. part' \in Nat \ {0}
  BY DEF Abandon
<1>10. QED
  BY <1>4, <1>5, <1>6, <1>7, <1>8, <1>9, Zenon DEF StationTypes

\* What the client learns from an answer.
LEMMA ReceivesTypes ==
  ASSUME StationTypes, ClientInv, ClientReceives
  PROVE  StationTypes'
<1>1. CASE Opened /\ client' = "up" /\ last' = None /\ vs' = 0 /\ vr' = 0 /\ part' = 1
           /\ joined' = FALSE /\ UNCHANGED <<request, abandoned>>
  <2>1. part' \in Nat \ {0}
    BY <1>1
  <2>2. /\ vs' \in Numbers /\ vr' \in Numbers /\ last' \in Frames /\ joined' \in BOOLEAN
        /\ client' \in {"down", "connecting", "up", "disconnecting"}
    BY <1>1, IncProperties, FrameProperties, Zenon
  <2>3. request' \in 1 .. Len(Parts) + 1 /\ abandoned' \subseteq Requests
    BY <1>1 DEF StationTypes
  <2>4. QED
    BY <2>1, <2>2, <2>3, Zenon DEF StationTypes
<1>2. CASE Taken /\ vs' = Inc(vs) /\ part' = part + 1 /\ last' = None
           /\ UNCHANGED <<client, vr, request, joined, abandoned>>
  BY <1>2, IncProperties, FrameProperties DEF StationTypes
<1>3. CASE Answered /\ vs' = Inc(vs) /\ vr' = Inc(vr) /\ last' = None
           /\ request' = request + 1 /\ part' = 1 /\ joined' = TRUE
           /\ UNCHANGED <<client, abandoned>>
  <2>1. request \in Requests
    BY <1>3, FrameProperties DEF Answered, ClientInv, IsPart
  <2>2. request' \in 1 .. Len(Parts) + 1
    BY <1>3, <2>1 DEF Requests
  <2>3. QED
    BY <1>3, <2>2, IncProperties, FrameProperties DEF StationTypes
<1>4. CASE Polled /\ last' = None /\ UNCHANGED <<client, vs, vr, request, part, joined, abandoned>>
  BY <1>4, FrameProperties DEF StationTypes
<1>5. CASE Closed /\ Abandon
  BY <1>5, AbandonTypes DEF Closed
<1>6. CASE UNCHANGED station
  BY <1>6 DEF station, StationTypes
<1>7. QED
  BY <1>1, <1>2, <1>3, <1>4, <1>5, <1>6 DEF ClientReceives

\* A sequence with one more element.
LEMMA AppendTypes ==
  ASSUME NEW S, NEW s \in Seq(S), NEW e \in S
  PROVE  /\ Append(s, e) \in Seq(S) /\ Append(s, e) # <<>>
         /\ Len(s) \in Nat /\ Len(Append(s, e)) = Len(s) + 1
         /\ Append(s, e)[Len(s) + 1] = e
         /\ \A i \in 1 .. Len(s) : Append(s, e)[i] = s[i]
<1>1. /\ Append(s, e) \in Seq(S) /\ Len(Append(s, e)) = Len(s) + 1
      /\ Append(s, e)[Len(s) + 1] = e
      /\ \A i \in 1 .. Len(s) : Append(s, e)[i] = s[i]
  BY AppendProperties
<1>2. Len(s) \in Nat
  BY LenProperties
<1>3. Append(s, e) # <<>>
  BY <1>1, <1>2
<1>4. QED
  BY <1>1, <1>2, <1>3

\* The buffer of segments.
LEMMA SegmentTypes ==
  ASSUME seggy \in Seq(Pieces), Len(seggy) <= MAX_SEGGY_LEN + 1, NEW body \in Pieces, Segment(body)
  PROVE  seggy' \in Seq(Pieces) /\ Len(seggy') <= MAX_SEGGY_LEN + 1
<1>1. MAX_SEGGY_LEN \in Nat /\ Parameters \in Pieces
  BY HdlcAssumption, FrameProperties
<1>2. CASE Fits
  <2>1. seggy' = Append(seggy, body) /\ Len(seggy) < MAX_SEGGY_LEN
    BY <1>2 DEF Segment, Fits
  <2>2. QED
    BY <1>1, <2>1, AppendTypes
<1>3. CASE ~Fits
  <2>1. seggy' = [i \in 1 .. MAX_SEGGY_LEN + 1 |-> Parameters]
    BY <1>3 DEF Segment
  <2>2. QED
    BY <1>1, <2>1
<1>4. QED
  BY <1>2, <1>3

\* The bodies executed.
LEMMA ExecutedTypes ==
  ASSUME TypeInv, NEW body \in Seq(Pieces), body # <<>>,
         executed' = executed \/ executed' = Append(executed, body)
  PROVE  executed' \in Seq(Seq(Pieces)) /\ \A i \in 1 .. Len(executed') : executed'[i] # <<>>
<1>1. executed \in Seq(Seq(Pieces)) /\ \A i \in 1 .. Len(executed) : executed[i] # <<>>
  BY DEF TypeInv
<1>2. CASE executed' = Append(executed, body)
  <2>1. /\ executed' \in Seq(Seq(Pieces)) /\ Len(executed') = Len(executed) + 1
        /\ executed'[Len(executed) + 1] = body /\ Len(executed) \in Nat
        /\ \A i \in 1 .. Len(executed) : executed'[i] = executed[i]
    BY <1>1, <1>2, AppendTypes
  <2>2. ASSUME NEW i \in 1 .. Len(executed') PROVE executed'[i] # <<>>
    <3>1. i = Len(executed) + 1 \/ i \in 1 .. Len(executed)
      BY <2>1
    <3>2. QED
      BY <1>1, <2>1, <3>1
  <2>3. QED
    BY <2>1, <2>2
<1>3. CASE executed' = executed
  BY <1>1, <1>3
<1>4. QED
  BY <1>2, <1>3

\* The frames and the numbers of the client.
LEMMA ClientTypes ==
  ASSUME IndInv,
         \/ ClientConnects \/ ClientDisconnects \/ ClientRequests \/ ClientPolls
         \/ ClientRepeats \/ ClientGivesUp \/ ClientReceives
  PROVE  TypeInv'
<1> USE IncProperties, FrameProperties
    DEF IndInv, TypeInv, TypeOK, numbers, link, meter, buffer, line, station, bounds, Transmit
<1>1. /\ UNCHANGED <<next_nr, next_ns, ns, disconnected, configured, plcConfigured, seggy, rx,
                     Frame_Received, rxState, torn, mixed, accepted, executed>>
  BY DEF ClientConnects, ClientDisconnects, ClientRequests, ClientPolls, ClientRepeats,
         ClientGivesUp, ClientReceives
<1>2. CASE ClientConnects
  BY <1>2 DEF ClientConnects
<1>3. CASE ClientDisconnects
  <2>1. /\ toMeter' = DISC /\ last' = DISC /\ client' = "disconnecting" /\ part' = 1
        /\ UNCHANGED <<toClient, vs, vr, joined, losses, repeats, timeouts>>
    BY <1>3 DEF ClientDisconnects
  <2>2. \/ /\ part > 1 /\ request \in Requests
           /\ abandoned' = abandoned \union {request} /\ request' = request + 1
        \/ abandoned' = abandoned /\ request' = request
    BY <1>3 DEF ClientDisconnects, ClientInv
  <2>3. abandoned' \subseteq Requests
    BY <2>2
  <2>4. request' \in 1 .. Len(Parts) + 1
    BY <2>2 DEF Requests
  <2>5. QED
    BY <1>1, <2>1, <2>3, <2>4
<1>4. CASE ClientRequests
  <2>1. /\ last' = I(vs, vr, part < Parts[request], Piece(request, part, ~joined))
        /\ toMeter' = last' /\ request \in Requests
        /\ UNCHANGED <<toClient, client, vs, vr, request, part, joined, abandoned,
                       losses, repeats, timeouts>>
    BY <1>4 DEF ClientRequests
  <2>2. Piece(request, part, ~joined) \in Pieces
    BY <2>1 DEF Piece, Pieces
  <2>3. (part < Parts[request]) \in BOOLEAN
    OBVIOUS
  <2>4. last' \in Frames
    BY <2>1, <2>2, <2>3, InformProperties
  <2>5. QED
    BY <1>1, <2>1, <2>4
<1>5. CASE ClientPolls
  BY <1>5 DEF ClientPolls
<1>6. CASE ClientRepeats
  BY <1>6 DEF ClientRepeats
<1>7. CASE ClientGivesUp
  <2>1. StationTypes'
    BY <1>7, AbandonTypes DEF ClientGivesUp, StationTypes
  <2>2. UNCHANGED <<toMeter, toClient, losses, repeats, timeouts>>
    BY <1>7 DEF ClientGivesUp
  <2>3. QED
    BY <1>1, <2>1, <2>2 DEF StationTypes
<1>8. CASE ClientReceives
  <2>1. StationTypes'
    BY <1>8, ReceivesTypes DEF StationTypes
  <2>2. toClient' = None /\ UNCHANGED <<toMeter, losses, repeats, timeouts>>
    BY <1>8 DEF ClientReceives
  <2>3. QED
    BY <1>1, <2>1, <2>2 DEF StationTypes
<1>9. QED
  BY <1>2, <1>3, <1>4, <1>5, <1>6, <1>7, <1>8

\* A byte of a frame, or its end.
LEMMA ByteTypes ==
  ASSUME TypeInv, iec62056_46_rx_byte
  PROVE  TypeInv'
<1> USE IncProperties, FrameProperties DEF TypeInv, TypeOK, numbers, link, line, station, bounds
<1>1. /\ toMeter.segmented \in BOOLEAN /\ rx.body \in Pieces
      /\ [toMeter EXCEPT !.body = rx.body] \in Frames
  BY DEF Frames
<1>2. \A type \in {"none", "I"} : Cleared(type) \in Frames
  <2>1. I(0, 0, toMeter.segmented, rx.body) \in Frames
    BY <1>1, InformProperties
  <2>2. QED
    BY <2>1 DEF Cleared, Frames
<1>3. ASSUME NEW before, NEW after \in {"MSAP", "CTRL", "BODY", "CRC"}, NEW frame \in Frames,
             Byte(before, after, frame)
      PROVE  TypeInv'
  <2>1. mixed' \in BOOLEAN
    BY <1>3, Zenon DEF Byte
  <2>2. /\ UNCHANGED <<next_nr, next_ns, ns, disconnected, configured, plcConfigured, seggy,
                       Frame_Received, accepted, executed, toMeter, toClient, client, vs, vr,
                       request, part, last, joined, abandoned>>
        /\ rxState' = after /\ torn' = TRUE /\ rx' = frame
    BY <1>3 DEF Byte
  <2>3. mixed => mixed'
    BY <1>3, Zenon DEF Byte
  <2>4. QED
    BY <1>3, <2>1, <2>2, <2>3
<1>4. CASE FrameEnds
  BY <1>4 DEF FrameEnds
<1>5. QED
  BY <1>1, <1>2, <1>3, <1>4 DEF iec62056_46_rx_byte

\* What is read of a body.
LEMMA BodiesTypes == ASSUME rx \in Frames, NEW body \in Bodies PROVE body \in Pieces
<1>1. rx.body \in Pieces
  BY DEF Frames
<1>2. Cut(rx.body) \in Pieces
  BY <1>1 DEF Cut, Pieces
<1>3. QED
  BY <1>1, <1>2 DEF Bodies

\* The body is read, or only a part of what was accepted.
LEMMA ReadBodyTypes ==
  ASSUME IndInv, ReadBody
  PROVE  TypeInv'
<1> USE IncProperties, FrameProperties
    DEF IndInv, TypeInv, TypeOK, numbers, link, meter, buffer, line, station, bounds, Answer
<1>1. /\ UNCHANGED <<next_nr, next_ns, disconnected, plcConfigured, rx, Frame_Received, rxState,
                     torn, mixed, toMeter, client, vs, vr, request, part, last, joined, abandoned,
                     losses, repeats, timeouts>>
      /\ accepted /\ accepted' = FALSE
  BY DEF ReadBody
<1>2. PICK piece \in Bodies : Segment(piece) \/ FinalSegment(piece)
  BY DEF ReadBody
<1>3. piece \in Pieces
  BY BodiesTypes
<1>4. CASE Segment(piece)
  <2>1. seggy' \in Seq(Pieces) /\ Len(seggy') <= MAX_SEGGY_LEN + 1
    BY <1>3, <1>4, SegmentTypes
  <2>2. toClient' = RR(next_nr) /\ UNCHANGED <<ns, configured, executed>>
    BY <1>4 DEF Segment
  <2>3. toClient' \in Frames
    BY <2>2, Zenon
  <2>4. /\ ns' \in Numbers /\ (ns' \in {next_ns', Inc(next_ns')} \/ mixed')
        /\ configured' \in BOOLEAN /\ executed' \in Seq(Seq(Pieces))
        /\ \A i \in 1 .. Len(executed') : executed'[i] # <<>>
    BY <1>1, <2>2
  <2>5. QED
    BY <1>1, <2>1, <2>3, <2>4
<1>5. CASE FinalSegment(piece)
  <2> DEFINE body == Append(seggy, piece)
  <2>1. body \in Seq(Pieces) /\ body # <<>>
    BY <1>3, AppendTypes
  <2>2. /\ seggy' = <<>>
        /\ process_i_body(body) \/ UNCHANGED <<ns, configured, executed, toClient>>
    BY <1>5 DEF FinalSegment
  <2>3. ns' = ns \/ ns' = Inc(ns)
    BY <2>2 DEF process_i_body, Respond
  <2>4. ns' \in {next_ns', Inc(next_ns')} \/ mixed'
    BY <1>1, <2>3 DEF LinkInv, AcceptedInv
  <2>5. toClient' \in Frames
    <3>1. toClient' = toClient \/ toClient' = I(ns, next_nr, FALSE, Parameters)
      BY <2>2, Zenon DEF process_i_body, Respond, Answer
    <3>2. ns \in Numbers /\ next_nr \in Numbers /\ FALSE \in BOOLEAN
      OBVIOUS
    <3>3. I(ns, next_nr, FALSE, Parameters) \in Frames
      BY <3>2, InformProperties, Zenon
    <3>4. QED
      BY <3>1, <3>3, Zenon
  <2>6. configured' \in BOOLEAN
    BY <2>2, Zenon DEF process_i_body, Respond
  <2>7. executed' = executed \/ executed' = Append(executed, body)
    BY <2>2 DEF process_i_body, Record
  <2> HIDE DEF body
  <2>8. executed' \in Seq(Seq(Pieces)) /\ \A i \in 1 .. Len(executed') : executed'[i] # <<>>
    BY <2>1, <2>7, ExecutedTypes
  <2>9. seggy' \in Seq(Pieces) /\ Len(seggy') <= MAX_SEGGY_LEN + 1
    BY <2>2, HdlcAssumption, EmptySeq
  <2>10. ns' \in Numbers
    BY <2>3
  <2>11. QED
    BY <1>1, <2>4, <2>5, <2>6, <2>8, <2>9, <2>10
<1>6. QED
  BY <1>2, <1>4, <1>5

\* The frames and the numbers of the meter.
LEMMA MeterTypes ==
  ASSUME IndInv,
         \/ Lose \/ DamagedHeader \/ iec62056_46_rx_byte \/ iec62056_46_link_idle_timeout
         \/ PlcAssociates \/ Main
  PROVE  TypeInv'
<1> USE IncProperties, FrameProperties
    DEF IndInv, TypeInv, TypeOK, numbers, link, meter, buffer, line, station, bounds, Answer
<1>1. CASE Lose
  BY <1>1 DEF Lose
<1>2. CASE DamagedHeader
  <2>1. rx.body \in Pieces /\ \A header \in Damaged : header \in Frames
    BY DamagedAssumption DEF Frames
  <2>2. ASSUME NEW header \in Frames, NEW body \in Pieces
        PROVE  [header EXCEPT !.body = body] \in Frames
    BY <2>2 DEF Frames
  <2>3. rx' \in Frames
    BY <1>2, <2>1, <2>2 DEF DamagedHeader
  <2>4. QED
    BY <1>2, <2>3 DEF DamagedHeader
<1>3. CASE iec62056_46_link_idle_timeout
  BY <1>3 DEF iec62056_46_link_idle_timeout
<1>4. CASE PlcAssociates
  BY <1>4 DEF PlcAssociates
<1>5. ASSUME NEW type, Received(type)
      PROVE  /\ UNCHANGED <<rx, torn, client, vs, vr, request, part, last, joined, abandoned>>
             /\ Frame_Received' = FALSE /\ rxState' = "FLAG" /\ toMeter' \in Frames
             /\ mixed' \in BOOLEAN /\ (mixed => mixed')
  <2>1. mixed' \in BOOLEAN /\ (mixed => mixed')
    BY <1>5, Zenon DEF Received
  <2>2. toMeter' \in Frames
    BY <1>5 DEF Received
  <2>3. QED
    BY <1>5, <2>1, <2>2 DEF Received
<1>6. CASE ReceiveI
  <2>1. /\ UNCHANGED <<disconnected, configured, plcConfigured, seggy, executed>>
        /\ Received("I")
    BY <1>6 DEF ReceiveI
  <2>2. /\ next_nr' = next_nr \/ next_nr' = Inc(next_nr)
        /\ toClient' \in {toClient, DM, FRMR, RR(next_nr)}
    BY <1>6 DEF ReceiveI
  <2>3. accepted' \in BOOLEAN
    BY <1>6, Zenon DEF ReceiveI
  <2>4. ns' = ns /\ (next_ns' = next_ns \/ (next_ns' = rx.nr /\ Acknowledges(rx.nr)))
    BY <1>6 DEF ReceiveI
  <2>5. next_ns' \in Numbers /\ ns' \in Numbers /\ (ns' \in {next_ns', Inc(next_ns')} \/ mixed)
    BY <2>4 DEF Acknowledges, Frames
  <2>6. next_nr' \in Numbers /\ toClient' \in Frames
    BY <2>2
  <2>7. QED
    BY <1>5, <2>1, <2>3, <2>5, <2>6
<1>7. CASE ReceiveRR
  <2>1. /\ UNCHANGED <<next_nr, ns, disconnected, configured, plcConfigured, seggy, accepted,
                       executed>>
        /\ toClient' \in {RR(next_nr), FRMR}
        /\ Received("RR")
    BY <1>7 DEF ReceiveRR
  <2>2. next_ns' = next_ns \/ (next_ns' = rx.nr /\ Acknowledges(rx.nr))
    BY <1>7 DEF ReceiveRR
  <2>3. next_ns' \in Numbers /\ (ns' \in {next_ns', Inc(next_ns')} \/ mixed)
    BY <2>1, <2>2 DEF Acknowledges, Frames
  <2>4. QED
    BY <1>5, <2>1, <2>3
<1>8. CASE ReceiveSNRM
  BY <1>5, <1>8 DEF ReceiveSNRM, ResetNumbers, dl_connect_indication
<1>9. CASE ReceiveDISC
  BY <1>5, <1>9 DEF ReceiveDISC
<1>10. CASE ReceiveNothing
  BY <1>5, <1>10 DEF ReceiveNothing
<1>11. QED
  BY <1>1, <1>2, <1>3, <1>4, <1>6, <1>7, <1>8, <1>9, <1>10, ByteTypes, ReadBodyTypes DEF Main

-----------------------------------------------------------------------------
(* Every step keeps the invariant.                                         *)

\* What the steps need to know of the types.
Typed ==
  /\ next_nr \in Numbers /\ next_ns \in Numbers /\ ns \in Numbers
  /\ vs \in Numbers /\ vr \in Numbers
  /\ rx.ns \in Numbers /\ toMeter.ns \in Numbers /\ last.ns \in Numbers
  /\ request \in Nat \ {0} /\ part \in Nat \ {0} /\ abandoned \subseteq Nat
  /\ Newest(executed) \in Nat
  /\ seggy \in Seq(Pieces) /\ Len(seggy) \in Nat

\* TypeInv gives the types of each variable.
LEMMA TypedFacts == ASSUME TypeInv PROVE Typed
<1> USE DEF TypeInv, TypeOK
<1>1. ns \in Numbers
  OBVIOUS
<1>2. rx.ns \in Numbers /\ toMeter.ns \in Numbers /\ last.ns \in Numbers
  BY DEF Frames
<1>3. Newest(executed) \in Nat
  <2>1. CASE executed # <<>>
    <3>1. Len(executed) \in 1 .. Len(executed)
      BY <2>1, LenProperties, EmptySeq
    <3>2. executed[Len(executed)] \in Seq(Pieces) /\ executed[Len(executed)] # <<>>
      BY <3>1, ElementOfSeq
    <3>3. Head(executed[Len(executed)]) \in Pieces
      BY <3>2
    <3>4. Head(executed[Len(executed)]).req \in Requests \union {0}
      BY <3>3 DEF Pieces
    <3>5. QED
      BY <2>1, <3>4, HdlcAssumption, LenProperties DEF Newest, Requests
  <2>2. QED
    BY <2>1 DEF Newest
<1>4. request \in Nat \ {0} /\ abandoned \subseteq Nat
  BY HdlcAssumption, LenProperties DEF Requests
<1>5. Len(seggy) \in Nat
  BY LenProperties
<1>6. QED
  BY <1>1, <1>2, <1>3, <1>4, <1>5 DEF Typed

\* Each request has at least one part.
LEMMA PartsCounts == \A r \in Requests : Parts[r] \in Nat \ {0}
BY HdlcAssumption DEF Requests

\* The meter is ready for the first part of a request that has not begun.
LEMMA FirstReady ==
  ASSUME Typed, OrderInv, ~Begun
  PROVE  Ready(request, 1)
<1>1. Newest(executed) < request
  BY DEF Typed, OrderInv, Made
<1>2. seggy \in Seq(Pieces) /\ \A i \in 1 .. Len(seggy) : seggy[i].req \in abandoned \union {0}
  BY DEF Typed, OrderInv
<1>3. Collected(seggy, abandoned, request, 1)
  BY <1>2, CollectedFirst
<1>4. QED
  BY <1>1, <1>3 DEF Ready

\* A client connects: the line is silent.
LEMMA ClientConnectsKeeps ==
  ASSUME IndInv, ~mixed, ClientConnects
  PROVE  LinkInv'
<1>1. Typed
  BY TypedFacts DEF IndInv
<1>2. ClientInv /\ PipeInv /\ SyncInv /\ AnswerInv /\ AcceptedInv /\ OrderInv
  BY DEF IndInv, LinkInv
<1>3. /\ toMeter = None /\ toMeter' = SNRM /\ last' = SNRM /\ toClient = None
      /\ client = "down" /\ client' = "connecting"
      /\ UNCHANGED <<next_nr, next_ns, ns, disconnected, seggy, rx, Pending,
                      accepted, executed, toClient, vs, vr, request, part, abandoned>>
  BY DEF ClientConnects, Transmit, meter, buffer, Pending, link, numbers
<1> USE <1>2, <1>3, FrameProperties
<1>4. PipeInv'
  BY <1>1, IncProperties DEF Typed, PipeInv, RxInform, LineInform, SnrmFirst, SnrmAhead,
                              Deaf, Current, Old
<1>5. SyncInv'
  BY <1>1, IncProperties DEF Typed, SyncInv, RxInform, LineInform, SnrmFirst, Expected,
                              Sending, Deaf, Old, Ready
<1>6. AnswerInv'
  BY <1>1, IncProperties DEF Typed, AnswerInv, SnrmFirst, Deaf
<1>7. AcceptedInv'
  BY <1>1, IncProperties DEF Typed, AcceptedInv, Ready
<1>8. OrderInv'
  BY <1>1, IncProperties DEF Typed, OrderInv, Made, Begun, ClientInv
<1>9. QED
  BY <1>4, <1>5, <1>6, <1>7, <1>8 DEF LinkInv

\* A client closes its link: no information frame of its is under way.
LEMMA ClientDisconnectsKeeps ==
  ASSUME IndInv, ~mixed, ClientDisconnects
  PROVE  LinkInv'
<1>1. Typed
  BY TypedFacts DEF IndInv
<1>2. ClientInv /\ PipeInv /\ SyncInv /\ AnswerInv /\ AcceptedInv /\ OrderInv
  BY DEF IndInv, LinkInv
<1>3. /\ toMeter = None /\ toMeter' = DISC /\ last = None /\ last' = DISC
      /\ client = "up" /\ client' = "disconnecting"
      /\ part' = 1 /\ abandoned' = abandoned \union (IF part > 1 THEN {request} ELSE {})
      /\ request' = IF part > 1 THEN request + 1 ELSE request
      /\ UNCHANGED <<next_nr, next_ns, ns, disconnected, seggy, rx, Pending,
                      accepted, executed, toClient, vs, vr>>
  BY DEF ClientDisconnects, Transmit, meter, buffer, Pending, link, numbers
<1> USE <1>2, <1>3, FrameProperties
<1>4. PipeInv'
  BY <1>1, IncProperties DEF Typed, PipeInv, RxInform, LineInform, SnrmFirst, SnrmAhead,
                              Deaf, Current, Old
<1>5. SyncInv'
  BY <1>1, IncProperties DEF Typed, SyncInv, RxInform, LineInform, SnrmFirst, Expected,
                              Sending, Deaf, Old, Ready, PipeInv, Current, IsPart, SnrmAhead
<1>6. AnswerInv'
  BY <1>1, IncProperties DEF Typed, AnswerInv, SnrmFirst, Deaf
<1>7. AcceptedInv'
  BY <1>1, IncProperties DEF Typed, AcceptedInv, Ready, IsPart
<1>8. OrderInv'
  BY <1>1, IncProperties DEF Typed, OrderInv, Made, Begun
<1>9. QED
  BY <1>4, <1>5, <1>6, <1>7, <1>8 DEF LinkInv

\* The next part of a request, on a silent line: the meter was ready for it.
LEMMA ClientRequestsKeeps ==
  ASSUME IndInv, ~mixed, ClientRequests
  PROVE  LinkInv'
<1>1. Typed
  BY TypedFacts DEF IndInv
<1>2. LinkInv /\ ClientInv
  BY DEF IndInv
<1> DEFINE piece == Piece(request, part, ~joined)
           frame == I(vs, vr, part < Parts[request], piece)
<1>3. /\ client = "up" /\ last = None /\ request \in Requests /\ toMeter = None
      /\ toMeter' = frame /\ last' = frame
      /\ UNCHANGED <<meter, toClient, client, vs, vr, request, part, joined, abandoned>>
  BY DEF ClientRequests, Transmit
<1>4. frame.type = "I" /\ frame.ns = vs /\ frame.nr = vr /\ frame.body = piece
      /\ frame.segmented = (part < Parts[request])
  BY DEF I
<1>5. piece.req = request /\ piece.part = part /\ piece.whole
  BY DEF Piece
<1> HIDE DEF frame, piece
<1>6. part <= Parts[request]
  BY <1>1, <1>2, <1>3, PartsCounts DEF ClientInv, Typed
<1>7. IsPart(frame) /\ frame.body.req = request /\ frame.body.part = part
  BY <1>3, <1>4, <1>5, <1>6 DEF IsPart
<1> USE <1>1, <1>2, <1>3, <1>4, <1>7, FrameProperties, IncProperties
    DEF Typed, LinkInv, link, meter, buffer, Pending, numbers, Current, Ready, Old, RxInform, LineInform,
        SnrmFirst, SnrmAhead, Expected, Sending, Deaf, Made, Begun
<1>8. PipeInv'
  BY DEF PipeInv, ClientInv
<1>9. SyncInv'
  BY DEF SyncInv
<1>10. AnswerInv'
  BY DEF AnswerInv
<1>11. AcceptedInv'
  BY DEF AcceptedInv, IsPart
<1>12. OrderInv'
  BY DEF OrderInv
<1>13. QED
  BY <1>8, <1>9, <1>10, <1>11, <1>12 DEF LinkInv

\* A client repeats what it has sent last.
LEMMA ClientRepeatsKeeps ==
  ASSUME IndInv, ~mixed, ClientRepeats
  PROVE  LinkInv'
<1>1. Typed
  BY TypedFacts DEF IndInv
<1>2. LinkInv /\ ClientInv
  BY DEF IndInv
<1>3. /\ toMeter = None /\ toMeter' = last /\ last # None
      /\ UNCHANGED <<meter, toClient, client, vs, vr, request, part, last, joined, abandoned>>
  BY DEF ClientRepeats, Transmit
<1>4. client # "down"
  BY <1>2, <1>3 DEF LinkInv, ClientInv
<1>5. \/ client = "connecting" /\ last = SNRM /\ last.type = "SNRM"
      \/ client = "disconnecting" /\ last = DISC /\ last.type = "DISC"
      \/ client = "up" /\ last.type = "RR"
      \/ client = "up" /\ last.type = "I" /\ last.body.req = request /\ last.body.part = part
         /\ last.ns = vs /\ last.nr = vr /\ IsPart(last)
  BY <1>2, <1>3, <1>4, FrameProperties DEF LinkInv, ClientInv, IsPart, IndInv, TypeInv, TypeOK
<1>6. last.type = "I" => Inc(last.ns) # last.ns /\ Current(last)
  BY <1>1, <1>5, FrameProperties, IncProperties DEF Typed, Current
<1> USE <1>1, <1>2, <1>3, <1>5, <1>6, FrameProperties, IncProperties
    DEF Typed, LinkInv, link, meter, buffer, Pending, numbers, Ready, Old, RxInform, LineInform, SnrmFirst,
        SnrmAhead, Expected, Sending, Deaf, Made, Begun
<1>7. PipeInv'
  BY DEF PipeInv, ClientInv, Current
<1>8. SyncInv'
  BY DEF SyncInv
<1>9. AnswerInv'
  BY DEF AnswerInv
<1>10. AcceptedInv'
  BY DEF AcceptedInv
<1>11. OrderInv'
  BY DEF OrderInv
<1>12. QED
  BY <1>7, <1>8, <1>9, <1>10, <1>11 DEF LinkInv

\* A client polls.
LEMMA ClientPollsKeeps ==
  ASSUME IndInv, ~mixed, ClientPolls
  PROVE  LinkInv'
<1>1. Typed
  BY TypedFacts DEF IndInv
<1>2. ClientInv /\ PipeInv /\ SyncInv /\ AnswerInv /\ AcceptedInv /\ OrderInv
  BY DEF IndInv, LinkInv
<1>3. /\ toMeter = None /\ toMeter' = RR(vr) /\ last = None /\ last' = RR(vr) /\ client = "up"
      /\ UNCHANGED <<next_nr, next_ns, ns, disconnected, seggy, rx, Pending,
                      accepted, executed, toClient, client, vs, vr, request, part,
                      abandoned>>
  BY DEF ClientPolls, Transmit, meter, buffer, Pending, link, numbers
<1> USE <1>2, <1>3, FrameProperties
<1>4. PipeInv'
  BY <1>1, IncProperties DEF Typed, PipeInv, RxInform, LineInform, SnrmFirst, SnrmAhead,
                              Deaf, Current, Old
<1>5. SyncInv'
  BY <1>1, IncProperties DEF Typed, SyncInv, RxInform, LineInform, SnrmFirst, Expected,
                              Sending, Deaf, Old, Ready
<1>6. AnswerInv'
  BY <1>1, IncProperties DEF Typed, AnswerInv, SnrmFirst, Deaf
<1>7. AcceptedInv'
  BY <1>1, IncProperties DEF Typed, AcceptedInv, Ready, IsPart
<1>8. OrderInv'
  BY <1>1, IncProperties DEF Typed, OrderInv, Made, Begun
<1>9. QED
  BY <1>4, <1>5, <1>6, <1>7, <1>8 DEF LinkInv

\* What it means that the client gives up: a request in progress is gone.
LEMMA AbandonFacts ==
  ASSUME IndInv, Abandon, client \in {"up", "disconnecting"}
  PROVE  /\ client' = "down" /\ last' = None /\ part' = 1 /\ UNCHANGED <<vs, vr>>
         /\ abandoned' \in {abandoned, abandoned \union {request}}
         /\ \A r \in abandoned' : r < request'
         /\ ~Begun' /\ (Begun => client = "up" /\ request \in abandoned')
         /\ Made' = Made
<1>1. Typed /\ ClientInv
  BY TypedFacts DEF IndInv
<1>2. client' = "down" /\ last' = None /\ part' = 1 /\ UNCHANGED <<vs, vr>>
  BY DEF Abandon
<1>3. \/ Begun /\ abandoned' = abandoned \union {request} /\ request' = request + 1
      \/ ~Begun /\ abandoned' = abandoned /\ request' = request
  BY DEF Abandon, Begun
<1>4. ~Begun' /\ (Begun => client = "up" /\ request \in abandoned')
  BY <1>1, <1>2, <1>3, FrameProperties DEF Begun, ClientInv
<1>5. \A r \in abandoned' : r < request'
  <2> SUFFICES ASSUME NEW r \in abandoned' PROVE r < request'
    OBVIOUS
  <2>1. request \in Nat /\ abandoned \subseteq Nat /\ \A q \in abandoned : q < request
    BY <1>1 DEF ClientInv, Typed
  <2>2. \/ r = request /\ request' = request + 1
        \/ r \in abandoned /\ request' \in {request, request + 1}
    BY <1>3
  <2>3. r \in Nat /\ (r = request \/ r < request)
    BY <2>1, <2>2
  <2>4. QED
    BY <2>1, <2>2, <2>3
<1>6. Made' = Made
  BY <1>1, <1>3, <1>4 DEF Made, Typed
<1>7. QED
  BY <1>2, <1>3, <1>4, <1>5, <1>6

\* The copies of its last frame that are still under way are of a request that is gone.
LEMMA AbandonKeeps ==
  ASSUME IndInv, ~mixed, Abandon, client \in {"up", "disconnecting"}, UNCHANGED <<meter, toMeter>>,
         toClient' \in {toClient, None}
  PROVE  LinkInv'
<1>1. Typed
  BY TypedFacts DEF IndInv
<1>2. ClientInv /\ PipeInv /\ SyncInv /\ AnswerInv /\ AcceptedInv /\ OrderInv
  BY DEF IndInv, LinkInv
<1>3. /\ client \in {"up", "disconnecting"} /\ client' = "down" /\ last' = None /\ part' = 1
      /\ UNCHANGED <<meter, toMeter, vs, vr>>
      /\ abandoned \subseteq abandoned' /\ \A r \in abandoned' : r < request'
      /\ ~Begun' /\ (Begun => client = "up" /\ request \in abandoned') /\ Made' = Made
  BY AbandonFacts
<1>4. ASSUME NEW r, NEW p, Ready(r, p)
      PROVE  Ready(r, p)'
  BY <1>3, <1>4, CollectedKept DEF Ready, meter
<1> USE <1>2, <1>3, FrameProperties DEF link, meter, buffer, Pending, numbers
<1>5. PipeInv'
  BY <1>1, IncProperties DEF Typed, PipeInv, ClientInv, Current, IsPart, Old, RxInform, LineInform,
                             SnrmFirst, SnrmAhead, Deaf, Begun
<1>6. SyncInv'
  BY <1>4 DEF SyncInv, RxInform, LineInform, SnrmFirst, Expected, Sending, Deaf, Old
<1>7. AnswerInv'
  BY DEF AnswerInv
<1>8. AcceptedInv'
  <2>1. CASE accepted /\ client = "up" /\ rx = last
    <3>1. /\ IsPart(rx) /\ Ready(rx.body.req, rx.body.part) /\ rx.body.req = request /\ Begun
          /\ ns = next_ns
      BY <2>1 DEF AcceptedInv, IsPart, ClientInv, Begun
    <3>2. QED
      BY <1>4, <2>1, <3>1 DEF AcceptedInv, IsPart
  <2>2. CASE ~(accepted /\ client = "up" /\ rx = last)
    BY <1>4, <2>2 DEF AcceptedInv, IsPart
  <2>3. QED
    BY <2>1, <2>2
<1>9. OrderInv'
  BY DEF OrderInv
<1>10. QED
  BY <1>5, <1>6, <1>7, <1>8, <1>9 DEF LinkInv

\* A client gives up.
LEMMA ClientGivesUpKeeps ==
  ASSUME IndInv, ~mixed, ClientGivesUp
  PROVE  LinkInv'
BY AbandonKeeps DEF ClientGivesUp, line

\* A client learns from an answer what AnswerInv says.
LEMMA ClientReceivesKeeps ==
  ASSUME IndInv, ~mixed, ClientReceives
  PROVE  LinkInv'
<1>1. Typed
  BY TypedFacts DEF IndInv
<1>2. LinkInv /\ ClientInv
  BY DEF IndInv
<1>3. toClient # None /\ toClient' = None /\ UNCHANGED <<meter, toMeter>>
  BY DEF ClientReceives
<1>4. UNCHANGED <<next_nr, next_ns, ns, disconnected, plcConfigured, seggy, rx, Pending,
                  accepted, executed, toMeter,
                  RxInform, LineInform, SnrmFirst, SnrmAhead, Expected, Sending, Deaf>>
  BY <1>3 DEF meter, buffer, Pending, link, numbers, RxInform, LineInform, SnrmFirst, SnrmAhead, Expected,
              Sending, Deaf
<1> USE <1>1, <1>2, <1>3, <1>4, FrameProperties, IncProperties DEF Typed, LinkInv
<1>5. CASE Opened /\ client' = "up" /\ last' = None /\ vs' = 0 /\ vr' = 0 /\ part' = 1
           /\ joined' = FALSE /\ UNCHANGED <<request, abandoned>>
  <2>1. /\ last.type = "SNRM" /\ last = SNRM /\ part = 1
        /\ client = "connecting" /\ toClient.type = "UA"
    BY <1>5 DEF Opened, ClientInv
  <2>2. ~Begun /\ ~Begun' /\ Made' = Made
    BY <1>5, <2>1 DEF Begun, Made
  <2>3. Ready(request, 1)'
    BY <1>5, <2>2, FirstReady DEF Ready
  <2>4. /\ ~accepted /\ (Pending => rx.type = "SNRM")
        /\ disconnected \/ (next_nr = 0 /\ ns = 0)
        /\ toMeter = None \/ toMeter = SNRM
    BY <2>1 DEF AnswerInv, PipeInv
  <2>5. ~RxInform /\ ~LineInform
    BY <2>4 DEF RxInform, LineInform
  <2>6. PipeInv'
    BY <1>5, <2>4, <2>5 DEF PipeInv
  <2>7. SyncInv'
    BY <1>5, <2>3, <2>4, <2>5 DEF SyncInv, Expected, Sending, Deaf
  <2>8. AnswerInv'
    BY DEF AnswerInv
  <2>9. AcceptedInv'
    BY <2>4 DEF AcceptedInv
  <2>10. OrderInv'
    BY <1>5, <2>2 DEF OrderInv
  <2>11. QED
    BY <2>6, <2>7, <2>8, <2>9, <2>10 DEF LinkInv
<1>6. CASE Taken /\ vs' = Inc(vs) /\ part' = part + 1 /\ last' = None
           /\ UNCHANGED <<client, vr, request, joined, abandoned>>
  <2>1. /\ client = "up" /\ last.type = "I" /\ last.segmented
        /\ toClient.type = "RR" /\ toClient.nr = Inc(vs)
        /\ IsPart(last) /\ last.body.req = request /\ last.body.part = part
    BY <1>6 DEF Taken, ClientInv
  <2>2. ~accepted /\ ~SnrmAhead /\ (~Deaf => next_nr = Inc(vs) /\ ~SnrmFirst)
    BY <2>1 DEF AnswerInv, PipeInv
  <2>3. Begun /\ Begun' /\ Made' = Made
    BY <1>6, <2>1 DEF Begun, Made
  <2>4. request \in Requests /\ part + 1 <= Parts[request] /\ Parts[request] \in Nat
    <3>1. request \in Requests /\ part < Parts[request]
      BY <2>1 DEF IsPart
    <3>2. QED
      BY <3>1, PartsCounts
  <2>5. ~Deaf => /\ Expected = Inc(vs) /\ ns = vr /\ Sending = ns /\ Ready(request, part + 1)
                 /\ (RxInform => rx.ns = vs) /\ (LineInform => toMeter.ns = vs)
    BY <2>1, <2>2 DEF SyncInv, Expected, Sending, PipeInv, Current
  <2>6. Ready(request, part + 1) => Ready(request, part)'
    BY <1>6 DEF Ready
  <2>7. PipeInv'
    BY <1>6, <2>1, <2>2, <2>5 DEF PipeInv, Old, SnrmAhead
  <2>8. SyncInv'
    BY <1>6, <2>2, <2>5, <2>6 DEF SyncInv, Old
  <2>9. AnswerInv'
    BY DEF AnswerInv
  <2>10. AcceptedInv'
    BY <2>2 DEF AcceptedInv
  <2>11. OrderInv'
    BY <1>6, <2>3 DEF OrderInv
  <2>12. QED
    BY <2>7, <2>8, <2>9, <2>10, <2>11 DEF LinkInv
<1>7. CASE Answered /\ vs' = Inc(vs) /\ vr' = Inc(vr) /\ last' = None
           /\ request' = request + 1 /\ part' = 1 /\ joined' = TRUE
           /\ UNCHANGED <<client, abandoned>>
  <2>1. /\ client = "up" /\ last.type = "I" /\ toClient.type = "I"
        /\ IsPart(last) /\ last.body.req = request
    BY <1>7 DEF Answered, ClientInv
  <2>2. ~accepted /\ ~SnrmAhead /\ next_nr = Inc(vs) /\ ns = Inc(vr) /\ ~SnrmFirst /\ seggy = <<>>
    BY <2>1 DEF AnswerInv, PipeInv
  <2>3. Begun /\ ~Begun' /\ Made' = Made
    BY <1>7, <2>1 DEF Begun, Made
  <2>4. ~Deaf => /\ Expected = Inc(vs) /\ Sending = ns
                 /\ (RxInform => rx.ns = vs) /\ (LineInform => toMeter.ns = vs)
    BY <2>1, <2>2 DEF SyncInv, Expected, Sending, PipeInv, Current
  <2>5. OrderInv'
    BY <1>7, <2>3, <2>2 DEF OrderInv
  <2>6. Ready(request, part)'
    <3>1. Collected(seggy, abandoned, request + 1, 1)
      <4>1. Len(seggy) = 0
        BY <2>2
      <4>2. QED
        BY <4>1 DEF Collected
    <3>2. Newest(executed) < request + 1
      BY <2>3 DEF OrderInv, Made
    <3>3. QED
      BY <1>7, <3>1, <3>2 DEF Ready
  <2>7. PipeInv'
    BY <1>7, <2>1, <2>2, <2>4 DEF PipeInv, Old, SnrmAhead
  <2>8. SyncInv'
    BY <1>7, <2>2, <2>4, <2>6 DEF SyncInv, Old
  <2>9. AnswerInv'
    BY DEF AnswerInv
  <2>10. AcceptedInv'
    BY <2>2 DEF AcceptedInv
  <2>11. QED
    BY <2>7, <2>8, <2>9, <2>10, <2>5 DEF LinkInv
<1>8. CASE Polled /\ last' = None /\ UNCHANGED <<client, vs, vr, request, part, joined, abandoned>>
  <2>1. client = "up" /\ last.type = "RR" /\ toClient.type = "RR" /\ ~SnrmAhead
    BY <1>8 DEF Polled, PipeInv
  <2>2. UNCHANGED <<Begun, Made>>
    BY <1>8, <2>1 DEF Begun, Made
  <2>3. \A r, p : Ready(r, p)' = Ready(r, p)
    BY <1>8 DEF Ready
  <2>4. PipeInv'
    BY <1>8, <2>1 DEF PipeInv, Old, Current, IsPart
  <2>5. SyncInv'
    BY <1>8, <2>1, <2>3 DEF SyncInv, Old
  <2>6. AnswerInv'
    BY DEF AnswerInv
  <2>7. AcceptedInv'
    BY <1>8, <2>1, <2>3 DEF AcceptedInv, IsPart
  <2>8. OrderInv'
    BY <1>8, <2>2 DEF OrderInv
  <2>9. QED
    BY <2>4, <2>5, <2>6, <2>7, <2>8 DEF LinkInv
<1>9. CASE Closed /\ Abandon
  BY <1>3, <1>9, AbandonKeeps DEF Closed
<1>10. CASE UNCHANGED station
  <2>1. UNCHANGED <<client, vs, vr, request, part, last, joined, abandoned>>
    BY <1>10 DEF station
  <2>2. UNCHANGED <<Begun, Made>> /\ \A r, p : Ready(r, p)' = Ready(r, p)
    BY <2>1 DEF Begun, Made, Ready
  <2>3. PipeInv'
    BY <2>1 DEF PipeInv, Old, Current
  <2>4. SyncInv'
    BY <2>1, <2>2 DEF SyncInv, Old
  <2>5. AnswerInv'
    BY DEF AnswerInv
  <2>6. AcceptedInv'
    BY <2>1, <2>2 DEF AcceptedInv
  <2>7. OrderInv'
    BY <2>1, <2>2 DEF OrderInv
  <2>8. QED
    BY <2>3, <2>4, <2>5, <2>6, <2>7 DEF LinkInv
<1>11. QED
  BY <1>5, <1>6, <1>7, <1>8, <1>9, <1>10 DEF ClientReceives

\* A frame is lost, or what waits is none for the meter.
LEMMA LossKeeps ==
  ASSUME IndInv, ~mixed, toMeter' \in {None, toMeter}, toClient' \in {None, toClient},
         \/ UNCHANGED <<rx, Pending>>
         \/ ~Pending' /\ ~SnrmFirst /\ ~accepted,
         UNCHANGED <<next_nr, next_ns, ns, disconnected, seggy, accepted, executed, client, vs, vr,
                     request, part, last, abandoned>>
  PROVE  LinkInv'
<1>1. Typed
  BY TypedFacts DEF IndInv
<1>2. ClientInv /\ PipeInv /\ SyncInv /\ AnswerInv /\ AcceptedInv /\ OrderInv
  BY DEF IndInv, LinkInv
<1> USE <1>2, FrameProperties
<1>3. PipeInv'
  BY <1>1, IncProperties DEF Typed, PipeInv, RxInform, LineInform, SnrmFirst, SnrmAhead,
                              Deaf, Current, Old
<1>4. SyncInv'
  BY <1>1, IncProperties DEF Typed, SyncInv, RxInform, LineInform, SnrmFirst, Expected,
                              Sending, Deaf, Old, Ready
<1>5. AnswerInv'
  BY <1>1, IncProperties DEF Typed, AnswerInv, SnrmFirst, Deaf
<1>6. AcceptedInv'
  BY <1>1, IncProperties DEF Typed, AcceptedInv, Ready
<1>7. OrderInv'
  BY <1>1, IncProperties DEF Typed, OrderInv, Made, Begun
<1>8. QED
  BY <1>3, <1>4, <1>5, <1>6, <1>7 DEF LinkInv

\* The line loses a frame, ...
LEMMA LoseKeeps ==
  ASSUME IndInv, ~mixed, Lose
  PROVE  LinkInv'
<1>1. /\ toMeter' \in {None, toMeter} /\ toClient' \in {None, toClient}
      /\ UNCHANGED <<rx, Pending>>
      /\ UNCHANGED <<next_nr, next_ns, ns, disconnected, seggy, accepted, executed, client, vs, vr,
                     request, part, last, abandoned>>
  BY DEF Lose, station, Pending, link, numbers
<1>2. QED
  BY <1>1, LossKeeps

\* ... or damages it after its bytes have begun to come in, ...
LEMMA DamagedHeaderKeeps ==
  ASSUME IndInv, ~mixed, DamagedHeader
  PROVE  LinkInv'
<1>1. torn /\ UNCHANGED torn /\ ~accepted
  BY DEF DamagedHeader, IndInv, BufferInv
<1>2. /\ toMeter' \in {None, toMeter} /\ toClient' \in {None, toClient}
      /\ ~Pending' /\ ~SnrmFirst /\ ~accepted
      /\ UNCHANGED <<next_nr, next_ns, ns, disconnected, seggy, accepted, executed, client, vs, vr,
                     request, part, last, abandoned>>
  BY <1>1 DEF DamagedHeader, station, Pending, SnrmFirst, link, numbers
<1>3. QED
  BY <1>2, LossKeeps

\* ... or the main program drops it.
LEMMA ReceiveNothingKeeps ==
  ASSUME IndInv, ~mixed', ReceiveNothing
  PROVE  LinkInv'
<1>1. ~mixed /\ ~torn
  BY DEF IndInv, TypeInv, TypeOK, ReceiveNothing, Received
<1>2. /\ toMeter' \in {None, toMeter} /\ toClient' \in {None, toClient}
      /\ ~Pending' /\ ~SnrmFirst /\ ~accepted
      /\ UNCHANGED <<next_nr, next_ns, ns, disconnected, seggy, accepted, executed, client, vs, vr,
                     request, part, last, abandoned>>
  BY DEF ReceiveNothing, Received, station, Pending, SnrmFirst, link, numbers
<1>3. QED
  BY <1>1, <1>2, LossKeeps

\* A byte comes in: what has been in the buffer counts as lost.
LEMMA ByteKeeps ==
  ASSUME IndInv, ~mixed', NEW before, NEW after, NEW frame, Byte(before, after, frame)
  PROVE  LinkInv'
<1>1. Typed
  BY TypedFacts DEF IndInv
<1>2. ~mixed /\ ~accepted
  BY DEF Byte, IndInv, TypeInv, TypeOK
<1>3. ClientInv /\ PipeInv /\ SyncInv /\ AnswerInv /\ AcceptedInv /\ OrderInv
  BY <1>2 DEF IndInv, LinkInv
<1>4. /\ toMeter # None /\ ~Pending'
      /\ UNCHANGED <<next_nr, next_ns, ns, disconnected, seggy, accepted, executed,
                     toMeter, toClient, client, vs, vr, request, part, last, abandoned>>
  BY DEF Byte, Pending, link, numbers, line, station
<1>5. ~SnrmFirst' /\ ~RxInform' /\ LineInform' = LineInform
  BY <1>4 DEF SnrmFirst, RxInform, LineInform
<1> USE <1>3, <1>4, FrameProperties
<1>6. PipeInv'
  BY <1>1, <1>5, IncProperties DEF Typed, PipeInv, SnrmFirst, SnrmAhead, Deaf, Current, Old
<1>7. SyncInv'
  BY <1>1, <1>5, IncProperties DEF Typed, SyncInv, PipeInv, SnrmAhead, SnrmFirst, Expected,
                                   Sending, Deaf, Old, Ready, LineInform
<1>8. AnswerInv'
  BY <1>1, <1>5, IncProperties DEF Typed, AnswerInv, SnrmFirst, Deaf
<1>9. AcceptedInv'
  BY <1>2 DEF AcceptedInv
<1>10. OrderInv'
  BY <1>1, IncProperties DEF Typed, OrderInv, Made, Begun
<1>11. QED
  BY <1>6, <1>7, <1>8, <1>9, <1>10 DEF LinkInv

\* A frame has come in.
LEMMA FrameEndsKeeps ==
  ASSUME IndInv, ~mixed, FrameEnds
  PROVE  LinkInv'
<1>1. Typed
  BY TypedFacts DEF IndInv
<1>2. ClientInv /\ PipeInv /\ SyncInv /\ AnswerInv /\ AcceptedInv /\ OrderInv
  BY DEF IndInv, LinkInv
<1>3. ~Pending /\ ~accepted /\ rx = toMeter /\ Pending'
  BY DEF FrameEnds, IndInv, BufferInv, Pending
<1>4. /\ toMeter # None /\ rx' = toMeter /\ toMeter' = None
      /\ UNCHANGED <<next_nr, next_ns, ns, disconnected, seggy, accepted, executed,
                      toClient, client, vs, vr, request, part, last, abandoned>>
  BY <1>3 DEF FrameEnds, link, numbers, station
<1> USE <1>2, <1>3, <1>4, FrameProperties
<1>5. PipeInv'
  BY <1>1, IncProperties DEF Typed, PipeInv, RxInform, LineInform, SnrmFirst, SnrmAhead,
                              Deaf, Current, Old
<1>6. SyncInv'
  <2>1. RxInform' = LineInform /\ LineInform' = FALSE /\ ~RxInform /\ ~SnrmFirst
    BY DEF RxInform, LineInform, SnrmFirst
  <2>2. CASE toMeter.type = "SNRM"
    <3>1. client = "up" => Ready(request, part)'
      <4> SUFFICES ASSUME client = "up" PROVE Ready(request, part)'
        OBVIOUS
      <4>1. part = 1 /\ ~Begun
        BY <2>2 DEF PipeInv, Begun
      <4>2. QED
        BY <1>1, <4>1, FirstReady DEF Ready
    <3>2. QED
      BY <2>1, <2>2, <3>1
         DEF SyncInv, PipeInv, SnrmAhead, SnrmFirst, Expected, Sending, Deaf, LineInform
  <2>3. CASE toMeter.type # "SNRM"
    BY <2>1, <2>3 DEF SyncInv, SnrmFirst, Expected, Sending, Deaf, Ready, Old, LineInform
  <2>4. QED
    BY <2>2, <2>3
<1>7. AnswerInv'
  BY <1>1, IncProperties DEF Typed, AnswerInv, SnrmFirst, Deaf, PipeInv, SnrmAhead
<1>8. AcceptedInv'
  BY DEF AcceptedInv
<1>9. OrderInv'
  BY <1>1, IncProperties DEF Typed, OrderInv, Made, Begun
<1>10. QED
  BY <1>5, <1>6, <1>7, <1>8, <1>9 DEF LinkInv

\* The timer makes the meter deaf.
LEMMA iec62056_46_link_idle_timeoutKeeps ==
  ASSUME IndInv, ~mixed, iec62056_46_link_idle_timeout
  PROVE  LinkInv'
<1>1. Typed
  BY TypedFacts DEF IndInv
<1>2. ClientInv /\ PipeInv /\ SyncInv /\ AnswerInv /\ AcceptedInv /\ OrderInv
  BY DEF IndInv, LinkInv
<1>3. /\ toMeter = None /\ disconnected'
      /\ UNCHANGED <<next_nr, next_ns, ns, seggy, rx, Pending, accepted, executed,
                      toMeter, toClient, client, vs, vr, request, part, last, abandoned>>
  BY DEF iec62056_46_link_idle_timeout, station, line, buffer, Pending, numbers
<1> USE <1>2, <1>3, FrameProperties
<1>4. PipeInv'
  BY <1>1, IncProperties DEF Typed, PipeInv, RxInform, LineInform, SnrmFirst, SnrmAhead,
                              Deaf, Current, Old
<1>5. SyncInv'
  BY <1>1, IncProperties DEF Typed, SyncInv, RxInform, LineInform, SnrmFirst, Expected,
                              Sending, Deaf, Old, Ready
<1>6. AnswerInv'
  BY <1>1, IncProperties DEF Typed, AnswerInv, SnrmFirst, Deaf
<1>7. AcceptedInv'
  BY <1>1, IncProperties DEF Typed, AcceptedInv, Ready
<1>8. OrderInv'
  BY <1>1, IncProperties DEF Typed, OrderInv, Made, Begun
<1>9. QED
  BY <1>4, <1>5, <1>6, <1>7, <1>8 DEF LinkInv

\* The meter accepts a frame only when it is the one that the client sent last.
LEMMA ReceiveIKeeps ==
  ASSUME IndInv, ~mixed', ReceiveI
  PROVE  LinkInv'
<1>1. Typed
  BY TypedFacts DEF IndInv
<1>2. ~mixed /\ ~torn /\ ClientInv /\ PipeInv /\ SyncInv /\ AnswerInv /\ AcceptedInv /\ OrderInv
  BY DEF IndInv, LinkInv, TypeInv, TypeOK, ReceiveI, Received
<1>3. /\ Pending /\ ~accepted /\ rx.type = "I" /\ ~Pending'
      /\ \/ ~accepted' /\ next_nr' = next_nr /\ toClient' \in {toClient, DM, FRMR, RR(next_nr)}
         \/ /\ accepted' /\ toClient' = toClient /\ ~disconnected
            /\ rx.nr \in {next_ns, ns} /\ next_ns' = rx.nr
            /\ rx.ns = next_nr /\ next_nr' = Inc(next_nr)
      /\ toMeter' \in {None, toMeter}
      /\ UNCHANGED <<ns, disconnected, seggy, rx, executed, client, vs, vr,
                      request, part, last, abandoned>>
  BY DEF ReceiveI, Received, Pending, Answer, Acknowledges, InSequence, station, numbers
<1> USE <1>2, <1>3, FrameProperties
<1>4. PipeInv'
  BY <1>1, IncProperties DEF Typed, PipeInv, RxInform, LineInform, SnrmFirst, SnrmAhead,
                              Deaf, Current, Old
<1>5. SyncInv'
  <2>1. /\ ~SnrmFirst /\ ~SnrmFirst' /\ RxInform /\ ~RxInform' /\ (LineInform' => LineInform)
        /\ (toMeter' = toMeter \/ ~LineInform') /\ Deaf' = Deaf
        /\ Expected' = next_nr' /\ Sending' = ns
    BY DEF SnrmFirst, RxInform, LineInform, Deaf, Expected, Sending
  <2>2. CASE accepted'
    <3>1. ~Deaf /\ Expected = next_nr /\ Sending = ns
      BY <2>1, <2>2 DEF Deaf, Expected, Sending
    <3>2. Current(rx) \/ Old(rx)
      BY <2>1, <3>1 DEF PipeInv
    <3>3. Expected = vs /\ Sending = vr /\ Current(rx) /\ Ready(rx.body.req, rx.body.part)
      BY <1>1, <2>1, <2>2, <3>1, <3>2, IncProperties DEF SyncInv, Current, Old, Typed
    <3>4. next_nr' = Inc(vs) /\ Expected' = Inc(vs) /\ ns = vr
      BY <2>1, <2>2, <3>1, <3>3
    <3>5. LineInform' => ~Old(toMeter)'
      BY <1>1, <2>1, <2>2, <3>1, <3>3, IncProperties
         DEF PipeInv, SyncInv, Current, Old, Typed, LineInform
    <3>6. client = "up" => last.type = "I"
      BY <3>3 DEF Current, IsPart
    <3>7. QED
      BY <2>1, <2>2, <3>4, <3>5, <3>6 DEF SyncInv
  <2>3. CASE ~accepted'
    <3>1. Expected' = Expected /\ Sending' = Sending /\ ~accepted /\ ~accepted'
      BY <2>1, <2>3 DEF Expected, Sending
    <3>2. \A r, p : Ready(r, p)' = Ready(r, p)
      BY DEF Ready
    <3>3. LineInform' => LineInform /\ toMeter' = toMeter /\ Old(toMeter)' = Old(toMeter)
      BY <2>1 DEF Old
    <3>4. QED
      BY <2>1, <2>3, <3>1, <3>2, <3>3 DEF SyncInv
  <2>4. QED
    BY <2>2, <2>3
<1>6. AnswerInv'
  BY <1>1, IncProperties DEF Typed, AnswerInv, SnrmFirst, Deaf, SyncInv, RxInform,
                              Expected, Sending, PipeInv, SnrmAhead, Current, Old
<1>7. AcceptedInv'
  <2>1. CASE accepted'
    <3>1. ~SnrmFirst /\ ~Deaf /\ RxInform /\ Expected = next_nr /\ Sending = ns
      BY <2>1 DEF SnrmFirst, Deaf, RxInform, Expected, Sending
    <3>2. Current(rx) \/ Old(rx)
      BY <3>1 DEF PipeInv
    <3>3. Expected = vs /\ Sending = vr /\ Current(rx) /\ Ready(rx.body.req, rx.body.part)
      BY <1>1, <2>1, <3>1, <3>2, IncProperties DEF SyncInv, Current, Old, Typed
    <3>4. QED
      BY <2>1, <3>1, <3>3 DEF AcceptedInv, Current, Ready
  <2>2. CASE ~accepted'
    BY <2>2 DEF AcceptedInv
  <2>3. QED
    BY <2>1, <2>2
<1>8. OrderInv'
  BY <1>1, IncProperties DEF Typed, OrderInv, Made, Begun
<1>9. QED
  BY <1>4, <1>5, <1>6, <1>7, <1>8 DEF LinkInv

\* What is in the buffer of segments is of a request that was made.
Belongs(b) == b.req \in abandoned \union {0} \/ (Begun /\ b.req = request)

\* So its request is not later than the one made last.
LEMMA BelongsMade ==
  ASSUME Typed, ClientInv, NEW b \in Pieces, Belongs(b)
  PROVE  b.req <= Made
<1>1. b.req \in abandoned \/ b.req = 0 \/ (Begun /\ b.req = request)
  BY DEF Belongs
<1>2. b.req \in abandoned => b.req \in Nat /\ b.req < request
  BY DEF Typed, ClientInv
<1>3. request \in Nat \ {0} /\ Made = IF Begun THEN request ELSE request - 1
  BY DEF Typed, Made
<1>4. QED
  BY <1>1, <1>2, <1>3

\* An accepted frame is what the client sent last, or the client has given up.
LEMMA AcceptedFrame ==
  ASSUME IndInv, ~mixed, accepted
  PROVE  /\ rx.body \in Pieces /\ Belongs(rx.body) /\ Bodies = {rx.body}
         /\ client # "disconnecting" /\ (client # "connecting" => ~SnrmAhead)
         /\ IsPart(rx) /\ Ready(rx.body.req, rx.body.part)
         /\ client = "up" => /\ rx = last /\ rx.body.req = request /\ rx.body.part = part
                             /\ next_nr = Inc(vs) /\ ns = vr /\ last.type = "I"
<1>1. rx.body \in Pieces /\ abandoned \subseteq Nat
  BY TypedFacts DEF IndInv, TypeInv, TypeOK, Frames, Typed
<1>2. ClientInv /\ PipeInv /\ AcceptedInv
  BY DEF IndInv, LinkInv
<1>3. client # "disconnecting" /\ (client # "connecting" => ~SnrmAhead)
  BY <1>2 DEF PipeInv, AcceptedInv
<1>4. Bodies = {rx.body}
  BY DEF IndInv, BufferInv, Bodies
<1>5. IsPart(rx) /\ Ready(rx.body.req, rx.body.part)
  BY <1>2 DEF AcceptedInv
<1>6. CASE client = "up" /\ rx = last /\ next_nr = Inc(vs) /\ ns = vr
  <2>1. rx.body.req = request /\ rx.body.part = part /\ Begun /\ last.type = "I"
    BY <1>2, <1>5, <1>6, FrameProperties DEF ClientInv, IsPart, Begun
  <2>2. QED
    BY <1>1, <1>3, <1>4, <1>5, <1>6, <2>1 DEF Belongs
<1>7. CASE client \in {"down", "connecting"} /\ rx.body.req \in abandoned
  BY <1>1, <1>3, <1>4, <1>5, <1>7 DEF Belongs
<1>8. QED
  BY <1>2, <1>6, <1>7 DEF AcceptedInv

\* A segment is kept, unless the buffer is full.
LEMMA SegmentKept ==
  ASSUME IndInv, ~mixed, accepted, Segment(rx.body)
  PROVE  /\ Collected(seggy', abandoned, rx.body.req, rx.body.part + 1)
         /\ \A i \in 1 .. Len(seggy') : Belongs(seggy'[i])
         /\ Head(seggy').req = 0 \/ Newest(executed) < Head(seggy').req
<1>1. seggy \in Seq(Pieces) /\ Len(seggy) \in Nat /\ Typed
  BY TypedFacts DEF IndInv, TypeInv, TypeOK, Typed
<1>2. OrderInv
  BY DEF IndInv, LinkInv
<1>3. /\ rx.body \in Pieces /\ Belongs(rx.body)
      /\ rx.body.whole
      /\ Ready(rx.body.req, rx.body.part) /\ Newest(executed) < rx.body.req
  BY AcceptedFrame DEF Ready, IsPart
<1>4. CASE Fits
  <2>1. seggy' = Append(seggy, rx.body) /\ Len(seggy) < MAX_SEGGY_LEN
    BY <1>4 DEF Segment, Fits
  <2>2. Collected(seggy', abandoned, rx.body.req, rx.body.part + 1)
    BY <1>1, <1>3, <2>1, CollectedMore DEF Ready
  <2>3. /\ Len(seggy') = Len(seggy) + 1 /\ seggy'[Len(seggy) + 1] = rx.body
        /\ \A i \in 1 .. Len(seggy) : seggy'[i] = seggy[i]
    BY <1>1, <1>3, <2>1, AppendTypes
  <2>4. ASSUME NEW i \in 1 .. Len(seggy') PROVE Belongs(seggy'[i])
    <3>1. i \in 1 .. Len(seggy) \/ i = Len(seggy) + 1
      BY <1>1, <2>3
    <3>2. QED
      BY <1>2, <1>3, <2>3, <3>1 DEF OrderInv, Belongs
  <2>5. Head(seggy') = seggy'[1]
    OBVIOUS
  <2>6. CASE seggy = <<>>
    BY <1>3, <2>3, <2>5, <2>6, <2>2, <2>4
  <2>7. CASE seggy # <<>>
    <3>1. 1 \in 1 .. Len(seggy) /\ Head(seggy) = seggy[1]
      BY <1>1, <2>7
    <3>2. Head(seggy') = Head(seggy)
      BY <2>3, <2>5, <3>1
    <3>3. QED
      BY <1>2, <2>2, <2>4, <2>7, <3>2 DEF OrderInv
  <2>8. QED
    BY <2>6, <2>7
<1>5. CASE ~Fits
  <2>1. seggy' = [i \in 1 .. MAX_SEGGY_LEN + 1 |-> Parameters] /\ MAX_SEGGY_LEN \in Nat
    BY <1>5, HdlcAssumption DEF Segment
  <2>2. seggy' \in Seq(Pieces) /\ Len(seggy') = MAX_SEGGY_LEN + 1
    BY <2>1, FrameProperties
  <2>3. \A i \in 1 .. Len(seggy') : seggy'[i] = Parameters
    BY <2>1, <2>2
  <2>4. Head(seggy') = Parameters
    BY <2>1, <2>2, <2>3
  <2>5. Collected(seggy', abandoned, rx.body.req, rx.body.part + 1)
    BY <2>1, <2>2 DEF Collected
  <2>6. QED
    BY <2>3, <2>4, <2>5, FrameProperties DEF Belongs
<1>6. QED
  BY <1>4, <1>5

\* The body that is executed: it is of a request later than the one executed last.
LEMMA ExecutedBody ==
  ASSUME IndInv, ~mixed, accepted, FinalSegment(rx.body), executed' # executed
  PROVE  LET body == Append(seggy, rx.body)
         IN  /\ executed' = Append(executed, body) /\ (seggy = <<>> \/ Fits)
             /\ Head(body) \in Pieces /\ Newest(executed) < Head(body).req
             /\ Head(body).req <= Made /\ Newest(executed') = Head(body).req
<1> DEFINE body == Append(seggy, rx.body)
<1>1. /\ seggy \in Seq(Pieces) /\ Len(seggy) \in Nat /\ executed \in Seq(Seq(Pieces))
      /\ Typed /\ ClientInv /\ OrderInv
  BY TypedFacts DEF IndInv, TypeInv, TypeOK, Typed, LinkInv
<1>2. /\ rx.body \in Pieces /\ Belongs(rx.body)
      /\ Newest(executed) < rx.body.req
  BY AcceptedFrame DEF Ready
<1>3. executed' = Append(executed, body) /\ Head(body).req # 0 /\ (seggy = <<>> \/ Fits)
  BY DEF FinalSegment, process_i_body, Record
<1>4. /\ body \in Seq(Pieces) /\ Len(body) = Len(seggy) + 1 /\ body[Len(seggy) + 1] = rx.body
      /\ \A i \in 1 .. Len(seggy) : body[i] = seggy[i]
  BY <1>1, <1>2, AppendTypes
<1> HIDE DEF body
<1>5. /\ executed' # <<>> /\ Len(executed') = Len(executed) + 1
      /\ executed'[Len(executed) + 1] = body
  <2>1. executed \in Seq(Seq(Pieces)) /\ body \in Seq(Pieces)
    BY <1>1, <1>4, Zenon
  <2>2. /\ Append(executed, body) # <<>> /\ Len(Append(executed, body)) = Len(executed) + 1
        /\ Append(executed, body)[Len(executed) + 1] = body
    BY <2>1, AppendTypes
  <2>3. QED
    BY <1>3, <2>2, Zenon
<1>6. Newest(executed') = Head(body).req
  BY <1>5 DEF Newest
<1>7. Head(body) \in Pieces /\ Belongs(Head(body)) /\ Newest(executed) < Head(body).req
  <2>1. CASE seggy = <<>>
    <3>1. Head(body) = rx.body
      BY <1>4, <2>1
    <3>2. QED
      BY <1>2, <1>3, <3>1
  <2>2. CASE seggy # <<>>
    <3>1. 1 \in 1 .. Len(seggy) /\ Head(seggy) = seggy[1] /\ Head(seggy) \in Pieces
      BY <1>1, <2>2
    <3>2. Head(body) = Head(seggy)
      BY <1>4, <3>1
    <3>3. QED
      BY <1>1, <1>3, <2>2, <3>1, <3>2 DEF OrderInv, Belongs
  <2>3. QED
    BY <2>1, <2>2
<1>8. Head(body).req <= Made
  BY <1>1, <1>7, BelongsMade
<1>9. QED
  BY <1>3, <1>6, <1>7, <1>8 DEF body

\* The answer to a request carries the next number.
LEMMA FinalAnswer ==
  ASSUME NEW piece, FinalSegment(piece)
  PROVE  /\ seggy' = <<>>
         /\ \/ UNCHANGED <<ns, toClient>>
            \/ ns' = Inc(ns) /\ toClient'.type = "I"
<1>1. \/ UNCHANGED <<ns, toClient>>
      \/ ns' = Inc(ns) /\ toClient' = I(ns, next_nr, FALSE, Parameters)
  BY DEF FinalSegment, process_i_body, Respond, Answer
<1>2. I(ns, next_nr, FALSE, Parameters).type = "I"
  BY DEF I
<1>3. QED
  BY <1>1, <1>2 DEF FinalSegment

\* The body is read: the meter is ready for the next part, or has answered.
LEMMA ReadBodyKeeps ==
  ASSUME IndInv, ~mixed, ReadBody
  PROVE  LinkInv'
<1>1. Typed
  BY TypedFacts DEF IndInv
<1>2. LinkInv /\ ClientInv
  BY DEF IndInv
<1>3. /\ accepted /\ ~accepted'
      /\ UNCHANGED <<next_nr, next_ns, disconnected, plcConfigured, rx, Pending, toMeter,
                     client, vs, vr, request, part, last, joined, abandoned>>
  BY DEF ReadBody, station, buffer, Pending
<1>4. /\ client # "disconnecting"
      /\ client # "connecting" => ~SnrmAhead
      /\ client = "up" => rx = last /\ rx.body.req = request /\ rx.body.part = part
                          /\ next_nr = Inc(vs) /\ ns = vr /\ last.type = "I"
  BY <1>3, AcceptedFrame
<1>5. UNCHANGED <<RxInform, LineInform, SnrmFirst, SnrmAhead, Expected, Deaf>>
  BY <1>3 DEF RxInform, LineInform, SnrmFirst, SnrmAhead, Expected, Deaf
<1>6. UNCHANGED <<Begun, Made>>
  BY <1>3 DEF Begun, Made
<1>7. SnrmFirst => SnrmAhead
  BY DEF SnrmAhead
<1> USE <1>1, <1>2, <1>3, <1>4, <1>5, <1>6, <1>7, FrameProperties, IncProperties
    DEF Typed, LinkInv
<1>8. Segment(rx.body) \/ FinalSegment(rx.body)
  BY AcceptedFrame DEF ReadBody
<1>9. PipeInv'
  BY DEF PipeInv, Old, Current
<1>10. AcceptedInv'
  BY DEF AcceptedInv
<1>11. CASE Segment(rx.body)
  <2>1. /\ Collected(seggy', abandoned, rx.body.req, rx.body.part + 1)
        /\ \A i \in 1 .. Len(seggy') : Belongs(seggy'[i])
        /\ Head(seggy').req = 0 \/ Newest(executed) < Head(seggy').req
    BY <1>11, SegmentKept
  <2>2. toClient' = RR(next_nr) /\ UNCHANGED <<ns, executed>> /\ rx.segmented
    BY <1>11 DEF Segment, Answer
  <2>3. client = "up" => Ready(request, part + 1)'
    BY <2>1, <2>2, AcceptedFrame DEF Ready
  <2>4. SyncInv'
    BY <2>2, <2>3 DEF SyncInv, Old
  <2>5. AnswerInv'
    BY <2>2 DEF AnswerInv
  <2>6. OrderInv'
    BY <2>1, <2>2 DEF OrderInv, Belongs
  <2>7. QED
    BY <1>9, <2>4, <2>5, <1>10, <2>6 DEF LinkInv
<1>12. CASE FinalSegment(rx.body)
  <2>1. /\ seggy' = <<>>
        /\ \/ UNCHANGED <<ns, toClient>>
           \/ ns' = Inc(ns) /\ toClient'.type = "I"
    BY <1>12, FinalAnswer
  <2>2. executed' = executed \/ Newest(executed') <= Made
    BY <1>12, ExecutedBody
  <2>3. ~rx.segmented
    BY <1>12 DEF FinalSegment
  <2>4. SyncInv'
    BY <2>1, <2>3 DEF SyncInv, Old
  <2>5. AnswerInv'
    BY <2>1 DEF AnswerInv
  <2>6. OrderInv'
    BY <2>1, <2>2 DEF OrderInv
  <2>7. QED
    BY <1>9, <2>4, <2>5, <1>10, <2>6 DEF LinkInv
<1>13. QED
  BY <1>8, <1>11, <1>12

\* The meter answers a poll with the number it expects.
LEMMA ReceiveRRKeeps ==
  ASSUME IndInv, ~mixed', ReceiveRR
  PROVE  LinkInv'
<1>1. Typed
  BY TypedFacts DEF IndInv
<1>2. ~mixed /\ ~torn /\ ClientInv /\ PipeInv /\ SyncInv /\ AnswerInv /\ AcceptedInv /\ OrderInv
  BY DEF IndInv, LinkInv, TypeInv, TypeOK, ReceiveRR, Received
<1>3. /\ Pending /\ ~accepted /\ rx.type = "RR" /\ ~Pending'
      /\ toClient' \in {RR(next_nr), FRMR}
      /\ toMeter' \in {None, toMeter}
      /\ UNCHANGED <<next_nr, ns, disconnected, seggy, rx, accepted, executed,
                      client, vs, vr, request, part, last, abandoned>>
  BY DEF ReceiveRR, Received, Pending, Answer, station
<1> USE <1>2, <1>3, FrameProperties
<1>4. PipeInv'
  BY <1>1, IncProperties DEF Typed, PipeInv, RxInform, LineInform, SnrmFirst, SnrmAhead,
                              Deaf, Current, Old
<1>5. SyncInv'
  BY <1>1, IncProperties DEF Typed, SyncInv, RxInform, LineInform, SnrmFirst, Expected,
                              Sending, Deaf, Old, Ready
<1>6. AnswerInv'
  BY <1>1, IncProperties DEF Typed, AnswerInv, SnrmFirst, Deaf
<1>7. AcceptedInv'
  BY <1>1, IncProperties DEF Typed, AcceptedInv, Ready
<1>8. OrderInv'
  BY <1>1, IncProperties DEF Typed, OrderInv, Made, Begun
<1>9. QED
  BY <1>4, <1>5, <1>6, <1>7, <1>8 DEF LinkInv

\* The meter opens the link: its numbers are what SnrmFirst promised.
LEMMA ReceiveSNRMKeeps ==
  ASSUME IndInv, ~mixed', ReceiveSNRM
  PROVE  LinkInv'
<1>1. Typed
  BY TypedFacts DEF IndInv
<1>2. ~mixed /\ ~torn /\ ClientInv /\ PipeInv /\ SyncInv /\ AnswerInv /\ AcceptedInv /\ OrderInv
  BY DEF IndInv, LinkInv, TypeInv, TypeOK, ReceiveSNRM, Received
<1>3. /\ Pending /\ ~accepted /\ rx.type = "SNRM" /\ ~Pending'
      /\ next_nr' = 0 /\ ns' = 0 /\ ~disconnected' /\ toClient' \in {DM, UA}
      /\ toMeter' \in {None, toMeter}
      /\ UNCHANGED <<seggy, rx, accepted, executed, client, vs, vr, request, part,
                      last, abandoned>>
  BY DEF ReceiveSNRM, Received, ResetNumbers, Pending, Answer, dl_connect_indication, station
<1> USE <1>2, <1>3, FrameProperties
<1>4. PipeInv'
  BY <1>1, IncProperties DEF Typed, PipeInv, RxInform, LineInform, SnrmFirst, SnrmAhead,
                              Deaf, Current, Old
<1>5. SyncInv'
  BY <1>1, IncProperties DEF Typed, SyncInv, RxInform, LineInform, SnrmFirst, Expected,
                              Sending, Deaf, Old, Ready
<1>6. AnswerInv'
  BY <1>1, IncProperties DEF Typed, AnswerInv, SnrmFirst, Deaf
<1>7. AcceptedInv'
  BY <1>1, IncProperties DEF Typed, AcceptedInv, Ready
<1>8. OrderInv'
  BY <1>1, IncProperties DEF Typed, OrderInv, Made, Begun
<1>9. QED
  BY <1>4, <1>5, <1>6, <1>7, <1>8 DEF LinkInv

\* The meter closes the link.
LEMMA ReceiveDISCKeeps ==
  ASSUME IndInv, ~mixed', ReceiveDISC
  PROVE  LinkInv'
<1>1. Typed
  BY TypedFacts DEF IndInv
<1>2. ~mixed /\ ~torn /\ ClientInv /\ PipeInv /\ SyncInv /\ AnswerInv /\ AcceptedInv /\ OrderInv
  BY DEF IndInv, LinkInv, TypeInv, TypeOK, ReceiveDISC, Received
<1>3. /\ Pending /\ ~accepted /\ rx.type = "DISC" /\ ~Pending'
      /\ disconnected' /\ toClient' \in {DM, UA}
      /\ toMeter' \in {None, toMeter}
      /\ UNCHANGED <<next_nr, ns, seggy, rx, accepted, executed, client, vs, vr,
                      request, part, last, abandoned>>
  BY DEF ReceiveDISC, Received, Pending, Answer, station, numbers
<1> USE <1>2, <1>3, FrameProperties
<1>4. PipeInv'
  BY <1>1, IncProperties DEF Typed, PipeInv, RxInform, LineInform, SnrmFirst, SnrmAhead,
                              Deaf, Current, Old
<1>5. SyncInv'
  BY <1>1, IncProperties DEF Typed, SyncInv, RxInform, LineInform, SnrmFirst, Expected,
                              Sending, Deaf, Old, Ready
<1>6. AnswerInv'
  BY <1>1, IncProperties DEF Typed, AnswerInv, SnrmFirst, Deaf
<1>7. AcceptedInv'
  BY <1>1, IncProperties DEF Typed, AcceptedInv, Ready
<1>8. OrderInv'
  BY <1>1, IncProperties DEF Typed, OrderInv, Made, Begun
<1>9. QED
  BY <1>4, <1>5, <1>6, <1>7, <1>8 DEF LinkInv

\* A client of the other port, or nothing.
LEMMA OthersKeep ==
  ASSUME IndInv, ~mixed, PlcAssociates \/ UNCHANGED vars
  PROVE  LinkInv'
<1>1. UNCHANGED <<next_nr, next_ns, ns, disconnected, seggy, rx, Pending, accepted, executed,
                  toMeter, toClient, client, vs, vr, request, part, last, abandoned>>
  BY DEF PlcAssociates, vars, meter, buffer, Pending, link, numbers, line, station
<1>2. UNCHANGED <<RxInform, LineInform, SnrmFirst, SnrmAhead, Expected, Sending, Deaf, Begun, Made>>
  BY <1>1 DEF RxInform, LineInform, SnrmFirst, SnrmAhead, Expected, Sending, Deaf, Begun, Made
<1>3. \A r, p : Ready(r, p)' = Ready(r, p)
  BY <1>1 DEF Ready
<1>4. \A f : Current(f)' = Current(f) /\ Old(f)' = Old(f)
  BY <1>1 DEF Current, Old
<1> USE <1>1, <1>2, <1>3, <1>4 DEF IndInv, LinkInv
<1>5. PipeInv'
  BY DEF PipeInv
<1>6. SyncInv'
  BY DEF SyncInv
<1>7. AnswerInv' /\ AcceptedInv'
  BY DEF AnswerInv, AcceptedInv
<1>8. OrderInv'
  BY DEF OrderInv
<1>9. QED
  BY <1>5, <1>6, <1>7, <1>8 DEF LinkInv

\* Only its own steps change what the client knows.
LEMMA OthersLeaveStation ==
  ASSUME \/ Lose \/ DamagedHeader \/ iec62056_46_rx_byte \/ iec62056_46_link_idle_timeout
         \/ PlcAssociates \/ Main \/ UNCHANGED vars
  PROVE  UNCHANGED <<client, vs, vr, request, part, last, joined, abandoned>>
BY DEF station, vars, Lose, DamagedHeader, iec62056_46_rx_byte, Byte, FrameEnds,
       iec62056_46_link_idle_timeout, PlcAssociates, Main, ReceiveI, ReadBody, ReceiveRR,
       ReceiveSNRM, ReceiveDISC, ReceiveNothing, Received

\* What the client has learnt from an answer.
LEMMA ReceivesClientInv ==
  ASSUME IndInv, ClientReceives
  PROVE  ClientInv'
<1>1. Typed /\ ClientInv
  BY TypedFacts DEF IndInv
<1> USE <1>1, FrameProperties, IncProperties DEF Typed
<1>2. CASE Opened /\ client' = "up" /\ last' = None /\ vs' = 0 /\ vr' = 0 /\ part' = 1
           /\ joined' = FALSE /\ UNCHANGED <<request, abandoned>>
  BY <1>2 DEF ClientInv
<1>3. CASE Taken /\ vs' = Inc(vs) /\ part' = part + 1 /\ last' = None
           /\ UNCHANGED <<client, vr, request, joined, abandoned>>
  <2>1. client = "up" /\ IsPart(last) /\ last.segmented
        /\ last.body.req = request /\ last.body.part = part
    BY <1>3 DEF Taken, ClientInv
  <2>2. request \in Requests /\ part + 1 <= Parts[request] /\ Parts[request] \in Nat
    <3>1. request \in Requests /\ part < Parts[request]
      BY <2>1 DEF IsPart
    <3>2. QED
      BY <3>1, PartsCounts
  <2>3. \A r \in abandoned : r < request
    BY DEF ClientInv
  <2>4. /\ request' = request /\ part' <= Parts[request] /\ client' = "up" /\ last' = None
        /\ abandoned' = abandoned
    BY <1>3, <2>1, <2>2
  <2>5. QED
    BY <2>2, <2>3, <2>4, Zenon DEF ClientInv
<1>4. CASE Answered /\ vs' = Inc(vs) /\ vr' = Inc(vr) /\ last' = None
           /\ request' = request + 1 /\ part' = 1 /\ joined' = TRUE
           /\ UNCHANGED <<client, abandoned>>
  <2>1. client = "up"
    BY <1>4 DEF Answered
  <2>2. ASSUME NEW r \in abandoned PROVE r < request + 1
    <3>1. r < request /\ r \in Nat /\ request \in Nat
      BY DEF ClientInv
    <3>2. QED
      BY <3>1
  <2>3. QED
    BY <1>4, <2>1, <2>2 DEF ClientInv
<1>5. CASE Polled /\ last' = None /\ UNCHANGED <<client, vs, vr, request, part, joined, abandoned>>
  <2>1. /\ client = "up"
        /\ \A r \in abandoned : r < request
        /\ part > 1 => request \in Requests /\ part <= Parts[request]
    BY <1>5 DEF Polled, ClientInv
  <2>2. QED
    BY <1>5, <2>1, Zenon DEF ClientInv
<1>6. CASE Closed /\ Abandon
  BY <1>6, AbandonFacts DEF Closed, ClientInv
<1>7. CASE UNCHANGED station
  BY <1>7 DEF station, ClientInv
<1>8. QED
  BY <1>2, <1>3, <1>4, <1>5, <1>6, <1>7 DEF ClientReceives

\* What the client waits for fits where it is.
LEMMA ClientInvStep ==
  ASSUME IndInv, [Next]_vars
  PROVE  ClientInv'
<1>1. Typed /\ ClientInv
  BY TypedFacts DEF IndInv
<1> USE <1>1, FrameProperties, IncProperties DEF Typed
<1>2. CASE ClientConnects
  BY <1>2 DEF ClientConnects, Transmit, ClientInv
<1>3. CASE ClientDisconnects
  <2>1. /\ last' = DISC /\ client' = "disconnecting" /\ part' = 1
        /\ abandoned' = abandoned \union (IF part > 1 THEN {request} ELSE {})
        /\ request' = IF part > 1 THEN request + 1 ELSE request
    BY <1>3 DEF ClientDisconnects, Transmit
  <2>2. \A r \in abandoned' : r < request'
    BY <2>1 DEF ClientInv
  <2>3. QED
    BY <2>1, <2>2 DEF ClientInv
<1>4. CASE ClientRequests
  <2> DEFINE piece == Piece(request, part, ~joined)
             frame == I(vs, vr, part < Parts[request], piece)
  <2>1. /\ client = "up" /\ request \in Requests /\ last' = frame
        /\ UNCHANGED <<client, vs, vr, request, part, abandoned>>
    BY <1>4 DEF ClientRequests, Transmit
  <2>2. frame.type = "I" /\ frame.ns = vs /\ frame.nr = vr /\ frame.body = piece
        /\ frame.segmented = (part < Parts[request])
    BY DEF I
  <2>3. piece.req = request /\ piece.part = part /\ piece.whole
    BY DEF Piece
  <2> HIDE DEF frame, piece
  <2>4. part <= Parts[request]
    BY <2>1, PartsCounts DEF ClientInv
  <2>5. IsPart(frame) /\ frame.body.req = request /\ frame.body.part = part
    BY <2>1, <2>2, <2>3, <2>4 DEF IsPart
  <2>6. QED
    BY <2>1, <2>2, <2>5 DEF ClientInv
<1>5. CASE ClientPolls
  BY <1>5 DEF ClientPolls, Transmit, ClientInv
<1>6. CASE ClientRepeats
  BY <1>6 DEF ClientRepeats, Transmit, ClientInv
<1>7. CASE ClientGivesUp
  BY <1>7, AbandonFacts DEF ClientGivesUp, ClientInv
<1>8. CASE ClientReceives
  BY <1>8, ReceivesClientInv
<1>9. CASE \/ Lose \/ DamagedHeader \/ iec62056_46_rx_byte \/ iec62056_46_link_idle_timeout
           \/ PlcAssociates \/ Main \/ UNCHANGED vars
  <2>1. UNCHANGED <<client, vs, vr, request, part, last, joined, abandoned>>
    BY <1>9, OthersLeaveStation
  <2>2. QED
    BY <2>1 DEF ClientInv
<1>10. QED
  BY <1>2, <1>3, <1>4, <1>5, <1>6, <1>7, <1>8, <1>9 DEF Next

\* Once the main program has worked on a torn buffer, nothing is claimed any more.
LEMMA MixedStays ==
  ASSUME TypeInv, [Next]_vars
  PROVE  mixed => mixed'
<1>1. CASE iec62056_46_rx_byte
  BY <1>1 DEF iec62056_46_rx_byte, Byte, FrameEnds
<1>2. CASE ReceiveI \/ ReceiveRR \/ ReceiveSNRM \/ ReceiveDISC \/ ReceiveNothing
  BY <1>2 DEF ReceiveI, ReceiveRR, ReceiveSNRM, ReceiveDISC, ReceiveNothing, Received
<1>3. CASE ~(\/ iec62056_46_rx_byte \/ ReceiveI \/ ReceiveRR \/ ReceiveSNRM \/ ReceiveDISC
             \/ ReceiveNothing)
  BY <1>3 DEF Next, Main, vars, meter, buffer, ClientConnects, ClientDisconnects, ClientRequests,
              ClientPolls, ClientRepeats, ClientGivesUp, ClientReceives, Lose, DamagedHeader,
              iec62056_46_link_idle_timeout, PlcAssociates, ReadBody
<1>4. QED
  BY <1>1, <1>2, <1>3

\* A frame is in the buffer at its end, and before that the buffer is torn.
LEMMA BufferInvStep ==
  ASSUME IndInv, [Next]_vars
  PROVE  BufferInv'
<1>1. BufferInv /\ mixed \in BOOLEAN /\ torn \in BOOLEAN /\ accepted \in BOOLEAN
  BY DEF IndInv, TypeInv, TypeOK
<1>2. CASE /\ UNCHANGED <<rx, torn, accepted>> /\ (mixed => mixed')
           /\ rxState' = "FLAG" \/ UNCHANGED <<rxState, toMeter>>
  BY <1>1, <1>2 DEF BufferInv
<1>3. CASE ClientConnects \/ ClientRequests \/ ClientDisconnects \/ ClientPolls \/ ClientRepeats
  <2>1. toMeter = None /\ UNCHANGED <<rx, rxState, torn, mixed, accepted>>
    BY <1>3 DEF ClientConnects, ClientRequests, ClientDisconnects, ClientPolls, ClientRepeats,
                Transmit, meter, buffer
  <2>2. QED
    BY <1>1, <2>1 DEF BufferInv
<1>4. CASE ClientGivesUp \/ ClientReceives \/ iec62056_46_link_idle_timeout \/ PlcAssociates
           \/ UNCHANGED vars
  <2>1. UNCHANGED <<rx, rxState, torn, mixed, accepted, toMeter>>
    BY <1>4 DEF ClientGivesUp, ClientReceives, iec62056_46_link_idle_timeout, PlcAssociates, vars,
                meter, buffer, line
  <2>2. QED
    BY <1>2, <2>1
<1>5. CASE Lose
  BY <1>2, <1>5 DEF Lose
<1>6. CASE DamagedHeader
  BY <1>1, <1>6 DEF DamagedHeader, BufferInv
<1>7. ASSUME NEW before, NEW after, NEW frame, Byte(before, after, frame),
             after = "CRC" => frame = toMeter
      PROVE  BufferInv'
  <2>1. /\ rxState' = after /\ rx' = frame /\ torn' = TRUE /\ toMeter # None
        /\ UNCHANGED <<accepted, toMeter>>
    BY <1>7 DEF Byte, line
  <2>2. accepted => mixed'
    BY <1>7, Zenon DEF Byte
  <2>3. QED
    BY <1>7, <2>1, <2>2 DEF BufferInv
<1>8. CASE iec62056_46_rx_byte
  <2>1. CASE FrameEnds
    BY <2>1 DEF FrameEnds, BufferInv
  <2>2. QED
    BY <1>7, <1>8, <2>1 DEF iec62056_46_rx_byte
<1>9. CASE ReadBody
  BY <1>1, <1>9 DEF ReadBody, buffer, BufferInv
<1>10. ASSUME NEW type, Received(type) PROVE BufferInv'
  <2>1. rxState' = "FLAG" /\ torn' = torn
    BY <1>10 DEF Received
  <2>2. torn => mixed'
    BY <1>10, Zenon DEF Received
  <2>3. QED
    BY <1>1, <2>1, <2>2 DEF BufferInv
<1>11. CASE ReceiveI \/ ReceiveRR \/ ReceiveSNRM \/ ReceiveDISC \/ ReceiveNothing
  BY <1>10, <1>11 DEF ReceiveI, ReceiveRR, ReceiveSNRM, ReceiveDISC, ReceiveNothing
<1>12. QED
  BY <1>3, <1>4, <1>5, <1>6, <1>8, <1>9, <1>11 DEF Next, Main

\* Every step keeps what is said of the frames under way.
LEMMA LinkInvStep ==
  ASSUME IndInv, ~mixed, ~mixed', [Next]_vars
  PROVE  LinkInv'
<1>1. CASE \/ ClientConnects \/ ClientDisconnects \/ ClientRequests \/ ClientPolls
           \/ ClientRepeats \/ ClientGivesUp \/ ClientReceives
  BY <1>1, ClientConnectsKeeps, ClientDisconnectsKeeps, ClientRequestsKeeps, ClientPollsKeeps,
     ClientRepeatsKeeps, ClientGivesUpKeeps, ClientReceivesKeeps
<1>2. CASE iec62056_46_rx_byte
  BY <1>2, ByteKeeps, FrameEndsKeeps DEF iec62056_46_rx_byte
<1>3. CASE \/ Lose \/ DamagedHeader \/ iec62056_46_link_idle_timeout \/ PlcAssociates
           \/ UNCHANGED vars
  BY <1>3, LoseKeeps, DamagedHeaderKeeps, iec62056_46_link_idle_timeoutKeeps, OthersKeep
<1>4. CASE Main
  BY <1>4, ReceiveIKeeps, ReadBodyKeeps, ReceiveRRKeeps, ReceiveSNRMKeeps, ReceiveDISCKeeps,
     ReceiveNothingKeeps DEF Main
<1>5. QED
  BY <1>1, <1>2, <1>3, <1>4 DEF Next

\* So every step keeps the inductive invariant.
LEMMA IndInvStep ==
  ASSUME IndInv, [Next]_vars
  PROVE  IndInv'
<1>1. UNCHANGED vars => TypeInv'
  BY DEF vars, meter, buffer, link, numbers, line, station, bounds, IndInv, TypeInv, TypeOK
<1>2. TypeInv'
  BY <1>1, ClientTypes, MeterTypes DEF Next, IndInv
<1>3. BufferInv' /\ ClientInv'
  BY BufferInvStep, ClientInvStep
<1>4. mixed' \/ LinkInv'
  BY LinkInvStep, MixedStays DEF IndInv
<1>5. QED
  BY <1>2, <1>3, <1>4 DEF IndInv

-----------------------------------------------------------------------------
(* What is executed is whole.                                              *)

\* Ends, of any set of requests given up.
Whole(body, gone) ==
  LET r == Last(body).req
      n == Len(body) - Parts[r]
  IN  /\ r # 0 /\ n >= 0
      /\ \A p \in 1 .. Parts[r] : PartOf(body[n + p], r, p)
      /\ \A i \in 1 .. n : body[i].req \in gone \union {0}

WholeInv == \A i \in 1 .. Len(executed) : Whole(executed[i], abandoned)

\* Requests that are given up stay so.
LEMMA AbandonedStays ==
  ASSUME IndInv, [Next]_vars
  PROVE  abandoned \subseteq abandoned'
<1>1. CASE ClientDisconnects
  BY <1>1 DEF ClientDisconnects
<1>2. CASE ClientGivesUp
  BY <1>2 DEF ClientGivesUp, Abandon
<1>3. CASE ClientReceives
  BY <1>3 DEF ClientReceives, Abandon, station
<1>4. CASE Main
  BY <1>4, OthersLeaveStation
<1>5. CASE Lose \/ DamagedHeader \/ iec62056_46_rx_byte \/ iec62056_46_link_idle_timeout
           \/ PlcAssociates
  BY <1>5, OthersLeaveStation
<1>6. CASE ClientConnects \/ ClientRequests \/ ClientPolls \/ ClientRepeats
  BY <1>6 DEF ClientConnects, ClientRequests, ClientPolls, ClientRepeats
<1>7. CASE UNCHANGED vars
  BY <1>7 DEF vars, station
<1>8. QED
  BY <1>1, <1>2, <1>3, <1>4, <1>5, <1>6, <1>7 DEF Next

\* Only a body that is read is executed, and it is the one that was accepted.
LEMMA OnlyBodiesExecuted ==
  ASSUME IndInv, [Next]_vars, executed' # executed
  PROVE  ~mixed /\ accepted /\ FinalSegment(rx.body) /\ UNCHANGED station
<1>1. ReadBody
  BY DEF Next, Main, vars, meter, ClientConnects, ClientDisconnects, ClientRequests, ClientPolls,
         ClientRepeats, ClientGivesUp, ClientReceives, Lose, DamagedHeader, iec62056_46_rx_byte,
         Byte, FrameEnds, iec62056_46_link_idle_timeout, PlcAssociates, ReceiveI, ReceiveRR,
         ReceiveSNRM, ReceiveDISC, ReceiveNothing
<1>2. accepted /\ UNCHANGED station
  BY <1>1 DEF ReadBody
<1>3. PICK piece \in Bodies : Segment(piece) \/ FinalSegment(piece)
  BY <1>1 DEF ReadBody
<1>4. FinalSegment(piece)
  BY <1>3 DEF Segment
<1>5. ~mixed
  BY <1>4 DEF FinalSegment, process_i_body, Record
<1>6. QED
  BY <1>2, <1>3, <1>4, <1>5, AcceptedFrame

\* No step hands the server a body out of its place.
LEMMA WholeStep ==
  ASSUME IndInv, WholeInv, [Next]_vars
  PROVE  WholeInv'
<1>1. abandoned \subseteq abandoned'
  BY AbandonedStays
<1>2. \A body : Whole(body, abandoned) => Whole(body, abandoned')
  BY <1>1 DEF Whole
<1>3. CASE executed' = executed
  BY <1>2, <1>3 DEF WholeInv
<1>4. CASE executed' # executed
  <2>1. ~mixed /\ accepted /\ FinalSegment(rx.body)
    BY <1>4, OnlyBodiesExecuted
  <2>2. IsPart(rx) /\ Ready(rx.body.req, rx.body.part)
    BY <2>1, AcceptedFrame
  <2> DEFINE body == Append(seggy, rx.body)
  <2>3. executed' = Append(executed, body) /\ (seggy = <<>> \/ Fits)
    BY <1>4, <2>1, ExecutedBody
  <2>4. seggy \in Seq(Pieces) /\ rx.body \in Pieces /\ executed \in Seq(Seq(Pieces))
    BY <2>1, AcceptedFrame DEF IndInv, TypeInv, TypeOK
  <2>5. Len(seggy) <= MAX_SEGGY_LEN
    BY <2>3, <2>4, HdlcAssumption, LenProperties DEF Fits
  <2>6. /\ body \in Seq(Pieces) /\ Len(body) = Len(seggy) + 1 /\ body[Len(seggy) + 1] = rx.body
    BY <2>4, AppendTypes
  <2>7. ~rx.segmented /\ rx.body.req \in Requests /\ rx.body.part = Parts[rx.body.req]
    <3>1. /\ rx.body.req \in Requests /\ rx.body.part <= Parts[rx.body.req]
          /\ ~(rx.body.part < Parts[rx.body.req])
      BY <2>1, <2>2 DEF IsPart, FinalSegment
    <3>2. rx.body.part \in Nat /\ Parts[rx.body.req] \in Nat
      BY <2>4, <3>1, PartsCounts DEF Pieces
    <3>3. QED
      BY <2>1, <3>1, <3>2 DEF FinalSegment
  <2>8. Whole(body, abandoned)
    <3>1. Ends(body)
      BY <2>2, <2>4, <2>5, <2>7, CollectedWhole DEF Ready, IsPart
    <3>2. QED
      BY <3>1 DEF Ends, Whole
  <2> HIDE DEF body
  <2>9. /\ Len(executed') = Len(executed) + 1 /\ executed'[Len(executed) + 1] = body
        /\ Len(executed) \in Nat /\ \A i \in 1 .. Len(executed) : executed'[i] = executed[i]
    <3>1. executed \in Seq(Seq(Pieces)) /\ body \in Seq(Pieces)
      BY <2>4, <2>6, Zenon
    <3>2. /\ Len(Append(executed, body)) = Len(executed) + 1
          /\ Append(executed, body)[Len(executed) + 1] = body /\ Len(executed) \in Nat
          /\ \A i \in 1 .. Len(executed) : Append(executed, body)[i] = executed[i]
      BY <3>1, AppendTypes
    <3>3. QED
      BY <2>3, <3>2, Zenon
  <2>10. ASSUME NEW i \in 1 .. Len(executed')
         PROVE  Whole(executed'[i], abandoned')
    <3>1. CASE i = Len(executed) + 1
      BY <1>2, <2>8, <2>9, <3>1
    <3>2. CASE i \in 1 .. Len(executed)
      BY <1>2, <2>9, <3>2 DEF WholeInv
    <3>3. QED
      BY <2>9, <3>1, <3>2
  <2>11. QED
    BY <2>10 DEF WholeInv
<1>5. QED
  BY <1>3, <1>4

-----------------------------------------------------------------------------
(* What is executed is in order.                                           *)

\* The requests whose bodies have been executed.
Heads(bodies) == [i \in DOMAIN bodies |-> Head(bodies[i]).req]

\* They are numbers, and the last of them is Newest.
LEMMA HeadsProperties ==
  ASSUME TypeInv
  PROVE  /\ Heads(executed) \in Seq(Nat)
         /\ Newest(executed) = IF Heads(executed) = <<>> THEN 0
                               ELSE Heads(executed)[Len(Heads(executed))]
<1>1. executed \in Seq(Seq(Pieces)) /\ Len(executed) \in Nat /\ DOMAIN executed = 1 .. Len(executed)
  BY LenProperties DEF TypeInv
<1>2. ASSUME NEW i \in 1 .. Len(executed) PROVE Head(executed[i]).req \in Nat
  <2>1. executed[i] \in Seq(Pieces) /\ executed[i] # <<>>
    BY <1>1, ElementOfSeq DEF TypeInv
  <2>2. Head(executed[i]) \in Pieces
    BY <2>1
  <2>3. QED
    BY <2>2, HdlcAssumption, LenProperties DEF Pieces, Requests
<1>3. Heads(executed) \in Seq(Nat) /\ Len(Heads(executed)) = Len(executed)
  BY <1>1, <1>2 DEF Heads
<1>4. \A i \in 1 .. Len(executed) : Heads(executed)[i] = Head(executed[i]).req
  BY <1>1 DEF Heads
<1>5. executed = <<>> <=> Heads(executed) = <<>>
  BY <1>1, <1>3, EmptySeq
<1>6. executed # <<>> => Len(executed) \in 1 .. Len(executed)
  BY <1>1
<1>7. QED
  BY <1>3, <1>4, <1>5, <1>6 DEF Newest

\* One more body is one more request.
LEMMA HeadsAppend ==
  ASSUME TypeInv, NEW body \in Seq(Pieces)
  PROVE  Heads(Append(executed, body)) = Append(Heads(executed), Head(body).req)
<1> DEFINE e == Append(executed, body)  h == Append(Heads(executed), Head(body).req)
<1>1. executed \in Seq(Seq(Pieces)) /\ Len(executed) \in Nat /\ DOMAIN executed = 1 .. Len(executed)
  BY LenProperties DEF TypeInv
<1>2. /\ e \in Seq(Seq(Pieces)) /\ Len(e) = Len(executed) + 1 /\ e[Len(executed) + 1] = body
      /\ \A i \in 1 .. Len(executed) : e[i] = executed[i]
  BY <1>1, AppendTypes
<1>3. Heads(executed) = [i \in 1 .. Len(executed) |-> Head(executed[i]).req]
  BY <1>1 DEF Heads
<1>4. Len(Heads(executed)) = Len(executed)
  BY <1>1, <1>3, HeadsProperties, LenProperties
<1>5. h = [i \in 1 .. Len(executed) + 1 |->
             IF i = Len(executed) + 1 THEN Head(body).req ELSE Heads(executed)[i]]
  BY <1>4
<1>6. DOMAIN e = 1 .. Len(executed) + 1
  BY <1>2, LenProperties
<1> HIDE DEF e, h
<1>7. ASSUME NEW i \in 1 .. Len(executed) + 1 PROVE Heads(e)[i] = h[i]
  <2>1. i = Len(executed) + 1 \/ i \in 1 .. Len(executed)
    BY <1>1
  <2>2. Heads(e)[i] = Head(e[i]).req
    BY <1>6 DEF Heads
  <2>3. QED
    BY <1>1, <1>2, <1>3, <1>5, <2>1, <2>2
<1>8. Heads(e) = h
  BY <1>5, <1>6, <1>7 DEF Heads
<1>9. QED
  BY <1>8 DEF e, h

\* Requests are made one after the other.
LEMMA MadeStep ==
  ASSUME IndInv, [Next]_vars
  PROVE  Made' = Made \/ (Made' = Made + 1 /\ executed' = executed)
<1>1. Typed /\ ClientInv
  BY TypedFacts DEF IndInv
<1>2. CASE ClientConnects
  BY <1>1, <1>2, FrameProperties DEF ClientConnects, Transmit, ClientInv, Made, Begun
<1>3. CASE ClientDisconnects
  BY <1>1, <1>3, FrameProperties DEF ClientDisconnects, Transmit, Made, Begun, Typed
<1>4. CASE ClientRequests
  <2>1. /\ last' = I(vs, vr, part < Parts[request], Piece(request, part, ~joined))
        /\ last = None /\ UNCHANGED <<request, part, executed>>
    BY <1>4 DEF ClientRequests, Transmit, meter
  <2>2. last'.type = "I"
    BY <2>1 DEF I
  <2>3. Made' = request /\ Made \in {request, request - 1}
    BY <2>1, <2>2 DEF Made, Begun
  <2>4. QED
    BY <1>1, <2>1, <2>3 DEF Typed
<1>5. CASE ClientPolls
  BY <1>5, <1>1, FrameProperties DEF ClientPolls, Transmit, Made, Begun, Typed
<1>6. CASE ClientRepeats
  BY <1>6 DEF ClientRepeats, Transmit, Made, Begun
<1>7. CASE ClientGivesUp
  BY <1>7, AbandonFacts DEF ClientGivesUp
<1>8. CASE ClientReceives
  <2>1. CASE Closed /\ Abandon
    BY <2>1, AbandonFacts DEF Closed
  <2>2. CASE ~(Closed /\ Abandon)
    BY <1>1, <1>8, <2>2, FrameProperties
       DEF ClientReceives, Opened, Taken, Answered, Polled, ClientInv, Made, Begun, Typed, station
  <2>3. QED
    BY <2>1, <2>2
<1>9. CASE Main
  BY <1>9, OthersLeaveStation DEF Made, Begun
<1>10. CASE Lose \/ DamagedHeader \/ iec62056_46_rx_byte \/ iec62056_46_link_idle_timeout
            \/ PlcAssociates
  BY <1>10, OthersLeaveStation DEF Made, Begun
<1>11. CASE UNCHANGED vars
  BY <1>11 DEF vars, station, Made, Begun
<1>12. QED
  BY <1>2, <1>3, <1>4, <1>5, <1>6, <1>7, <1>8, <1>9, <1>10, <1>11 DEF Next

\* A body that is executed is of a request made after the one before.
LEMMA ExecuteStep ==
  ASSUME IndInv, [Next]_vars, executed' # executed
  PROVE  /\ Made' = Made
         /\ \E r \in Newest(executed) + 1 .. Made : Heads(executed)' = Append(Heads(executed), r)
<1>1. ~mixed /\ accepted /\ FinalSegment(rx.body) /\ UNCHANGED station
  BY OnlyBodiesExecuted
<1>2. Made' = Made
  BY <1>1 DEF station, Made, Begun
<1> DEFINE body == Append(seggy, rx.body)
<1>3. /\ executed' = Append(executed, body) /\ Newest(executed) < Head(body).req
      /\ Head(body).req <= Made /\ Head(body) \in Pieces
  BY <1>1, ExecutedBody
<1>4. body \in Seq(Pieces)
  BY <1>1, AcceptedFrame, AppendTypes DEF IndInv, TypeInv, TypeOK
<1> HIDE DEF body
<1>5. Heads(executed)' = Append(Heads(executed), Head(body).req)
  BY <1>3, <1>4, HeadsAppend DEF IndInv
<1>6. Newest(executed) \in Nat /\ Head(body).req \in Nat /\ Made \in Nat
  BY <1>3, TypedFacts, HdlcAssumption, LenProperties DEF IndInv, Typed, Pieces, Requests, Made
<1>7. Head(body).req \in Newest(executed) + 1 .. Made
  BY <1>3, <1>6
<1>8. QED
  BY <1>2, <1>5, <1>7

-----------------------------------------------------------------------------
(* The theorems.                                                           *)

\* The inductive invariant holds in every reachable state.
LEMMA IndInvariant == Spec => []IndInv
<1>1. Init => IndInv
  <2> SUFFICES ASSUME Init PROVE IndInv
    OBVIOUS
  <2>1. TypeInv
    <3>1. request \in 1 .. Len(Parts) + 1
      BY HdlcAssumption, LenProperties DEF Init
    <3>2. /\ next_nr \in Numbers /\ next_ns \in Numbers /\ ns = next_ns
          /\ vs \in Numbers /\ vr \in Numbers
          /\ rx \in Frames /\ toMeter \in Frames /\ toClient \in Frames /\ last \in Frames
      BY IncProperties, FrameProperties DEF Init
    <3>3. /\ seggy \in Seq(Pieces) /\ Len(seggy) <= MAX_SEGGY_LEN + 1
          /\ executed \in Seq(Seq(Pieces)) /\ Len(executed) = 0
      BY HdlcAssumption, EmptySeq DEF Init
    <3>4. /\ disconnected \in BOOLEAN /\ configured \in BOOLEAN /\ plcConfigured \in BOOLEAN
          /\ Frame_Received \in BOOLEAN /\ accepted \in BOOLEAN /\ joined \in BOOLEAN
      BY DEF Init
    <3>5. part \in Nat \ {0} /\ abandoned \subseteq Requests
          /\ client \in {"down", "connecting", "up", "disconnecting"}
      BY DEF Init
    <3>6. /\ rxState \in {"FLAG", "MSAP", "CTRL", "BODY", "CRC"}
          /\ torn \in BOOLEAN /\ mixed \in BOOLEAN
      BY DEF Init
    <3>7. QED
      BY <3>1, <3>2, <3>3, <3>4, <3>5, <3>6 DEF TypeInv, TypeOK
  <2>2. BufferInv /\ ClientInv
    BY DEF Init, BufferInv, ClientInv
  <2>3. LinkInv
    BY FrameProperties
       DEF Init, LinkInv, PipeInv, SyncInv, AnswerInv, AcceptedInv, OrderInv, SnrmAhead, SnrmFirst,
           Pending, RxInform, LineInform, Deaf, Newest, Made, Begun
  <2>4. QED
    BY <2>1, <2>2, <2>3 DEF IndInv
<1>2. IndInv /\ [Next]_vars => IndInv'
  BY IndInvStep
<1>3. QED
  BY <1>1, <1>2, PTL DEF Spec

\* The numbers, the frames and the counters have their types, whatever is left in a
\* torn buffer; until one is worked on the meter owes at most one acknowledgement; and
\* the buffer of segments is never longer than when it has overflown, however long the
\* client sends.
THEOREM HdlcTypeCorrect == Spec => []TypeOK
<1>1. IndInv => TypeOK
  BY DEF IndInv, TypeInv
<1>2. QED
  BY <1>1, IndInvariant, PTL

\* Whatever is lost, repeated, damaged or overwritten in time, a body that
\* process_i_body executes before the main program first works on a torn buffer
\* ends with all parts of one request, whole and in order, and before them are only
\* pieces of requests that were given up.
THEOREM ExecutesWholeRequests == Spec => []ExecutesWhole
<1>1. Init => WholeInv
  BY DEF Init, WholeInv
<1>2. IndInv /\ WholeInv /\ [Next]_vars => WholeInv'
  BY WholeStep
<1>3. IndInv /\ WholeInv => ExecutesWhole
  <2> SUFFICES ASSUME IndInv, WholeInv PROVE ExecutesWhole
    OBVIOUS
  <2>1. DOMAIN executed = 1 .. Len(executed)
    BY LenProperties DEF IndInv, TypeInv
  <2>2. QED
    BY <2>1 DEF WholeInv, ExecutesWhole, Whole, Ends
<1>4. QED
  BY <1>1, <1>2, <1>3, IndInvariant, PTL DEF Spec

\* The data link keeps its promise to a client, until the main program first works
\* on a torn buffer: a request that the meter executes was made, was not executed
\* before and was not overtaken.
THEOREM RequestsDeliveredInOrder == Spec => DeliversInOrder
<1>1. Init => Delivery!Init
  <2> SUFFICES ASSUME Init PROVE Delivery!Init
    OBVIOUS
  <2>1. ~Begun /\ request = 1 /\ executed = <<>>
    BY FrameProperties DEF Init, Begun
  <2>2. [i \in DOMAIN executed |-> Head(executed[i]).req] = <<>>
    BY <2>1
  <2>3. QED
    BY <2>1, <2>2 DEF Delivery!Init
<1>2. IndInv /\ [Next]_vars => [Delivery!Next]_<<Made, Heads(executed)>>
  <2> SUFFICES ASSUME IndInv, [Next]_vars
               PROVE  Delivery!Next \/ UNCHANGED <<Made, Heads(executed)>>
    OBVIOUS
  <2>1. CASE executed' = executed /\ Made' = Made
    BY <2>1 DEF Heads
  <2>2. CASE executed' = executed /\ Made' = Made + 1
    BY <2>2 DEF Delivery!Next, Delivery!Request, Made
  <2>3. CASE executed' # executed
    <3>1. PICK r \in Newest(executed) + 1 .. Made : Heads(executed)' = Append(Heads(executed), r)
      BY <2>3, ExecuteStep
    <3>2. Made' = Made
      BY <2>3, ExecuteStep
    <3>3. Newest(executed) = Delivery!Newest
      BY HeadsProperties DEF IndInv, Heads, Delivery!Newest
    <3>4. Delivery!Execute
      BY <3>1, <3>2, <3>3 DEF Delivery!Execute, Heads, Made
    <3>5. QED
      BY <3>4 DEF Delivery!Next
  <2>4. QED
    BY <2>1, <2>2, <2>3, MadeStep
<1>3. QED
  BY <1>1, <1>2, IndInvariant, PTL DEF Spec, DeliversInOrder, Delivery!Spec, Made, Heads
-----------------------------------------------------------------------------
(* While the link is open nothing is rejected.  The meter rejects a frame  *)
(* whose acknowledgement check_rx_nr does not find in order; no such frame *)
(* reaches an open link.  NrInv says why.                                  *)

Numbered(f) == f.type \in {"I", "RR"}

\* The client acknowledges what the meter waits for, and at most its last answer is
\* still on its way.
InOrder(nr) == Acknowledges(nr) /\ (nr = vr \/ Inc(nr) = vr)

NrInv ==
  /\ toClient.type = "FRMR" => disconnected
  /\ SnrmFirst /\ Numbered(toMeter) => toMeter.nr = 0
  /\ client = "up" /\ last.type = "RR" => last.nr = vr
  /\ ~disconnected /\ ~SnrmFirst =>
       /\ Pending /\ Numbered(rx) => InOrder(rx.nr)
       /\ Numbered(toMeter) => InOrder(toMeter.nr)
       /\ Pending /\ Numbered(rx) /\ Numbered(toMeter) /\ rx.nr # next_ns =>
            toMeter.nr = rx.nr
       /\ client = "up" => ns = vr \/ (ns = Inc(vr) /\ next_ns = vr)

\* The promise, until the main program works on a torn buffer: FRMR goes to a
\* client only while the link is closed; ...
NeverRejected == mixed \/ (toClient.type = "FRMR" => disconnected)

\* ... and a client that has its answer and no request under way finds the meter in
\* step, if the link is still open: its next frame will be taken.
NextIsTaken ==
  ~mixed /\ client = "up" /\ last = None /\ ~disconnected /\ ~SnrmFirst =>
    next_nr = vs /\ Acknowledges(vr) /\ ~accepted

\* Two answers in a row have different numbers.
LEMMA IncTwice == \A n \in Numbers : Inc(Inc(n)) # n
<1> USE HdlcAssumption DEF Numbers
<1>1. \A n \in Numbers : n # Modulus - 1 => Inc(n) = n + 1
  <2>1. SUFFICES ASSUME NEW n \in Numbers, n # Modulus - 1 PROVE Inc(n) = n + 1
    OBVIOUS
  <2>2. n + 1 \in 0 .. Modulus - 1
    BY <2>1
  <2>3. QED
    BY <2>2 DEF Inc
<1>2. Inc(Modulus - 1) = 0
  BY DEF Inc
<1> SUFFICES ASSUME NEW n \in Numbers PROVE Inc(Inc(n)) # n
  OBVIOUS
<1>3. CASE n = Modulus - 1
  <2>1. Inc(0) = 1
    BY <1>1
  <2>2. QED
    BY <1>2, <1>3, <2>1
<1>4. CASE n + 1 = Modulus - 1
  <2>1. Inc(n) = Modulus - 1
    BY <1>1, <1>4
  <2>2. QED
    BY <1>2, <1>4, <2>1
<1>5. CASE n + 1 # Modulus - 1 /\ n # Modulus - 1
  <2>1. Inc(n) = n + 1 /\ n + 1 \in Numbers
    BY <1>1, <1>5
  <2>2. Inc(n + 1) = n + 2
    BY <1>1, <1>5, <2>1
  <2>3. QED
    BY <2>1, <2>2
<1>6. QED
  BY <1>3, <1>4, <1>5

\* What the proofs need of the numbers.
NrTypes ==
  /\ next_ns \in Numbers /\ ns \in {next_ns, Inc(next_ns)} /\ vr \in Numbers
  /\ rx.nr \in Numbers /\ toMeter.nr \in Numbers /\ last.nr \in Numbers
  /\ disconnected \in BOOLEAN

LEMMA NrTyped == ASSUME IndInv, ~mixed PROVE NrTypes
BY DEF IndInv, TypeInv, TypeOK, NrTypes, Frames

\* A frame that the client sends in its session is in order.
LEMMA SentInOrder ==
  ASSUME NrTypes, NrInv, client = "up", ~disconnected, ~SnrmFirst
  PROVE  /\ InOrder(vr)
         /\ Pending /\ Numbered(rx) /\ rx.nr # next_ns => rx.nr = vr
<1> USE IncProperties, IncTwice DEF NrTypes
<1>1. ns = vr \/ (ns = Inc(vr) /\ next_ns = vr)
  BY DEF NrInv
<1>2. InOrder(vr)
  BY <1>1 DEF InOrder, Acknowledges
<1>3. ASSUME Pending, Numbered(rx), rx.nr # next_ns PROVE rx.nr = vr
  <2>1. InOrder(rx.nr)
    BY <1>3 DEF NrInv
  <2>2. rx.nr = ns /\ ns = Inc(next_ns)
    BY <1>3, <2>1 DEF InOrder, Acknowledges
  <2>3. QED
    BY <1>1, <2>1, <2>2 DEF InOrder
<1>4. QED
  BY <1>2, <1>3

\* A frame with the client's number on the line keeps the invariant.
LEMMA TransmitInOrder ==
  ASSUME IndInv, ~mixed, NrInv, UNCHANGED <<meter, toClient, client, vr>>, client = "up",
         last'.type = "RR" => last'.nr = vr, toMeter' = last',
         Numbered(toMeter') => toMeter'.nr = vr
  PROVE  NrInv'
<1>1. NrTypes
  BY NrTyped
<1>2. UNCHANGED <<next_ns, ns, disconnected, rx, Pending, toClient, client, vr, SnrmFirst>>
  BY DEF meter, buffer, Pending, link, numbers, SnrmFirst
<1>3. SnrmFirst => vr = 0
  BY DEF IndInv, LinkInv, PipeInv, SnrmAhead
<1>4. /\ toClient'.type = "FRMR" => disconnected'
      /\ SnrmFirst' /\ Numbered(toMeter)' => toMeter'.nr = 0
      /\ client' = "up" /\ last'.type = "RR" => last'.nr = vr'
  BY <1>2, <1>3 DEF NrInv, Numbered
<1>5. ASSUME ~disconnected, ~SnrmFirst
      PROVE  /\ Pending' /\ Numbered(rx)' => InOrder(rx.nr)'
             /\ Numbered(toMeter)' => InOrder(toMeter.nr)'
             /\ Pending' /\ Numbered(rx)' /\ Numbered(toMeter)' /\ rx'.nr # next_ns' =>
                  toMeter'.nr = rx'.nr
             /\ client' = "up" => ns' = vr' \/ (ns' = Inc(vr') /\ next_ns' = vr')
  <2>1. /\ InOrder(vr)
        /\ Pending /\ Numbered(rx) /\ rx.nr # next_ns => rx.nr = vr
    BY <1>1, <1>5, SentInOrder
  <2>2. QED
    BY <1>2, <1>5, <2>1 DEF NrInv, Numbered, InOrder, Acknowledges
<1>6. QED
  BY <1>2, <1>4, <1>5 DEF NrInv

\* The client's steps.
LEMMA ClientStepsInOrder ==
  ASSUME IndInv, ~mixed, NrInv,
         \/ ClientConnects \/ ClientDisconnects \/ ClientRequests \/ ClientPolls
         \/ ClientRepeats \/ ClientGivesUp
  PROVE  NrInv'
<1>1. NrTypes
  BY NrTyped
<1>2. ClientInv
  BY DEF IndInv, LinkInv
<1>3. CASE toMeter' \in {SNRM, DISC} /\ client' # "up" /\ UNCHANGED <<meter, toClient, vr>>
  BY <1>3, FrameProperties
     DEF NrInv, meter, buffer, Pending, link, numbers, SnrmFirst, Numbered, InOrder, Acknowledges
<1>4. CASE ClientConnects \/ ClientDisconnects
  BY <1>3, <1>4 DEF ClientConnects, ClientDisconnects, Transmit
<1>5. CASE ClientRequests
  <2>1. /\ toMeter' = I(vs, vr, part < Parts[request], Piece(request, part, ~joined))
        /\ last' = toMeter'
    BY <1>5 DEF ClientRequests, Transmit
  <2>2. toMeter'.type = "I" /\ toMeter'.nr = vr
    BY <2>1 DEF I
  <2>3. QED
    BY <1>5, <2>1, <2>2, TransmitInOrder DEF ClientRequests
<1>6. CASE ClientPolls
  <2>1. toMeter' = RR(vr) /\ last' = RR(vr)
    BY <1>6 DEF ClientPolls, Transmit
  <2>2. toMeter'.type = "RR" /\ toMeter'.nr = vr
    BY <1>1, <2>1, FrameProperties DEF NrTypes
  <2>3. QED
    BY <1>6, <2>1, <2>2, TransmitInOrder DEF ClientPolls
<1>7. CASE ClientRepeats
  <2>1. toMeter' = last /\ last' = last /\ last # None
    BY <1>7 DEF ClientRepeats, Transmit
  <2>2. CASE client = "up"
    <3>1. Numbered(last) => last.nr = vr
      BY <1>2, <2>1, <2>2 DEF ClientInv, NrInv, Numbered
    <3>2. QED
      BY <1>7, <2>1, <2>2, <3>1, TransmitInOrder DEF ClientRepeats, NrInv, Numbered
  <2>3. CASE client # "up"
    <3>1. last \in {SNRM, DISC}
      BY <1>2, <2>1, <2>3 DEF ClientInv, IndInv, TypeInv, TypeOK
    <3>2. QED
      BY <1>3, <1>7, <2>1, <2>3, <3>1 DEF ClientRepeats
  <2>4. QED
    BY <2>2, <2>3
<1>8. CASE ClientGivesUp
  <2>1. client' # "up" /\ UNCHANGED <<meter, toClient, toMeter, vr>>
    BY <1>8 DEF ClientGivesUp, Abandon, line
  <2>2. QED
    BY <2>1 DEF NrInv, meter, buffer, Pending, link, numbers, SnrmFirst, Numbered, InOrder, Acknowledges
<1>9. QED
  BY <1>4, <1>5, <1>6, <1>7, <1>8

\* An answer that is read.
LEMMA ReceivesInOrder ==
  ASSUME IndInv, ~mixed, NrInv, ClientReceives
  PROVE  NrInv'
<1> USE IncProperties, IncTwice, FrameProperties
<1>1. NrTypes
  BY NrTyped
<1>2. /\ UNCHANGED <<next_ns, ns, disconnected, rx, Pending, toMeter, SnrmFirst>>
      /\ toClient' = None
  BY DEF ClientReceives, meter, buffer, Pending, link, numbers, SnrmFirst
<1>3. PipeInv /\ AnswerInv
  BY DEF IndInv, LinkInv
<1>4. CASE vr' = vr /\ (client' = "up" => client = "up" /\ last' \in {None, last})
  BY <1>2, <1>4 DEF NrInv, SnrmFirst, Numbered, InOrder, Acknowledges
<1>5. CASE Opened /\ client' = "up" /\ last' = None /\ vr' = 0
  <2>1. /\ Pending => rx.type = "SNRM"
        /\ disconnected \/ ns = 0
        /\ toMeter = None \/ toMeter = SNRM
    BY <1>3, <1>5 DEF Opened, PipeInv, AnswerInv
  <2>2. ~Numbered(toMeter)
    BY <2>1 DEF Numbered
  <2>3. QED
    BY <1>2, <1>5, <2>1, <2>2 DEF NrInv, SnrmFirst, Numbered
<1>6. CASE Answered /\ vr' = Inc(vr) /\ last' = None /\ client' = client
  <2>1. ns = Inc(vr) /\ ~SnrmFirst /\ client = "up"
    BY <1>3, <1>6 DEF Answered, AnswerInv
  <2>2. ASSUME ~disconnected, NEW nr \in Numbers, InOrder(nr) PROVE nr = vr /\ Acknowledges(nr)
    <3>1. next_ns = vr
      BY <1>1, <2>1, <2>2 DEF NrInv, NrTypes
    <3>2. QED
      BY <1>1, <2>1, <2>2, <3>1 DEF NrTypes, InOrder, Acknowledges
  <2>3. ASSUME ~disconnected
        PROVE  /\ Pending /\ Numbered(rx) => rx.nr = vr /\ Acknowledges(rx.nr)
               /\ Numbered(toMeter) => toMeter.nr = vr /\ Acknowledges(toMeter.nr)
    BY <1>1, <2>1, <2>2, <2>3 DEF NrInv, NrTypes
  <2>4. QED
    BY <1>2, <1>6, <2>1, <2>3 DEF NrInv, SnrmFirst, Numbered, InOrder, Acknowledges
<1>7. CASE Closed /\ Abandon
  BY <1>4, <1>7 DEF Abandon
<1>8. QED
  BY <1>4, <1>5, <1>6, <1>7 DEF ClientReceives, Taken, Polled, station

\* What waits is lost, or what is on the line.
LEMMA LossInOrder ==
  ASSUME IndInv, ~mixed, NrInv, ~SnrmFirst \/ (UNCHANGED <<rx, Pending>>),
         UNCHANGED <<rx, Pending>> \/ ~Pending',
         toMeter' \in {toMeter, None}, toClient' \in {toClient, None},
         UNCHANGED <<next_ns, ns, disconnected, vr, client, last>>
  PROVE  NrInv'
BY FrameProperties DEF NrInv, SnrmFirst, Numbered, InOrder, Acknowledges

\* A byte comes in over what waits.
LEMMA ByteInOrder ==
  ASSUME IndInv, ~mixed, NrInv, NEW before, NEW after, NEW frame, Byte(before, after, frame)
  PROVE  NrInv'
<1> USE IncProperties, FrameProperties
<1>1. NrTypes
  BY NrTyped
<1>2. /\ toMeter # None /\ ~Pending'
      /\ UNCHANGED <<toMeter, toClient, next_ns, ns, disconnected, vr, client, last>>
  BY DEF Byte, Pending, link, numbers, line, station
<1>3. CASE SnrmFirst /\ ~disconnected
  <2>1. PipeInv
    BY DEF IndInv, LinkInv
  <2>2. CASE client = "connecting"
    <3>1. ~Numbered(toMeter)
      BY <1>2, <2>1, <2>2 DEF PipeInv, Numbered
    <3>2. QED
      BY <1>2, <1>3, <2>2, <3>1 DEF NrInv, SnrmFirst, Numbered
  <2>3. CASE client # "connecting"
    <3>1. vr = 0 /\ ns = 0
      BY <1>3, <2>1, <2>3 DEF PipeInv, SnrmAhead
    <3>2. Numbered(toMeter) => InOrder(toMeter.nr)
      BY <1>1, <1>3, <3>1 DEF NrInv, NrTypes, InOrder, Acknowledges
    <3>3. QED
      BY <1>2, <1>3, <3>1, <3>2 DEF NrInv, SnrmFirst, Numbered, InOrder, Acknowledges
  <2>4. QED
    BY <2>2, <2>3
<1>4. CASE ~SnrmFirst \/ disconnected
  BY <1>2, <1>4 DEF NrInv, SnrmFirst, Numbered, InOrder, Acknowledges
<1>5. QED
  BY <1>3, <1>4

\* The line, the timer and the other port.
LEMMA LineInOrder ==
  ASSUME IndInv, ~mixed, NrInv,
         \/ Lose \/ DamagedHeader \/ iec62056_46_rx_byte \/ iec62056_46_link_idle_timeout
         \/ PlcAssociates
  PROVE  NrInv'
<1> USE IncProperties, FrameProperties
<1>1. NrTypes
  BY NrTyped
<1>2. UNCHANGED <<next_ns, ns, vr, client, last>>
  BY DEF Lose, DamagedHeader, iec62056_46_rx_byte, Byte, FrameEnds, iec62056_46_link_idle_timeout,
         PlcAssociates, meter, link, numbers, station
<1>3. CASE Lose
  <2>1. /\ UNCHANGED <<disconnected, rx, Pending>>
        /\ toMeter' \in {toMeter, None} /\ toClient' \in {toClient, None}
    BY <1>3 DEF Lose, link, Pending
  <2>2. QED
    BY <1>2, <2>1, LossInOrder
<1>4. CASE DamagedHeader
  <2>1. torn /\ UNCHANGED torn
    BY <1>4 DEF DamagedHeader, IndInv, BufferInv
  <2>2. /\ UNCHANGED disconnected /\ ~SnrmFirst /\ ~Pending'
        /\ toMeter' \in {toMeter, None} /\ toClient' \in {toClient, None}
    BY <1>4, <2>1 DEF DamagedHeader, link, Pending, SnrmFirst
  <2>3. QED
    BY <1>2, <2>2, LossInOrder
<1>5. CASE FrameEnds
  <2>1. /\ ~Pending /\ rx' = toMeter /\ toMeter' = None /\ UNCHANGED <<disconnected, toClient>>
    BY <1>5 DEF FrameEnds, IndInv, BufferInv, Pending, link
  <2>2. QED
    BY <1>2, <2>1 DEF NrInv, SnrmFirst, Numbered, InOrder, Acknowledges
<1>6. CASE iec62056_46_link_idle_timeout \/ PlcAssociates
  <2>1. /\ UNCHANGED <<rx, Pending, toMeter, toClient>>
        /\ disconnected' = disconnected \/ disconnected' = TRUE
    BY <1>6 DEF iec62056_46_link_idle_timeout, PlcAssociates, line, link, buffer, Pending
  <2>2. QED
    BY <1>1, <1>2, <2>1 DEF NrInv, SnrmFirst, Numbered, InOrder, Acknowledges, NrTypes
<1>7. QED
  BY <1>3, <1>4, <1>5, <1>6, ByteInOrder DEF iec62056_46_rx_byte

\* The main program processes a frame with a number.
LEMMA NumberedInOrder ==
  ASSUME IndInv, ~mixed', NrInv, ReceiveI \/ ReceiveRR
  PROVE  NrInv'
<1> USE IncProperties, IncTwice, FrameProperties
<1>1. ~mixed /\ ~torn
  BY DEF IndInv, TypeInv, TypeOK, ReceiveI, ReceiveRR, Received
<1>2. NrTypes /\ next_nr \in Numbers
  BY <1>1, NrTyped DEF IndInv, TypeInv, TypeOK
<1>3. /\ Pending /\ ~Pending' /\ rx.type \in {"I", "RR"} /\ ~SnrmFirst /\ ~SnrmFirst'
      /\ toMeter' \in {None, toMeter}
      /\ UNCHANGED <<rx, ns, disconnected, client, vr, last>>
  BY <1>1 DEF ReceiveI, ReceiveRR, Received, Pending, SnrmFirst, station, numbers
<1>4. ~disconnected => Acknowledges(rx.nr)
  BY <1>3 DEF NrInv, Numbered, InOrder
<1>5. /\ ~disconnected => next_ns' = rx.nr
      /\ toClient'.type = "FRMR" => disconnected
  BY <1>2, <1>4 DEF ReceiveI, ReceiveRR, Answer, NrInv, NrTypes
<1>6. ASSUME ~disconnected
      PROVE  client = "up" => ns = vr \/ (ns = Inc(vr) /\ rx.nr = vr)
  BY <1>2, <1>3, <1>6 DEF NrInv, NrTypes, Numbered, InOrder, Acknowledges
<1>7. ASSUME ~disconnected, Numbered(toMeter), toMeter' = toMeter
      PROVE  InOrder(toMeter.nr)'
  <2>1. /\ InOrder(rx.nr) /\ InOrder(toMeter.nr)
        /\ rx.nr # next_ns => toMeter.nr = rx.nr
    BY <1>3, <1>7 DEF NrInv, Numbered
  <2>2. next_ns' = rx.nr /\ ns' = ns /\ vr' = vr
    BY <1>3, <1>5, <1>7
  <2>3. toMeter.nr = rx.nr \/ (toMeter.nr = Inc(rx.nr) /\ toMeter.nr = ns)
    BY <1>2, <2>1 DEF NrTypes, InOrder, Acknowledges
  <2>4. QED
    BY <1>7, <2>1, <2>2, <2>3 DEF InOrder, Acknowledges
<1>8. QED
  BY <1>2, <1>3, <1>5, <1>6, <1>7 DEF NrInv, NrTypes, Numbered

\* The main program reads a body and answers.
LEMMA BodyInOrder ==
  ASSUME IndInv, ~mixed, NrInv, ReadBody
  PROVE  NrInv'
<1> USE IncProperties, IncTwice, FrameProperties
<1>1. NrTypes /\ next_nr \in Numbers
  BY NrTyped DEF IndInv, TypeInv, TypeOK
<1>2. /\ accepted
      /\ UNCHANGED <<next_ns, disconnected, rx, Pending, SnrmFirst, toMeter, client, vr, last>>
  BY DEF ReadBody, buffer, Pending, SnrmFirst, station
<1>3. ns' \in {ns, Inc(ns)} /\ (toClient'.type = "FRMR" => disconnected)
  <2>1. I(ns, next_nr, FALSE, Parameters).type = "I"
    BY DEF I
  <2>2. \/ ns' = ns /\ (toClient' = toClient \/ toClient' = RR(next_nr))
        \/ ns' = Inc(ns) /\ toClient' = I(ns, next_nr, FALSE, Parameters)
    BY Zenon DEF ReadBody, Segment, FinalSegment, process_i_body, Respond, Answer
  <2>3. QED
    BY <1>1, <2>1, <2>2 DEF NrInv
<1>4. ns = next_ns /\ (client = "up" => ns = vr)
  BY <1>2 DEF IndInv, LinkInv, AcceptedInv
<1>5. ASSUME NEW nr, InOrder(nr) PROVE InOrder(nr)'
  BY <1>1, <1>2, <1>3, <1>4, <1>5 DEF InOrder, Acknowledges, NrTypes
<1>6. QED
  BY <1>1, <1>2, <1>3, <1>4, <1>5 DEF NrInv, NrTypes, Numbered

\* The main program opens or closes the link, or drops what is no frame for it.
LEMMA MainInOrder ==
  ASSUME IndInv, ~mixed', NrInv, ReceiveSNRM \/ ReceiveDISC \/ ReceiveNothing
  PROVE  NrInv'
<1> USE IncProperties, FrameProperties
<1>1. ~mixed /\ ~torn
  BY DEF IndInv, TypeInv, TypeOK, ReceiveSNRM, ReceiveDISC, ReceiveNothing, Received
<1>2. NrTypes
  BY <1>1, NrTyped
<1>3. /\ Pending /\ ~Pending' /\ ~SnrmFirst' /\ toMeter' \in {None, toMeter}
      /\ UNCHANGED <<rx, client, vr, last>>
  BY <1>1 DEF ReceiveSNRM, ReceiveDISC, ReceiveNothing, Received, Pending, SnrmFirst, station
<1>4. CASE ReceiveSNRM
  <2>1. SnrmFirst /\ next_ns' = 0 /\ ns' = 0 /\ toClient' \in {DM, UA}
    BY <1>3, <1>4
       DEF ReceiveSNRM, ResetNumbers, Received, SnrmFirst, dl_connect_indication, Answer
  <2>2. /\ client # "connecting" => vr = 0
        /\ client = "connecting" => ~Numbered(toMeter)
    BY <1>1, <2>1 DEF IndInv, LinkInv, PipeInv, SnrmAhead, Numbered
  <2>3. /\ Numbered(toMeter) => InOrder(toMeter.nr)'  \/ toMeter' = None
        /\ client = "up" => ns' = vr
    BY <1>3, <2>1, <2>2 DEF NrInv, InOrder, Acknowledges
  <2>4. QED
    BY <1>3, <2>1, <2>3 DEF NrInv, Numbered
<1>5. CASE ReceiveDISC
  <2>1. disconnected' = TRUE
    BY <1>5 DEF ReceiveDISC
  <2>2. QED
    BY <1>3, <2>1 DEF NrInv
<1>6. CASE ReceiveNothing
  <2>1. ~SnrmFirst /\ UNCHANGED <<next_ns, ns, disconnected, toClient>>
    BY <1>6 DEF ReceiveNothing, Received, SnrmFirst, link, numbers
  <2>2. QED
    BY <1>1, <1>3, <2>1, LossInOrder
<1>7. QED
  BY <1>4, <1>5, <1>6

\* Every step keeps the acknowledgements in order.
LEMMA NrInvariant == Spec => [](mixed \/ NrInv)
<1>1. Init => NrInv
  BY FrameProperties DEF Init, NrInv, SnrmFirst, Pending, Numbered
<1>2. IndInv /\ (mixed \/ NrInv) /\ [Next]_vars => (mixed \/ NrInv)'
  <2>1. SUFFICES ASSUME IndInv, ~mixed, NrInv, ~mixed', [Next]_vars PROVE NrInv'
    BY MixedStays DEF IndInv
  <2>2. CASE UNCHANGED vars
    BY <2>1, <2>2 DEF vars, meter, buffer, Pending, link, numbers, line, station, NrInv, SnrmFirst,
                      Numbered, InOrder, Acknowledges
  <2>3. QED
    BY <2>1, <2>2, ClientStepsInOrder, ReceivesInOrder, LineInOrder, NumberedInOrder, BodyInOrder,
       MainInOrder DEF Next, Main
<1>3. QED
  BY <1>1, <1>2, IndInvariant, PTL DEF Spec

\* While the link is open no frame is rejected, whatever is lost, repeated or late,
\* until the main program first works on a buffer that a further frame has torn:
\* check_rx_nr never finds an acknowledgement out of order there, and FRMR, which
\* makes the client give up, answers only a client whose link the timer or a DISC
\* has closed.
THEOREM NeverRejects == Spec => []NeverRejected
<1>1. mixed \/ NrInv => NeverRejected
  BY DEF NrInv, NeverRejected
<1>2. QED
  BY <1>1, NrInvariant, PTL

\* Until then, a client that waits for nothing and whose link is open is in step
\* with the meter: the number and the acknowledgement of its next request are those that
\* the meter expects, and nothing of an earlier one is still to be read.
THEOREM NextRequestIsTaken == Spec => []NextIsTaken
<1>1. IndInv /\ (mixed \/ NrInv) => NextIsTaken
  <2>1. SUFFICES ASSUME IndInv, ~mixed, NrInv, client = "up", last = None, ~disconnected, ~SnrmFirst
                 PROVE  next_nr = vs /\ Acknowledges(vr) /\ ~accepted
    BY DEF NextIsTaken
  <2>2. NrTypes
    BY <2>1, NrTyped
  <2>3. SyncInv
    BY <2>1 DEF IndInv, LinkInv
  <2>4. next_nr = vs /\ ~accepted
    BY <2>1, <2>3, FrameProperties DEF SyncInv, Deaf, Expected
  <2>5. InOrder(vr)
    BY <2>1, <2>2, SentInOrder
  <2>6. QED
    BY <2>4, <2>5 DEF InOrder
<1>2. QED
  BY <1>1, IndInvariant, NrInvariant, PTL
=============================================================================
