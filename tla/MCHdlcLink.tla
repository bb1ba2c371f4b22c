----------------------------- MODULE MCHdlcLink -----------------------------
(* Two requests, of which the first one fills the buffer of segments;      *)
(* sequence numbers that wrap; a damaged header that would open the link   *)
(* anew, and one that is an information frame in or out of sequence.       *)
EXTENDS HdlcLink
MCParts   == <<2, 1>>
MCDamaged == {SNRM, I(1, 0, FALSE, Parameters)}
=============================================================================
