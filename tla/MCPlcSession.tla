---------------------------- MODULE MCPlcSession ----------------------------
(* Two tries per request; the timer of an attach request may expire twice. *)
EXTENDS PlcSession
=============================================================================
