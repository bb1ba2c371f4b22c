---------------------------- MODULE MCPlcReceiver ----------------------------
(* Three frames: an even, an empty and an odd payload.                        *)
EXTENDS PlcReceiver
MCSizes == <<2, 0, 1>>
=============================================================================
