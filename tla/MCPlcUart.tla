----------------------------- MODULE MCPlcUart ------------------------------
(* A ring of three slots, so that two bytes fill it, and enough bytes for *)
(* the indices to wrap around twice.                                      *)
EXTENDS PlcUart
=============================================================================
