------------------------------ MODULE MCTamper ------------------------------
(* Each cover may be opened twice, in supply or on battery.                *)
EXTENDS Tamper
=============================================================================
