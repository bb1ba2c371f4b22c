------------------------------ MODULE MCRelay ------------------------------
(* Two limits that trip, one of them only under load, and one that blocks. *)
EXTENDS Relay
=============================================================================
