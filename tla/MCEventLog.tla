----------------------------- MODULE MCEventLog -----------------------------
(* Instances of EventLog for TLC: three records, events that wrap the ring *)
(* more than twice.                                                        *)
EXTENDS EventLog
=============================================================================
