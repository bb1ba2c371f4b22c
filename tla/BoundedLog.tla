----------------------------- MODULE BoundedLog -----------------------------
(***************************************************************************)
(* What a reader of one of the meter's logs is promised: the newest        *)
(* MaxLogs entries, oldest first ("unsorted (FIFO)",                       *)
(* DLMS/abstract_objects/standard_event_handling.c:28), and an empty log   *)
(* after the reset method.  Once a write or the power has failed, nothing  *)
(* is promised here any more.                                              *)
(***************************************************************************)
EXTENDS Naturals, Sequences

CONSTANT MaxLogs

VARIABLES
  log,     \* the entries a reader is shown
  count,   \* events that happened: entry n is the n-th event
  broken   \* a write or the power has failed

Newest(s) ==
  IF Len(s) <= MaxLogs THEN s ELSE SubSeq(s, Len(s) - MaxLogs + 1, Len(s))

Init == log = << >> /\ count = 0 /\ broken = FALSE

LogEvent ==
  /\ count' = count + 1
  /\ log' = Newest(Append(log, count + 1))

Reset == log' = << >> /\ UNCHANGED count

Next == broken' \/ (~broken /\ (LogEvent \/ Reset))

Spec == Init /\ [][Next]_<<log, count, broken>>
=============================================================================
