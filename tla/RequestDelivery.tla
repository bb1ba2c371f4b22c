--------------------------- MODULE RequestDelivery ---------------------------
(***************************************************************************)
(* What the data link promises a client: requests are executed in the      *)
(* order in which they are made, and none is executed twice.  One that is  *)
(* overtaken is not executed at all.                                       *)
(***************************************************************************)
EXTENDS Naturals, Sequences

VARIABLES
  made,     \* the number of requests made: they are 1 .. made
  executed  \* those that have been executed, in order

Init == made = 0 /\ executed = <<>>

Newest == IF executed = <<>> THEN 0 ELSE executed[Len(executed)]

Request == made' = made + 1 /\ UNCHANGED executed

Execute ==
  /\ \E r \in Newest + 1 .. made : executed' = Append(executed, r)
  /\ UNCHANGED made

Next == Request \/ Execute

Spec == Init /\ [][Next]_<<made, executed>>
=============================================================================
