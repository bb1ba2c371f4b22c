------------------------------ MODULE MCQueue -------------------------------
(* A ring of four slots, so that full, empty and the wrap-around of either *)
(* index meet in every combination.                                       *)
EXTENDS Queue
=============================================================================
