------------------------------- MODULE Absent -------------------------------
(* The value of what is not there: a missing row, no answer, no limit.       *)
CONSTANT None
=============================================================================
