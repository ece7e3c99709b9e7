--------------------------- MODULE MCCompensation ---------------------------
(***************************************************************************)
(* Compensation for TLC: two workers and a budget of two attempts, so that *)
(* one worker may still be looking up a job that another one takes over.   *)
(***************************************************************************)
EXTENDS Compensation

Budgets == {2}
=============================================================================
