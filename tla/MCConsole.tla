----------------------------- MODULE MCConsole -----------------------------
(***************************************************************************)
(* Console for TLC: two jobs, the younger one watched; a page of the list  *)
(* holds one row, so that a walk has pages to follow.                      *)
(***************************************************************************)
EXTENDS Console, TLC

CONSTANTS j1, j2, default

FirstThenSecond == (j1 :> 1) @@ (j2 :> 2)
=============================================================================
