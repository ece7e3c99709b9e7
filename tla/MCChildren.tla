----------------------------- MODULE MCChildren -----------------------------
(***************************************************************************)
(* Children for TLC: an activity waits for a child, the workflow sleeps,   *)
(* then waits for a child of the same name.  The parent's queue and the    *)
(* default queue are both served.                                          *)
(***************************************************************************)
EXTENDS Children, TLC

CONSTANTS parent, k1, k2, k3, k4, w1, w2, r1, r2, default, work, a

ThreeCalls == << [kind |-> "child", name |-> a, frame |-> "activity"],
                 [kind |-> "sleep", name |-> a, frame |-> ""],
                 [kind |-> "child", name |-> a, frame |-> ""] >>

OneSlotEach == (r1 :> w1) @@ (r2 :> w2)
=============================================================================
