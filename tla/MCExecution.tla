---------------------------- MODULE MCExecution ----------------------------
(***************************************************************************)
(* Execution for TLC: one slot per worker (a, b) and, for the finding      *)
(* about the lease fence, two slots of one worker (c).                     *)
(***************************************************************************)
EXTENDS Execution, TLC

CONSTANTS j1, w1, w2, r1, r2, default

OneSlotEach == (r1 :> w1) @@ (r2 :> w2)
TwoSlots    == (r1 :> w1) @@ (r2 :> w1)
SameQueue   == [w \in Worker |-> default]

TwoAttempts == {2}
=============================================================================
