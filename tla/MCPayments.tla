----------------------------- MODULE MCPayments -----------------------------
(***************************************************************************)
(* Payments for TLC: two payouts of one unit on an account that can hold   *)
(* one of them (a), and the process main.go starts, one worker id with     *)
(* several slots (b).                                                      *)
(***************************************************************************)
EXTENDS Payments, TLC

CONSTANTS p1, p2, original, replay, w1, w2, s1, s2, default

PayoutJobs == Payout \X {"payout", "settlement"} \X Copy
OneEach == [p \in Payout |-> 1]

OneSlotEach == (s1 :> w1) @@ (s2 :> w2)
OneProcess  == (s1 :> w1) @@ (s2 :> w1)

AnyThenReject == (p1 :> {"ordinary", "flaky", "returned", "rejected"}) @@ (p2 :> {"rejected"})
AllOrdinary   == [p \in Payout |-> {"ordinary"}]

\* The two workers are alike, each with its slot.
Mirror == {(w1 :> w2) @@ (w2 :> w1) @@ (s1 :> s2) @@ (s2 :> s1)}
=============================================================================
