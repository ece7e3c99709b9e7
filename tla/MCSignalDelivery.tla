-------------------------- MODULE MCSignalDelivery --------------------------
(***************************************************************************)
(* SignalDelivery for TLC: two senders that share an idempotency key and   *)
(* one that passes none, two workers, two waits.                           *)
(***************************************************************************)
EXTENDS SignalDelivery, TLC

CONSTANTS j1, w1, w2, s1, s2, s3, k1

OneBudget == {2}

\* The workers are alike; the properties name none.
AlikeWorkers == Permutations(Worker)

SharedKey == (s1 :> k1) @@ (s2 :> k1) @@ (s3 :> NoKey)
=============================================================================
