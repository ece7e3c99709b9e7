----------------------------- MODULE MCJobStore -----------------------------
(***************************************************************************)
(* JobStore for TLC: two job ids, two workers, two queues, one key.  Two    *)
(* ids are enough for batches, idempotency conflicts and replays.  Budgets *)
(* 1 (the first attempt is the last), 2 (one retry) and 3 (the default an  *)
(* unset request gets) cover the ways a failure or a steal can be charged; *)
(* MaxWake = 1 separates a current wake version from a stale one.          *)
(***************************************************************************)
EXTENDS JobStore

MCRequestedMax == {0, 1, 2}
=============================================================================
