---------------------------- MODULE JobLifecycle ----------------------------
(***************************************************************************)
(* What workrail promises about each job, without queues, leases, workers  *)
(* or SQL: the state machine of docs/operations.md together with the       *)
(* accounting of attempts.  JobStore implements it.                        *)
(*                                                                         *)
(* "queued" and "retrying" are one phase, "waiting": both mean that the    *)
(* next worker may start the job once its time has come.  Jobs stand       *)
(* alone: in one step each job moves by itself or stays (a claim or a      *)
(* sweep moves several at once).                                           *)
(***************************************************************************)
EXTENDS Integers

CONSTANT Job

VARIABLES
    phase,      \* where each job is in its life
    budget,     \* the attempts it was enqueued with (max_attempts)
    left        \* the attempts it may still be charged

lifeVars == <<phase, budget, left>>

DefaultBudget == 3

LifeInit == /\ phase = [j \in Job |-> "absent"]
            /\ budget = [j \in Job |-> DefaultBudget]
            /\ left = [j \in Job |-> DefaultBudget]

Move(j, from, to) == phase[j] \in from /\ phase'[j] = to

Budget(j, b, l) == budget'[j] = b /\ left'[j] = l

Create(j) == /\ Move(j, {"absent"}, "waiting")
             /\ budget'[j] \in Nat \ {0}
             /\ left'[j] = budget'[j]

\* A worker starts the job, or takes it over from one whose lease ran out:
\* either way one attempt is charged, and there must be one left to charge.
Start(j) == /\ Move(j, {"waiting", "running"}, "running")
            /\ left[j] > 0
            /\ Budget(j, budget[j], left[j] - 1)

\* A durable wait gives the attempt back.
Park(j) == Move(j, {"running"}, "waiting") /\ Budget(j, budget[j], left[j] + 1)

\* A failed attempt is retried only while attempts are left.
Retry(j) == /\ Move(j, {"running"}, "waiting")
            /\ left[j] > 0
            /\ Budget(j, budget[j], left[j])

\* The run, or an operator's cancel, ends the job.
Finish(j) == /\ \/ Move(j, {"running"}, "succeeded")
                \/ Move(j, {"running"}, "dead_letter")
                \/ Move(j, {"waiting", "running"}, "canceled")
             /\ Budget(j, budget[j], left[j])

\* An operator resumes a dead-lettered job with a fresh budget.
Revive(j) == /\ Move(j, {"dead_letter"}, "waiting")
             /\ Budget(j, budget[j], budget[j])

\* Retention forgets only jobs that succeeded or were canceled.
Forget(j) == /\ Move(j, {"succeeded", "canceled"}, "pruned")
             /\ Budget(j, DefaultBudget, DefaultBudget)

Stay(j) == Move(j, {phase[j]}, phase[j]) /\ Budget(j, budget[j], left[j])

LifeNext ==
    \A j \in Job : \/ Create(j) \/ Start(j) \/ Park(j) \/ Retry(j)
                   \/ Finish(j) \/ Revive(j) \/ Forget(j) \/ Stay(j)

LifeSpec == LifeInit /\ [][LifeNext]_lifeVars
=============================================================================
