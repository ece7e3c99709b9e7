------------------------------ MODULE History ------------------------------
(***************************************************************************)
(* The audit trail: the rows of job_events (and of job_steps and           *)
(* job_signals, which are written with one) that the statements of the     *)
(* store leave behind.  Most statements append their event in their own    *)
(* transaction.  Complete, Cancel, RetryDeadLetter and Replay append it    *)
(* after their statement has committed: the event may come later than      *)
(* others, or never.                                                       *)
(*                                                                         *)
(* A history is a count per type of event: nothing here depends on the     *)
(* order of rows.  Heartbeat rows are left out, no reader shows them but   *)
(* the raw list; the outcomes of compensations are Compensation.tla's.     *)
(***************************************************************************)
EXTENDS JobStore

CONSTANTS
    Watched,        \* the jobs whose history is followed
    StepName,       \* names of checkpointed steps
    MaxEvents       \* bound: how many events there ever are

ASSUME HistoryAssumption ==
    IsFiniteSet(Job) /\ Watched \subseteq Job /\ MaxEvents \in Nat

VARIABLES
    events,         \* job_events: how many of each type a job has
    owed,           \* events of committed statements that are still to be appended
    steps,          \* job_steps: the names checkpointed
    signals,        \* job_signals: how many there are
    forgiven,       \* history: attempts that operator retries have written off
    written         \* how many events were written or owed, of any job

trail == <<events, owed, steps, signals, forgiven, written>>
histVars == <<jobs, trail>>

-----------------------------------------------------------------------------
\* A failure's event says which status came next.
OwnTx == {"enqueued", "idempotent_hit", "claimed", "step_completed", "suspended",
          "signaled", "failed_retrying", "failed_dead_letter", "dead_lettered"}
After == {"succeeded", "canceled", "dlq_retried", "replayed"}
EventType == OwnTx \cup After

NoEvents == [e \in EventType |-> 0]
NoneOwed == [e \in After |-> 0]

Plus(counts, S, e) ==
    [j \in Watched |-> IF j \in S THEN [counts[j] EXCEPT ![e] = @ + 1] ELSE counts[j]]

\* appendEventTx for the jobs of S, in the transaction that changes them.
Log(S, e) ==
    /\ written + Cardinality(S) <= MaxEvents
    /\ written' = written + Cardinality(S)
    /\ events' = Plus(events, S, e)

\* appendEvent, once the caller's statement has committed.
Owe(j, e) ==
    /\ written < MaxEvents
    /\ written' = written + 1
    /\ owed' = Plus(owed, {j}, e)

(***************************************************************************)
(* Transactions that append their event themselves.                        *)
(***************************************************************************)
EnqueueJob(j) ==
    /\ \E q \in Queue \cup {NoQueue}, m \in RequestedMax,
          d \in {"past", "ahead"}, k \in Key \cup {NoKey} : Enqueue(j, q, m, d, k)
    /\ Log({j}, "enqueued")
    /\ UNCHANGED <<owed, steps, signals, forgiven>>

EnqueueHit(j) ==
    /\ Exists(jobs[j]) /\ jobs[j].key # NoKey
    /\ Log({j}, "idempotent_hit")
    /\ UNCHANGED <<jobs, owed, steps, signals, forgiven>>

ClaimJobs(w) ==
    /\ \E q \in Queue, S \in SUBSET Job : Claim(w, q, S) /\ Log(S, "claimed")
    /\ UNCHANGED <<owed, steps, signals, forgiven>>

SuspendJob(w, j) ==
    /\ \E v \in 0..MaxWake : Suspend(w, j, v)
    /\ Log({j}, "suspended")
    /\ UNCHANGED <<owed, steps, signals, forgiven>>

FailJob(w, j) ==
    /\ \E permanent \in BOOLEAN : Fail(w, j, permanent)
    /\ Log({j}, IF jobs'[j].status = "retrying" THEN "failed_retrying"
                ELSE "failed_dead_letter")
    /\ UNCHANGED <<owed, steps, signals, forgiven>>

SweepJobs ==
    /\ \E S \in SUBSET Job : DeadLetterExhausted(S) /\ Log(S, "dead_lettered")
    /\ UNCHANGED <<owed, steps, signals, forgiven>>

SignalJob(j) ==
    /\ Signal(j)
    /\ Log({j}, "signaled")
    /\ signals' = [i \in Watched |-> IF i = j THEN signals[i] + 1 ELSE signals[i]]
    /\ UNCHANGED <<owed, steps, forgiven>>

\* A name that is checkpointed already gets no row and no event.
SaveStep(w, j, name) ==
    /\ j \in Watched /\ Owned(jobs[j], w) /\ name \notin steps[j]
    /\ Log({j}, "step_completed")
    /\ steps' = [steps EXCEPT ![j] = @ \cup {name}]
    /\ UNCHANGED <<jobs, owed, signals, forgiven>>

(***************************************************************************)
(* Statements that commit first and append their event afterwards.         *)
(***************************************************************************)
CompleteJob(w, j) ==
    /\ Complete(w, j) /\ Owe(j, "succeeded")
    /\ UNCHANGED <<events, steps, signals, forgiven>>

CancelJob(j) ==
    /\ Cancel(j) /\ Owe(j, "canceled")
    /\ UNCHANGED <<events, steps, signals, forgiven>>

RetryJob(j) ==
    /\ RetryDeadLetter(j) /\ Owe(j, "dlq_retried")
    /\ forgiven' = [i \in Watched |-> IF i = j THEN forgiven[i] + jobs[i].attempt
                                      ELSE forgiven[i]]
    /\ UNCHANGED <<events, steps, signals>>

ReplayJob(j, i) ==
    /\ Replay(j, i) /\ Owe(i, "replayed")
    /\ UNCHANGED <<events, steps, signals, forgiven>>

\* A job deleted meanwhile violates the foreign key, and the caller is told of
\* an error although its statement has committed.
AppendOwed(j, e) ==
    /\ owed[j][e] > 0
    /\ owed' = [owed EXCEPT ![j][e] = @ - 1]
    /\ events' = IF Exists(jobs[j]) THEN [events EXCEPT ![j][e] = @ + 1] ELSE events
    /\ UNCHANGED <<jobs, steps, signals, forgiven, written>>

\* The caller dies, or its second statement errs.
LoseOwed(j, e) ==
    /\ owed[j][e] > 0
    /\ owed' = [owed EXCEPT ![j][e] = @ - 1]
    /\ UNCHANGED <<jobs, events, steps, signals, forgiven, written>>

-----------------------------------------------------------------------------
\* Deleting a job deletes its events, steps and signals.
PruneJobs(S) ==
    /\ \E q \in Queue : PruneCompleted(q, S)
    /\ events' = [j \in Watched |-> IF j \in S THEN NoEvents ELSE events[j]]
    /\ steps' = [j \in Watched |-> IF j \in S THEN {} ELSE steps[j]]
    /\ signals' = [j \in Watched |-> IF j \in S THEN 0 ELSE signals[j]]
    /\ UNCHANGED <<owed, forgiven, written>>

\* Statements without an event, and time.
Quiet ==
    /\ TimeNext \/ \E w \in Worker, j \in Job : Heartbeat(w, j)
    /\ UNCHANGED trail

HistInit ==
    /\ Init
    /\ events = [j \in Watched |-> NoEvents]
    /\ owed = [j \in Watched |-> NoneOwed]
    /\ steps = [j \in Watched |-> {}]
    /\ signals = [j \in Watched |-> 0]
    /\ forgiven = [j \in Watched |-> 0]
    /\ written = 0

\* What clients and operators ask for over HTTP, from the CLI or in process.
Requested ==
    \E j \in Job : \/ EnqueueJob(j) \/ EnqueueHit(j) \/ SignalJob(j)
                   \/ CancelJob(j) \/ RetryJob(j)
                   \/ \E i \in Job : ReplayJob(j, i)

Worked ==
    \/ \E w \in Worker : \/ ClaimJobs(w)
                         \/ \E j \in Job : \/ SuspendJob(w, j) \/ FailJob(w, j)
                                           \/ CompleteJob(w, j)
                                           \/ \E name \in StepName : SaveStep(w, j, name)
    \/ SweepJobs
    \/ \E S \in SUBSET Job : PruneJobs(S)

Settled == \E j \in Watched, e \in After : AppendOwed(j, e) \/ LoseOwed(j, e)

HistNext == Requested \/ Worked \/ Settled \/ Quiet

HistSpec == HistInit /\ [][HistNext]_histVars

-----------------------------------------------------------------------------
(***************************************************************************)
(* What the trail is good for.                                             *)
(***************************************************************************)
HistTypeOK ==
    /\ jobs \in [Job -> Row]
    /\ events \in [Watched -> [EventType -> Nat]]
    /\ owed \in [Watched -> [After -> Nat]]
    /\ steps \in [Watched -> SUBSET StepName]
    /\ signals \in [Watched -> Nat]
    /\ forgiven \in [Watched -> Nat]
    /\ written \in Nat

Ever(j, e) == events[j][e] + owed[j][e]
Deaths(ev) == ev["failed_dead_letter"] + ev["dead_lettered"]

\* Every attempt a job is charged is a claim in its history, less the waits
\* that were refunded and the attempts an operator's retry wrote off: no path
\* through steals, parks, failures, sweeps and revivals charges or refunds an
\* attempt that the trail does not show.
AttemptsExplained ==
    \A j \in Watched : Exists(jobs[j]) =>
        jobs[j].attempt + forgiven[j] + events[j]["suspended"] = events[j]["claimed"]

\* A success or a cancel is announced once and for good, also when the event
\* comes long after the statement: a job whose trail says one of them never
\* runs, fails or ends differently afterwards.
EndingsStand ==
    \A j \in Watched :
        /\ Exists(jobs[j]) => Ever(j, "succeeded") + Ever(j, "canceled") <= 1
        /\ Ever(j, "succeeded") > 0 => jobs[j].status \in {"succeeded", "pruned"}
        /\ Ever(j, "canceled") > 0 => jobs[j].status \in {"canceled", "pruned"}

\* Operators who retry one dead letter at the same time revive it once: there
\* are never more revivals than deaths, and fewer while the job is dead.
OneRevivalPerDeath ==
    \A j \in Watched : Exists(jobs[j]) =>
        /\ Ever(j, "dlq_retried") <= Deaths(events[j])
        /\ jobs[j].status = "dead_letter" => Ever(j, "dlq_retried") < Deaths(events[j])
=============================================================================
