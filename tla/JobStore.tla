------------------------------ MODULE JobStore ------------------------------
(***************************************************************************)
(* The jobs table of internal/store/postgres/store.go and the statements   *)
(* that change it, at the granularity of a transaction.  Callers are as    *)
(* general as the SQL allows: any worker may issue any statement at any    *)
(* time for any job, with any wake version.  Execution.tla composes the    *)
(* table with the workers that really call it.                             *)
(*                                                                         *)
(* Abstractions.  now() is not a number: a row records whether its         *)
(* run_after and its lease deadline lie in the past or ahead (runAfter,    *)
(* lease), and two actions let time pass.  Payloads, results, errors,     *)
(* event rows and the *_at audit columns are left out.                     *)
(***************************************************************************)
EXTENDS Integers, FiniteSets

CONSTANTS
    Job,            \* the job ids gen_random_uuid() may hand out
    Worker,         \* worker ids (lease_owner)
    NoWorker,       \* lease_owner IS NULL
    Queue,          \* queue names
    DefaultQueue,   \* "default"
    NoQueue,        \* an empty queue name in a request
    Key,            \* idempotency keys
    NoKey,          \* an empty idempotency key
    RequestedMax,   \* the max_attempts values requests carry
    MaxWake         \* bound: how often one job may be woken by signals

ASSUME WorkerAssumption == NoWorker \notin Worker
ASSUME QueueAssumption == DefaultQueue \in Queue /\ NoQueue \notin Queue
ASSUME KeyAssumption == NoKey \notin Key
ASSUME RequestAssumption == RequestedMax \subseteq Int /\ MaxWake \in Nat

VARIABLE jobs       \* the table: a row per job id

(***************************************************************************)
(* Rows.  An id that was never inserted is "absent"; an id whose row was   *)
(* deleted is "pruned" and never comes back.  No statement writes the      *)
(* enum's seventh value, 'failed'.                                         *)
(*                                                                         *)
(* Each Bug... variant stands right before the definition it would         *)
(* replace: the properties tell the two apart.                             *)
(***************************************************************************)
Waiting  == {"queued", "retrying"}
Terminal == {"succeeded", "dead_letter", "canceled"}
NoRow    == {"absent", "pruned"}
Status   == Waiting \cup {"running"} \cup Terminal \cup NoRow

Row == [status : Status, queue : Queue, max : Nat \ {0}, attempt : Nat,
        runAfter : {"past", "ahead"}, owner : Worker \cup {NoWorker},
        lease : {"none", "live", "expired"}, wake : 0..MaxWake,
        key : Key \cup {NoKey}]

\* The column defaults of migrations/001_init.sql and 007_wake_version.sql.
Default == [status |-> "absent", queue |-> DefaultQueue, max |-> 3,
            attempt |-> 0, runAfter |-> "past", owner |-> NoWorker,
            lease |-> "none", wake |-> 0, key |-> NoKey]

Pruned == [Default EXCEPT !.status = "pruned"]

Exists(row) == row.status \notin NoRow

BugActive(row) == Exists(row) /\ row.status # "canceled"

Active(row) == Exists(row) /\ row.status \notin Terminal

BugOwnedAnyWorker(row, w) == row.status = "running"

Owned(row, w) == row.owner = w /\ row.status = "running"

(***************************************************************************)
(* What each statement makes of a row.                                     *)
(***************************************************************************)
NormalizeQueue(q) == IF q = NoQueue THEN DefaultQueue ELSE q
NormalizeMax(m) == IF m <= 0 THEN 3 ELSE m

Enqueued(q, m, d, k) ==
    [Default EXCEPT !.status = "queued", !.queue = NormalizeQueue(q),
                    !.max = NormalizeMax(m), !.runAfter = d, !.key = k]

Claimed(row, w) ==
    [row EXCEPT !.status = "running", !.attempt = row.attempt + 1,
                !.owner = w, !.lease = "live"]

Renewed(row) == [row EXCEPT !.lease = "live"]

Released(row) == [row EXCEPT !.owner = NoWorker, !.lease = "none"]

Greatest(a, b) == IF a >= b THEN a ELSE b

BugSuspendedKeepsAttempt(row) ==
    [Released(row) EXCEPT !.status = "queued", !.runAfter = "ahead"]

\* GREATEST(attempt - 1, 0).  run_after lies ahead; a worker whose clock is
\* behind the database's is this followed at once by ComesDue.
Suspended(row) ==
    [Released(row) EXCEPT !.status = "queued", !.runAfter = "ahead",
                          !.attempt = Greatest(row.attempt - 1, 0)]

BugWokenKeepsVersion(row) == [row EXCEPT !.runAfter = "past"]

Woken(row) == [row EXCEPT !.runAfter = "past", !.wake = row.wake + 1]

Succeeded(row) == [Released(row) EXCEPT !.status = "succeeded"]

BugNextStatusFailed(attempt, max, permanent) ==
    IF permanent THEN "failed"
    ELSE IF attempt >= max THEN "dead_letter" ELSE "retrying"

NextStatusAfterFailure(attempt, max, permanent) ==
    IF permanent \/ attempt >= max THEN "dead_letter" ELSE "retrying"

Failed(row, permanent) ==
    LET next == NextStatusAfterFailure(row.attempt, row.max, permanent)
    IN  [Released(row) EXCEPT !.status = next, !.runAfter = IF next = "dead_letter" THEN "past" ELSE "ahead"]

BugCanceledKeepsLease(row) == [row EXCEPT !.status = "canceled"]

Canceled(row) == [Released(row) EXCEPT !.status = "canceled"]

DeadLettered(row) == [Released(row) EXCEPT !.status = "dead_letter"]

BugRequeuedKeepsAttempt(row) ==
    [Released(row) EXCEPT !.status = "queued", !.runAfter = "past"]

Requeued(row) ==
    [Released(row) EXCEPT !.status = "queued", !.attempt = 0, !.runAfter = "past"]

Copied(row) ==
    [Default EXCEPT !.status = "queued", !.queue = row.queue, !.max = row.max]

(***************************************************************************)
(* The WHERE clauses.                                                      *)
(***************************************************************************)
Stolen(row) == row.status = "running" /\ row.lease = "expired"

BugClaimableEarly(row, q) ==
    /\ row.queue = q
    /\ row.status \in Waiting \/ (Stolen(row) /\ row.attempt < row.max)

BugClaimableLive(row, q) ==
    /\ row.queue = q
    /\ \/ row.status \in Waiting /\ row.runAfter = "past"
       \/ row.status = "running" /\ row.attempt < row.max

BugClaimableNoSteal(row, q) ==
    row.queue = q /\ row.status \in Waiting /\ row.runAfter = "past"

Claimable(row, q) ==
    /\ row.queue = q
    /\ \/ row.status \in Waiting /\ row.runAfter = "past"
       \/ Stolen(row) /\ row.attempt < row.max

BugExhaustedLive(row) == row.status = "running" /\ row.attempt >= row.max

Exhausted(row) == Stolen(row) /\ row.attempt >= row.max

BugParkableUnfenced(row, w, v) == Owned(row, w)

Parkable(row, w, v) == Owned(row, w) /\ row.wake = v

BugPrunableTerminal(row, q) == row.queue = q /\ row.status \in Terminal

Prunable(row, q) == row.queue = q /\ row.status \in {"succeeded", "canceled"}

(***************************************************************************)
(* The statements.                                                         *)
(***************************************************************************)
SetRow(j, row) == jobs' = [jobs EXCEPT ![j] = row]

Init == jobs = [j \in Job |-> Default]

\* A fresh key, or no key, inserts; a key some row has returns that row
\* unchanged, which is no step of the table.
Enqueue(j, q, m, d, k) ==
    /\ jobs[j].status = "absent"
    /\ k # NoKey => \A i \in Job : jobs[i].key # k
    /\ SetRow(j, Enqueued(q, m, d, k))

\* FOR UPDATE SKIP LOCKED LIMIT: any non-empty subset of the claimable rows,
\* since rows other transactions hold are skipped.
Claim(w, q, S) ==
    /\ S # {}
    /\ \A j \in S : Claimable(jobs[j], q)
    /\ jobs' = [j \in Job |-> IF j \in S THEN Claimed(jobs[j], w) ELSE jobs[j]]

Heartbeat(w, j) == Owned(jobs[j], w) /\ SetRow(j, Renewed(jobs[j]))

Suspend(w, j, v) ==
    Parkable(jobs[j], w, v) /\ SetRow(j, Suspended(jobs[j]))

Signal(j) ==
    /\ Active(jobs[j])
    /\ jobs[j].wake < MaxWake
    /\ SetRow(j, Woken(jobs[j]))

Complete(w, j) == Owned(jobs[j], w) /\ SetRow(j, Succeeded(jobs[j]))

Fail(w, j, permanent) ==
    Owned(jobs[j], w) /\ SetRow(j, Failed(jobs[j], permanent))

Cancel(j) == Active(jobs[j]) /\ SetRow(j, Canceled(jobs[j]))

BugRetryTerminal(j) ==
    jobs[j].status \in Terminal /\ SetRow(j, Requeued(jobs[j]))

RetryDeadLetter(j) ==
    jobs[j].status = "dead_letter" /\ SetRow(j, Requeued(jobs[j]))

Replay(j, i) ==
    /\ Exists(jobs[j])
    /\ jobs[i].status = "absent"
    /\ SetRow(i, Copied(jobs[j]))

\* One transaction sweeps every exhausted row of every queue that no other
\* transaction holds.
DeadLetterExhausted(S) ==
    /\ S # {}
    /\ \A j \in S : Exhausted(jobs[j])
    /\ jobs' = [j \in Job |-> IF j \in S THEN DeadLettered(jobs[j]) ELSE jobs[j]]

\* Deletes up to pruneBatchSize rows past the retention period.
PruneCompleted(q, S) ==
    /\ S # {}
    /\ \A j \in S : Prunable(jobs[j], q)
    /\ jobs' = [j \in Job |-> IF j \in S THEN Pruned ELSE jobs[j]]

(***************************************************************************)
(* now() advances past a lease deadline or a run_after.                    *)
(***************************************************************************)
LeaseExpires(j) ==
    /\ jobs[j].lease = "live"
    /\ SetRow(j, [jobs[j] EXCEPT !.lease = "expired"])

ComesDue(j) == jobs[j].runAfter = "ahead" /\ SetRow(j, [jobs[j] EXCEPT !.runAfter = "past"])

-----------------------------------------------------------------------------
RequestNext ==
    \E j \in Job :
        \/ \E q \in Queue \cup {NoQueue}, m \in RequestedMax,
              d \in {"past", "ahead"}, k \in Key \cup {NoKey} : Enqueue(j, q, m, d, k)
        \/ Signal(j)
        \/ Cancel(j)
        \/ RetryDeadLetter(j)
        \/ \E i \in Job : Replay(j, i)

WorkerNext ==
    \E w \in Worker :
        \/ \E q \in Queue, S \in SUBSET Job : Claim(w, q, S)
        \/ \E j \in Job :
              \/ Heartbeat(w, j)
              \/ \E v \in 0..MaxWake : Suspend(w, j, v)
              \/ Complete(w, j)
              \/ \E permanent \in BOOLEAN : Fail(w, j, permanent)

SweepNext ==
    \E S \in SUBSET Job :
        \/ DeadLetterExhausted(S)
        \/ \E q \in Queue : PruneCompleted(q, S)

TimeNext == \E j \in Job : LeaseExpires(j) \/ ComesDue(j)

Next == RequestNext \/ WorkerNext \/ SweepNext \/ TimeNext

Spec == Init /\ [][Next]_jobs

-----------------------------------------------------------------------------
(***************************************************************************)
(* What the table guarantees.                                              *)
(***************************************************************************)
\* Every row is a row.
TypeOK == jobs \in [Job -> Row]

\* Claim increments attempt without comparing it to max_attempts when it takes
\* a queued or retrying row, so every statement that puts a row back (Suspend,
\* Fail, RetryDeadLetter, Enqueue, Replay) must leave it an attempt to spend:
\* no interleaving of claims, lease steals, parks, failures and operator
\* retries runs a job more often than its budget allows.
AttemptBudget ==
    \A j \in Job :
        /\ jobs[j].status \in Waiting => jobs[j].attempt < jobs[j].max
        /\ jobs[j].status = "running" => jobs[j].attempt \in 1..jobs[j].max
        /\ jobs[j].attempt <= jobs[j].max

\* Signal relies on it (the comment over its last UPDATE): "a running job
\* always has run_after <= now()", also after a steal.
RunningIsDue == \A j \in Job : jobs[j].status = "running" => jobs[j].runAfter = "past"

\* A row has an owner and a deadline exactly while it runs: every statement
\* that ends a run clears both, or the sweep and Claim would misjudge it.
LeaseIffRunning ==
    \A j \in Job : /\ (jobs[j].status = "running") <=> (jobs[j].owner \in Worker)
                   /\ (jobs[j].status = "running") <=> (jobs[j].lease # "none")

\* Mutual exclusion: while a lease is live no statement hands the job to
\* another worker or charges another attempt.  (Who may end the run meanwhile
\* is LiveRunEndsItself of Execution.tla, which knows the runs.)
LiveLeaseIsKept ==
    [][\A j \in Job :
          jobs[j].lease = "live" /\ jobs'[j].status = "running"
              => /\ jobs'[j].owner = jobs[j].owner
                 /\ jobs'[j].attempt = jobs[j].attempt]_jobs

\* Seen job by job the table is the promised state machine: attempts are
\* charged one by one and only while some are left, a terminal job never moves
\* again unless an operator revives a dead-lettered one, and retention never
\* deletes a dead-lettered job.
Phase(row) == IF row.status \in Waiting THEN "waiting" ELSE row.status

Life == INSTANCE JobLifecycle
           WITH phase  <- [j \in Job |-> Phase(jobs[j])],
                budget <- [j \in Job |-> jobs[j].max],
                left   <- [j \in Job |-> jobs[j].max - jobs[j].attempt]

ImplementsLifecycle == Life!LifeSpec
=============================================================================
