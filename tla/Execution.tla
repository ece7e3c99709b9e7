----------------------------- MODULE Execution -----------------------------
(***************************************************************************)
(* The jobs table composed with the worker processes that run the jobs.    *)
(* A worker has as many slots (Run) as its Concurrency; a slot is one      *)
(* runJob goroutine with its heartbeat.  Every store call of a run is a    *)
(* step of its own, so calls of several runs, operators and time           *)
(* interleave between any two of them.                                     *)
(*                                                                         *)
(* The workflow waits for the signals #0 .. #Waits-1 of one name in turn   *)
(* (WaitSignalAt) and returns; its own code may fail around the waits.     *)
(* Signals carry no payload here: SignalDelivery.tla looks at what is      *)
(* delivered in which order, statement by statement.                       *)
(***************************************************************************)
EXTENDS JobStore

CONSTANTS
    Run,            \* execution slots
    None,           \* no slot, no job
    WorkerOf,       \* the worker id a slot writes as lease_owner
    QueueOf,        \* the queue a worker claims from
    Waits,          \* how many signals the workflow waits for
    Faults          \* what may go wrong: "crash", "stall", "error"

ASSUME ExecutionAssumption ==
    /\ WorkerOf \in [Run -> Worker]
    /\ QueueOf \in [Worker -> Queue]
    /\ None \notin Run
    /\ Waits \in Nat
    /\ Faults \subseteq {"crash", "stall", "error"}

VARIABLES
    run,        \* what each slot is doing
    mail,       \* how many signals each job's mailbox holds
    saved,      \* the signal checkpoints in job_steps, by index
    holder      \* history: the slot that claimed the job last

vars == <<jobs, run, mail, saved, holder>>

(***************************************************************************)
(* A run executes the workflow (load .. insert), then makes exactly one    *)
(* final write (suspend, fail, permanent or complete).                     *)
(***************************************************************************)
Cancelable == {"load", "poll", "recheck"}
Executing  == Cancelable \cup {"check", "insert"}
Ending     == {"suspend", "fail", "permanent", "complete"}

Idle == [pc |-> "idle", job |-> None, wake |-> 0, at |-> 0, ctx |-> "live"]

RunState == [pc : Executing \cup Ending \cup {"idle"}, job : Job \cup {None},
             wake : Nat, at : 0..Waits, ctx : {"live", "canceled"}]

Busy(r) == run[r].pc # "idle"
JobOf(r) == jobs[run[r].job]
Owns(r) == Owned(JobOf(r), WorkerOf[r])

BugResume(r, i) == [run[r] EXCEPT !.pc = IF i <= Waits THEN "load" ELSE "complete",
                                  !.at = i]

\* The workflow is about to wait for signal #i, or has all it waits for.
Resume(r, i) == [run[r] EXCEPT !.pc = IF i < Waits THEN "load" ELSE "complete",
                               !.at = i]

Become(r, pc) == run' = [run EXCEPT ![r].pc = pc]
Advance(r) == run' = [run EXCEPT ![r] = Resume(r, run[r].at + 1)]

Started(j) == [pc |-> IF Waits = 0 THEN "complete" ELSE "load", job |-> j,
               wake |-> jobs[j].wake, at |-> 0, ctx |-> "live"]

-----------------------------------------------------------------------------
(***************************************************************************)
(* The worker loop: claim as many jobs as there are free slots and start   *)
(* a run for each.                                                         *)
(***************************************************************************)
FreeSlots(w) == {r \in Run : WorkerOf[r] = w /\ ~Busy(r)}

\* The ways to start a run for each job of S, each in a slot of its own.
Placements(w, S) ==
    {place \in [S -> FreeSlots(w)] :
        \A i, j \in S : place[i] = place[j] => i = j}

ClaimJobs(w) ==
    \E S \in SUBSET Job :
        /\ Claim(w, QueueOf[w], S)
        /\ \E place \in Placements(w, S) :
              LET jobIn(r) == CHOOSE j \in S : place[j] = r
                  used     == {place[j] : j \in S}
              IN  /\ run' = [r \in Run |-> IF r \in used THEN Started(jobIn(r))
                                           ELSE run[r]]
                  /\ holder' = [j \in Job |-> IF j \in S THEN place[j]
                                              ELSE holder[j]]
    /\ UNCHANGED <<mail, saved>>

\* The claim commits but its answer is lost: nobody runs what it claimed.
ClaimLost(w) ==
    /\ "error" \in Faults
    /\ \E S \in SUBSET Job :
          /\ Claim(w, QueueOf[w], S)
          /\ Placements(w, S) # {}
          /\ holder' = [j \in Job |-> IF j \in S THEN None ELSE holder[j]]
    /\ UNCHANGED <<run, mail, saved>>

Sweep ==
    /\ \E S \in SUBSET Job : DeadLetterExhausted(S)
    /\ UNCHANGED <<run, mail, saved, holder>>

\* Deleting a job cascades to its signals and steps.
Prune(w) ==
    \E S \in SUBSET Job :
        /\ PruneCompleted(QueueOf[w], S)
        /\ mail' = [j \in Job |-> IF j \in S THEN 0 ELSE mail[j]]
        /\ saved' = [j \in Job |-> IF j \in S THEN {} ELSE saved[j]]
        /\ UNCHANGED <<run, holder>>

-----------------------------------------------------------------------------
(***************************************************************************)
(* One run: WaitSignalAt, which goes through RunStep to save.              *)
(***************************************************************************)
Live(r, pc) == run[r].pc = pc /\ run[r].ctx = "live"

\* GetStep: a checkpointed wait returns at once.
LoadStep(r) ==
    /\ Live(r, "load")
    /\ IF run[r].at \in saved[run[r].job] THEN Advance(r) ELSE Become(r, "poll")
    /\ UNCHANGED <<jobs, mail, saved, holder>>

BugDelivered(j, i) == i <= mail[j]

Delivered(j, i) == i < mail[j]

\* GetSignalAt: no delivery yet, so give up the slot.
PollSignal(r) ==
    /\ Live(r, "poll")
    /\ Become(r, IF Delivered(run[r].job, run[r].at) THEN "recheck" ELSE "suspend")
    /\ UNCHANGED <<jobs, mail, saved, holder>>

\* RunStep looks for the checkpoint again before it saves one.
RecheckStep(r) ==
    /\ Live(r, "recheck")
    /\ IF run[r].at \in saved[run[r].job] THEN Advance(r) ELSE Become(r, "check")
    /\ UNCHANGED <<jobs, mail, saved, holder>>

\* SaveStep, first statement: is the job still ours?  It locks nothing.
CheckOwner(r) ==
    /\ run[r].pc = "check"
    /\ Become(r, IF Owns(r) THEN "insert" ELSE "fail")
    /\ UNCHANGED <<jobs, mail, saved, holder>>

\* SaveStep, second statement: first write wins; a job pruned meanwhile
\* violates the foreign key.
InsertStep(r) ==
    /\ run[r].pc = "insert"
    /\ IF Exists(JobOf(r))
       THEN /\ saved' = [saved EXCEPT ![run[r].job] = @ \cup {run[r].at}]
            /\ Advance(r)
       ELSE Become(r, "fail") /\ UNCHANGED saved
    /\ UNCHANGED <<jobs, mail, holder>>

\* After cancel() every store call but SaveStep's, which runs on a context
\* without cancel, fails with the context's error.
Aborts(r) ==
    /\ run[r].ctx = "canceled" /\ run[r].pc \in Cancelable
    /\ Become(r, "fail")
    /\ UNCHANGED <<jobs, mail, saved, holder>>

\* The workflow's own code returns an error (or panics), or a store call
\* errs; a final write that errs is logged and forgotten.
Errs(r) ==
    /\ "error" \in Faults
    /\ \/ run[r].pc \in {"load", "complete"} /\ Become(r, "permanent")
       \/ run[r].pc \in Executing \cup {"complete"} /\ Become(r, "fail")
       \/ run[r].pc \in Ending /\ run' = [run EXCEPT ![r] = Idle]
    /\ UNCHANGED <<jobs, mail, saved, holder>>

(***************************************************************************)
(* The final write.  A rejected one changes nothing; the slot is free      *)
(* either way.                                                             *)
(***************************************************************************)
FinalWrite(r) ==
    LET w == WorkerOf[r]  j == run[r].job
    IN  \/ run[r].pc = "suspend"   /\ Suspend(w, j, run[r].wake)
        \/ run[r].pc = "complete"  /\ Complete(w, j)
        \/ run[r].pc = "fail"      /\ Fail(w, j, FALSE)
        \/ run[r].pc = "permanent" /\ Fail(w, j, TRUE)

Rejected(r) ==
    /\ run[r].pc \in Ending
    /\ ~Owns(r) \/ (run[r].pc = "suspend" /\ ~Parkable(JobOf(r), WorkerOf[r], run[r].wake))
    /\ UNCHANGED jobs

Finish(r) ==
    /\ FinalWrite(r) \/ Rejected(r)
    /\ run' = [run EXCEPT ![r] = Idle]
    /\ UNCHANGED <<mail, saved, holder>>

(***************************************************************************)
(* The heartbeat goroutine of a run.  A heartbeat that was already due     *)
(* when the workflow returned may still be sent: the final write waits     *)
(* for it.                                                                 *)
(***************************************************************************)
Renew(r) ==
    /\ Busy(r) /\ run[r].ctx = "live"
    /\ Heartbeat(WorkerOf[r], run[r].job)
    /\ UNCHANGED <<run, mail, saved, holder>>

\* The heartbeat is rejected, or has failed for so long that the lease is
\* presumed lost: cancel the workflow's context.
LoseLease(r) ==
    /\ run[r].pc \in Executing /\ run[r].ctx = "live"
    /\ ~Owns(r) \/ "stall" \in Faults
    /\ run' = [run EXCEPT ![r].ctx = "canceled"]
    /\ UNCHANGED <<jobs, mail, saved, holder>>

\* The process dies and starts again with the same worker id (by default
\* the host name).
Crash(w) ==
    /\ "crash" \in Faults
    /\ \E r \in Run : WorkerOf[r] = w /\ Busy(r)
    /\ run' = [r \in Run |-> IF WorkerOf[r] = w THEN Idle ELSE run[r]]
    /\ UNCHANGED <<jobs, mail, saved, holder>>

-----------------------------------------------------------------------------
(***************************************************************************)
(* Clients, operators and time.                                            *)
(***************************************************************************)
Deliver(j) ==
    /\ Signal(j)
    /\ mail' = [mail EXCEPT ![j] = @ + 1]
    /\ UNCHANGED <<run, saved, holder>>

\* (Replay adds a job like any other: it is Enqueue with another job's queue
\* and budget.)
Request(j) ==
    /\ \/ \E q \in Queue, m \in RequestedMax, d \in {"past", "ahead"} :
             Enqueue(j, q, m, d, NoKey)
       \/ Cancel(j)
       \/ RetryDeadLetter(j)
    /\ UNCHANGED <<run, mail, saved, holder>>

\* Without stalls a lease lapses only when nobody renews it any more.
Attended(j) == \E r \in Run : /\ Busy(r) /\ run[r].job = j
                             /\ Owns(r) /\ run[r].ctx = "live"

LeaseLapses(j) ==
    /\ "stall" \in Faults \/ ~Attended(j)
    /\ LeaseExpires(j)
    /\ UNCHANGED <<run, mail, saved, holder>>

TimerFires(j) == ComesDue(j) /\ UNCHANGED <<run, mail, saved, holder>>

-----------------------------------------------------------------------------
ExecInit ==
    /\ Init
    /\ run = [r \in Run |-> Idle]
    /\ mail = [j \in Job |-> 0]
    /\ saved = [j \in Job |-> {}]
    /\ holder = [j \in Job |-> None]

\* What the goroutine of a run does by itself.
Proceed(r) == \/ LoadStep(r) \/ PollSignal(r) \/ RecheckStep(r)
              \/ CheckOwner(r) \/ InsertStep(r) \/ Aborts(r) \/ Finish(r)

RunNext == \E r \in Run : Proceed(r) \/ Errs(r) \/ Renew(r) \/ LoseLease(r)

LoopNext == \/ \E w \in Worker : ClaimJobs(w) \/ ClaimLost(w) \/ Prune(w) \/ Crash(w)
            \/ Sweep

OutsideNext == \E j \in Job : \/ Deliver(j) \/ Request(j)
                              \/ LeaseLapses(j) \/ TimerFires(j)

ExecNext == RunNext \/ LoopNext \/ OutsideNext

ExecSpec == ExecInit /\ [][ExecNext]_vars

\* The Go scheduler runs every goroutine, a store call returns (or times out,
\* 5s), each worker's loop polls and sweeps by ticker, and time passes.
Fairness ==
    /\ \A r \in Run : WF_vars(Proceed(r))
    /\ \A w \in Worker : WF_vars(ClaimJobs(w))
    /\ WF_vars(Sweep)
    /\ \A j \in Job : WF_vars(LeaseLapses(j)) /\ WF_vars(TimerFires(j))

FairExecSpec == ExecSpec /\ Fairness

-----------------------------------------------------------------------------
(***************************************************************************)
(* What the composition guarantees.                                        *)
(***************************************************************************)
\* The executions' state is well formed; a run never waits for a signal the
\* workflow does not ask for.
ExecTypeOK ==
    /\ run \in [Run -> RunState]
    /\ \A r \in Run : /\ Busy(r) => run[r].job \in Job
                      /\ run[r].pc \in Executing => run[r].at < Waits
    /\ mail \in [Job -> Nat]
    /\ saved \in [Job -> SUBSET (0..Waits - 1)]
    /\ holder \in [Job -> Run \cup {None}]

\* The park race migration 007 closes: however a mailbox check, a signal and
\* a park interleave, also across lease steals, cancels and operator retries,
\* no job is asleep while its mailbox holds a signal it still waits for.
NoLostWakeup ==
    \A j \in Job :
        jobs[j].status = "queued" /\ jobs[j].runAfter = "ahead"
            => \A i \in 0..Waits - 1 : i < mail[j] => i \in saved[j]

\* A checkpoint stands for a delivery, checkpoints have no gaps although
\* stale runs may insert one after they lost the job, and a job succeeds only
\* when it has consumed every signal it waits for.
ConsumedDelivered ==
    \A j \in Job :
        /\ \A i \in saved[j] : i < mail[j] /\ 0..i \subseteq saved[j]
        /\ jobs[j].status = "succeeded" => 0..Waits - 1 \subseteq saved[j]

\* A final write changes the table only if its run holds the latest claim of
\* the job: a run that was stolen from can neither complete, fail nor park it.
WritesAreFenced ==
    [][\A r \in Run :
          run[r].pc \in Ending /\ run'[r].pc = "idle" /\ jobs' # jobs
              => holder[run[r].job] = r]_vars

\* The same of parking alone, as engine/store.go says of Suspend: it parks only
\* when the version "still matches the claim", and reports false after a
\* "lease steal".
ParkIsFenced ==
    [][\A r \in Run :
          run[r].pc = "suspend" /\ run'[r].pc = "idle" /\ jobs' # jobs
              => holder[run[r].job] = r]_vars

\* While its lease is live a run is ended by its worker's own final write, or by
\* a cancel: neither a sweep nor another worker's late answer takes it away.
LiveRunEndsItself ==
    [][\A j \in Job :
          jobs[j].lease = "live" /\ jobs'[j].status # "running"
              => \/ jobs'[j].status = "canceled"
                 \/ \E r \in Run : /\ WorkerOf[r] = jobs[j].owner /\ run[r].job = j
                                  /\ run[r].pc \in Ending /\ run'[r].pc = "idle"]_vars

\* docs/workflows.md: waits do not "consume retry attempts".  With no crash, no
\* stall and no error nothing but waiting ever happens to a job, so its first
\* attempt is also its last.
WaitingIsFree == \A j \in Job : jobs[j].attempt <= 1

\* A job all of whose signals are delivered is not left behind: whatever
\* crashed, stalled, was refused or stolen, it ends (or an operator ends it).
Settles ==
    \A j \in Job :
        Active(jobs[j]) /\ mail[j] >= Waits ~> ~Active(jobs[j])
=============================================================================
