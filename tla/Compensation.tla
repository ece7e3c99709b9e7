---------------------------- MODULE Compensation ----------------------------
(***************************************************************************)
(* What happens when a job is dead-lettered: the worker that put it there  *)
(* looks the job up again and runs the hook its registry has for the       *)
(* job's type (internal/engine/compensate.go).  Two goroutines of a worker *)
(* do so: the one that ran the job, after Fail, and the worker's loop,     *)
(* after a sweep.  No lease protects a compensation, and nothing records   *)
(* that one is due or done.                                                *)
(*                                                                         *)
(* All jobs have one workflow type; a worker runs one job at a time.       *)
(***************************************************************************)
EXTENDS JobStore

CONSTANTS
    Hooked,         \* workers whose registry has a hook for the jobs' type
    Nobody,         \* no job
    Faults,         \* what may go wrong: "crash", "error"
    MaxRevivals     \* bound: how often operators revive a job

ASSUME CompensationAssumption ==
    /\ Hooked \subseteq Worker
    /\ Nobody \notin Job
    /\ Faults \subseteq {"crash", "error"}
    /\ MaxRevivals \in Nat

VARIABLES
    work,       \* the job each worker's slot executes
    reaped,     \* the jobs a worker's sweep returned and it has yet to look up
    comp,       \* the compensations under way
    died,       \* history: the jobs that were dead-lettered at least once
    undone,     \* history: hook runs since the job's latest dead-lettering
    lost,       \* history: jobs whose compensation a fault or a missing hook ate
    revivals    \* how often operators have revived a job

compVars == <<jobs, work, reaped, comp, died, undone, lost, revivals>>

\* Who may be compensating: a worker's run, or its loop.
Agent == Worker \X {"run", "loop"}
Of(a) == a[1]

NoComp == [pc |-> "idle", job |-> Nobody]
Compensates(a, pc, j) == comp' = [comp EXCEPT ![a] = [pc |-> pc, job |-> j]]

\* The loop claims and sweeps between compensations; a slot is held until the
\* run's compensation has ended.
LoopFree(w) == reaped[w] = {} /\ comp[<<w, "loop">>].pc = "idle"

BugSlotFree(w) == work[w] = Nobody

SlotFree(w) == work[w] = Nobody /\ comp[<<w, "run">>].pc = "idle"

\* A step has dead-lettered the jobs of S, and its caller has learnt so or not.
Dies(S, answered) ==
    /\ died' = died \cup S
    /\ undone' = [j \in Job |-> IF j \in S THEN 0 ELSE undone[j]]
    /\ lost' = IF answered THEN lost \ S ELSE lost \cup S

\* Whether a store call that took effect is answered.
Answers == IF "error" \in Faults THEN {TRUE, FALSE} ELSE {TRUE}

-----------------------------------------------------------------------------
ClaimJob(w) ==
    /\ LoopFree(w) /\ SlotFree(w)
    /\ \E q \in Queue, j \in Job : Claim(w, q, {j}) /\ work' = [work EXCEPT ![w] = j]
    /\ UNCHANGED <<reaped, comp, died, undone, lost, revivals>>

\* Fail succeeds: compensate, which decides for itself whether the job is dead.
FailRun(w, permanent) ==
    LET j == work[w]
    IN  /\ j # Nobody
        /\ Fail(w, j, permanent)
        /\ work' = [work EXCEPT ![w] = Nobody]
        /\ \E answered \in Answers :
              /\ Dies(IF jobs'[j].status = "dead_letter" THEN {j} ELSE {}, answered)
              /\ IF answered THEN Compensates(<<w, "run">>, "lookup", j)
                             ELSE UNCHANGED comp
        /\ UNCHANGED <<reaped, revivals>>

CompleteRun(w) ==
    /\ work[w] # Nobody
    /\ Complete(w, work[w])
    /\ work' = [work EXCEPT ![w] = Nobody]
    /\ UNCHANGED <<reaped, comp, died, undone, lost, revivals>>

\* The lease is lost: whatever the run writes is rejected.
RejectedRun(w) ==
    /\ work[w] # Nobody /\ ~Owned(jobs[work[w]], w)
    /\ work' = [work EXCEPT ![w] = Nobody]
    /\ UNCHANGED <<jobs, reaped, comp, died, undone, lost, revivals>>

BugReaps(w, S) == UNCHANGED reaped

Reaps(w, S) == reaped' = [reaped EXCEPT ![w] = S]

\* One sweep reaps the exhausted jobs of every queue.
SweepAll(w) ==
    /\ LoopFree(w)
    /\ \E S \in SUBSET Job :
          /\ DeadLetterExhausted(S)
          /\ \E answered \in Answers :
                /\ Dies(S, answered)
                /\ IF answered THEN Reaps(w, S) ELSE UNCHANGED reaped
    /\ UNCHANGED <<work, comp, revivals>>

\* The loop compensates the swept jobs one after the other.
TakeReaped(w) ==
    /\ comp[<<w, "loop">>].pc = "idle"
    /\ \E j \in reaped[w] : /\ Compensates(<<w, "loop">>, "lookup", j)
                            /\ reaped' = [reaped EXCEPT ![w] = @ \ {j}]
    /\ UNCHANGED <<jobs, work, died, undone, lost, revivals>>

BugToCompensate(a, j) == Of(a) \in Hooked

ToCompensate(a, j) == jobs[j].status = "dead_letter" /\ Of(a) \in Hooked

\* Store.Get and the two checks of compensate.
Lookup(a) ==
    /\ comp[a].pc = "lookup"
    /\ \E answered \in Answers :
          LET j    == comp[a].job
              hook == answered /\ ToCompensate(a, j)
          IN  /\ comp' = [comp EXCEPT ![a] = IF hook THEN [@ EXCEPT !.pc = "hook"] ELSE NoComp]
              /\ lost' = IF ~hook /\ jobs[j].status = "dead_letter" THEN lost \cup {j} ELSE lost
    /\ UNCHANGED <<jobs, work, reaped, died, undone, revivals>>

\* The hook takes effect.
RunHook(a) ==
    /\ comp[a].pc = "hook"
    /\ undone' = [undone EXCEPT ![comp[a].job] = @ + 1]
    /\ comp' = [comp EXCEPT ![a] = NoComp]
    /\ UNCHANGED <<jobs, work, reaped, died, lost, revivals>>

Crash(w) ==
    /\ "crash" \in Faults
    /\ ~LoopFree(w) \/ ~SlotFree(w)
    /\ work' = [work EXCEPT ![w] = Nobody]
    /\ reaped' = [reaped EXCEPT ![w] = {}]
    /\ comp' = [a \in Agent |-> IF Of(a) = w THEN NoComp ELSE comp[a]]
    /\ lost' = lost \cup reaped[w] \cup {comp[a].job : a \in {b \in Agent : Of(b) = w /\ comp[b] # NoComp}}
    /\ UNCHANGED <<jobs, died, undone, revivals>>

-----------------------------------------------------------------------------
\* dlq retry: the job starts over from its checkpoints.
Revive(j) ==
    /\ revivals < MaxRevivals
    /\ RetryDeadLetter(j)
    /\ revivals' = revivals + 1
    /\ UNCHANGED <<work, reaped, comp, died, undone, lost>>

Outside(j) ==
    /\ Cancel(j) \/ LeaseExpires(j) \/ ComesDue(j)
    /\ UNCHANGED <<work, reaped, comp, died, undone, lost, revivals>>

CompInit ==
    /\ \E m \in [Job -> RequestedMax] :
          jobs = [j \in Job |-> Enqueued(DefaultQueue, m[j], "past", NoKey)]
    /\ work = [w \in Worker |-> Nobody]
    /\ reaped = [w \in Worker |-> {}]
    /\ comp = [a \in Agent |-> NoComp]
    /\ died = {}
    /\ lost = {}
    /\ undone = [j \in Job |-> 0]
    /\ revivals = 0

EndRun(w) == \/ \E permanent \in BOOLEAN : FailRun(w, permanent)
             \/ CompleteRun(w) \/ RejectedRun(w)

WorkerStep(w) == ClaimJob(w) \/ EndRun(w) \/ SweepAll(w) \/ TakeReaped(w) \/ Crash(w)

CompNext ==
    \/ \E w \in Worker : WorkerStep(w)
    \/ \E a \in Agent : Lookup(a) \/ RunHook(a)
    \/ \E j \in Job : Revive(j) \/ Outside(j)

CompSpec == CompInit /\ [][CompNext]_compVars

\* Goroutines run and store calls return.
FairCompSpec ==
    /\ CompSpec
    /\ \A w \in Worker : WF_compVars(TakeReaped(w))
    /\ \A a \in Agent : WF_compVars(Lookup(a) \/ RunHook(a))

-----------------------------------------------------------------------------
(***************************************************************************)
(* What compensation guarantees.                                           *)
(***************************************************************************)
\* Workers and compensations are well formed; a slot that compensates runs no
\* other job meanwhile.
CompTypeOK ==
    /\ work \in [Worker -> Job \cup {Nobody}]
    /\ \A w \in Worker :
          /\ reaped[w] \subseteq died
          /\ comp[<<w, "run">>] # NoComp => work[w] = Nobody
    /\ \A a \in Agent :
          \/ comp[a] = NoComp
          \/ comp[a].pc \in {"lookup", "hook"} /\ comp[a].job \in Job
    /\ revivals <= MaxRevivals

\* A job is never unwound unless it was dead-lettered: compensate is called
\* after every recorded failure, and decides by a row it reads later, when
\* other workers may have claimed, finished, canceled or revived the job.
OnlyTheDead == \A j \in Job : undone[j] > 0 => j \in died

\* Unless a crash, a lost answer or a worker without the hook eats it, a
\* dead-lettered job is unwound by the worker that put it there, be it a run or
\* a sweep, or it is revived.
EventuallyUnwound ==
    \A j \in Job :
        jobs[j].status = "dead_letter"
            ~> (undone[j] > 0 \/ j \in lost \/ jobs[j].status # "dead_letter")

\* docs/workflows.md: the hook "runs once when a job of that type
\* dead-letters".
UnwoundOnce == \A j \in Job : undone[j] <= 1
=============================================================================
