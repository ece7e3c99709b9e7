------------------------------ MODULE Children ------------------------------
(***************************************************************************)
(* A parent workflow that waits for children and timers: ExecuteChild and  *)
(* Sleep, in and out of activities, on the jobs table.                     *)
(*                                                                         *)
(* The parent's runs are followed call by call, each store call a step.    *)
(* The children are jobs like any other; whatever their workflows do, the  *)
(* table sees claims, completions and failures.  A canceled context is an  *)
(* error of the next call.                                                 *)
(***************************************************************************)
EXTENDS JobStore, Sequences

CONSTANTS
    Parent,         \* the job whose workflow makes the calls
    ParentQueue,    \* the queue it was enqueued on
    Calls,          \* what it waits for, in order: see Call
    Served,         \* the queues some worker claims from
    Slot,           \* slots that may run the parent
    WorkerOf,       \* the worker id of a slot
    None,           \* no value
    MaxTimers,      \* bound: how many deadlines are computed
    MaxTroubles     \* bound: how many failures and operator calls happen

\* A call is Sleep or ExecuteChild of a name, in the frame of an activity or at
\* the top level.  Its checkpoint is scoped by the frame; a child's key is not.
Call == [kind : {"sleep", "child"}, name : Key, frame : {"", "activity"}]

ASSUME ChildrenAssumption ==
    /\ Parent \in Job /\ ParentQueue \in Queue /\ Served \subseteq Queue
    /\ Calls \in Seq(Call) /\ Len(Calls) > 0
    /\ \A i, k \in 1..Len(Calls) : Calls[i] = Calls[k] => i = k
    /\ WorkerOf \in [Slot -> Worker]
    /\ MaxTimers \in Nat /\ MaxTroubles \in Nat /\ None \notin Job \cup Nat

VARIABLES
    run,        \* the runs of the parent
    saved,      \* the checkpoint of each call: a child's id or a deadline
    timers,     \* how many deadlines were computed: a deadline is a number
    elapsed,    \* the deadlines that have passed by the workers' clocks
    kids,       \* history: the jobs each name was enqueued as
    succeeded,  \* history: the jobs that ever succeeded
    troubles    \* how many failures and operator calls there were

childVars == <<jobs, run, saved, timers, elapsed, kids, succeeded, troubles>>

-----------------------------------------------------------------------------
Idle == [pc |-> "idle", at |-> 1, got |-> None, wake |-> 0]

Calling == {"load", "do", "save", "insert", "look"}
Ending  == {"suspend", "fail", "permanent", "complete"}

At(r, pc) == run[r].pc = pc
Busy(r) == ~At(r, "idle")
call(r) == Calls[run[r].at]
Owns(r) == Owned(jobs[Parent], WorkerOf[r])

Goes(r, pc) == run' = [run EXCEPT ![r].pc = pc]
Gets(r, v, pc) == run' = [run EXCEPT ![r].pc = pc, ![r].got = v]

BugAdvances(r) ==
    run' = [run EXCEPT ![r].pc = IF run[r].at <= Len(Calls) THEN "load" ELSE "complete",
                       ![r].at = IF run[r].at <= Len(Calls) THEN @ + 1 ELSE @,
                       ![r].got = None]

\* The call returns: on to the next one, or the workflow is done.
Advances(r) ==
    run' = [run EXCEPT ![r].pc = IF run[r].at < Len(Calls) THEN "load" ELSE "complete",
                       ![r].at = IF run[r].at < Len(Calls) THEN @ + 1 ELSE @,
                       ![r].got = None]

Trouble == troubles < MaxTroubles /\ troubles' = troubles + 1

\* RunStep: the checkpointed value, or compute one.
LoadStep(r) ==
    /\ At(r, "load")
    /\ IF saved[run[r].at] # None THEN Gets(r, saved[run[r].at], "look")
       ELSE Goes(r, "do")
    /\ UNCHANGED <<jobs, saved, timers, elapsed, kids, succeeded, troubles>>

\* pushFrame copies the runner without its queue: a child of an activity is
\* enqueued with an empty queue name.
ChildQueue(c) == IF c.frame = "" THEN jobs[Parent].queue ELSE NoQueue

BugChildKey(c) == NoKey

\* "child:" + parent + ":" + name
ChildKey(c) == c.name

\* gen_random_uuid(): which of the unused ids it is makes no difference.  (Job
\* bounds how many there are.)
Fresh == {j \in Job : jobs[j].status = "absent"}
FreshId == CHOOSE j \in Fresh : TRUE

\* Enqueue finds the job that has the key, or inserts one; parent_id must be
\* the id of a row.
Spawn(r) ==
    LET key == ChildKey(call(r))
    IN  /\ At(r, "do") /\ call(r).kind = "child"
        /\ \/ \E j \in Job : /\ key # NoKey /\ jobs[j].key = key
                             /\ Gets(r, j, "save")
                             /\ UNCHANGED <<jobs, kids>>
           \/ /\ Exists(jobs[Parent]) /\ Fresh # {}
              /\ Enqueue(FreshId, ChildQueue(call(r)), 0, "past", key)
              /\ Gets(r, FreshId, "save")
              /\ kids' = [kids EXCEPT ![call(r).name] = @ \cup {FreshId}]
           \/ /\ ~Exists(jobs[Parent])
              /\ key = NoKey \/ \A j \in Job : jobs[j].key # key
              /\ Goes(r, "fail")
              /\ UNCHANGED <<jobs, kids>>
        /\ UNCHANGED <<saved, timers, elapsed, succeeded, troubles>>

\* Sleep computes its deadline by the worker's clock.
SetTimer(r) ==
    /\ At(r, "do") /\ call(r).kind = "sleep"
    /\ timers < MaxTimers
    /\ timers' = timers + 1
    /\ Gets(r, timers + 1, "save")
    /\ UNCHANGED <<jobs, saved, elapsed, kids, succeeded, troubles>>

BugStored(r) == run[r].got

\* First write wins, and the winner's value is returned.
Stored(r) == IF saved[run[r].at] = None THEN run[r].got ELSE saved[run[r].at]

\* SaveStep: the ownership check, which locks nothing, then the insert.
CheckOwner(r) ==
    /\ At(r, "save")
    /\ Goes(r, IF Owns(r) THEN "insert" ELSE "fail")
    /\ UNCHANGED <<jobs, saved, timers, elapsed, kids, succeeded, troubles>>

InsertStep(r) ==
    /\ At(r, "insert")
    /\ IF Exists(jobs[Parent])
       THEN /\ saved' = [saved EXCEPT ![run[r].at] = IF @ = None THEN run[r].got ELSE @]
            /\ Gets(r, Stored(r), "look")
       ELSE Goes(r, "fail") /\ UNCHANGED saved
    /\ UNCHANGED <<jobs, timers, elapsed, kids, succeeded, troubles>>

BugVerdictAsleep(status) ==
    CASE status = "succeeded" -> "return"
      [] status \in {"dead_letter", "canceled"} -> "permanent"
      [] OTHER -> "suspend"

BugVerdict(status) ==
    CASE status \in Terminal -> "return"
      [] status \in NoRow -> "fail"
      [] OTHER -> "suspend"

\* GetJob: a child that is gone is an ordinary error.
Verdict(status) ==
    CASE status = "succeeded" -> "return"
      [] status \in {"dead_letter", "canceled"} -> "permanent"
      [] status \in NoRow -> "fail"
      [] OTHER -> "suspend"

LookAtChild(r) ==
    /\ At(r, "look") /\ call(r).kind = "child"
    /\ LET verdict == Verdict(jobs[run[r].got].status)
       IN  IF verdict = "return" THEN Advances(r) ELSE Goes(r, verdict)
    /\ UNCHANGED <<jobs, saved, timers, elapsed, kids, succeeded, troubles>>

LookAtClock(r) ==
    /\ At(r, "look") /\ call(r).kind = "sleep"
    /\ IF run[r].got \in elapsed THEN Advances(r) ELSE Goes(r, "suspend")
    /\ UNCHANGED <<jobs, saved, timers, elapsed, kids, succeeded, troubles>>

-----------------------------------------------------------------------------
(***************************************************************************)
(* The parent's worker.                                                    *)
(***************************************************************************)
ClaimParent(r) ==
    /\ At(r, "idle")
    /\ \E q \in Served : Claim(WorkerOf[r], q, {Parent})
    /\ run' = [run EXCEPT ![r] = [Idle EXCEPT !.pc = "load", !.wake = jobs[Parent].wake]]
    /\ UNCHANGED <<saved, timers, elapsed, kids, succeeded, troubles>>

FinalWrite(r) ==
    LET w == WorkerOf[r]
    IN  \/ At(r, "suspend")   /\ Suspend(w, Parent, run[r].wake)
        \/ At(r, "fail")      /\ Fail(w, Parent, FALSE)
        \/ At(r, "permanent") /\ Fail(w, Parent, TRUE)
        \/ At(r, "complete")  /\ Complete(w, Parent)

\* A final write by a run that lost the job changes nothing.
Finish(r) ==
    /\ run[r].pc \in Ending
    /\ FinalWrite(r) \/ (~Owns(r) /\ UNCHANGED jobs)
    /\ run' = [run EXCEPT ![r] = Idle]
    /\ UNCHANGED <<saved, timers, elapsed, kids, succeeded, troubles>>

\* A call errs, or the process dies.
Errs(r) ==
    /\ Trouble
    /\ \/ run[r].pc \in Calling /\ Goes(r, "fail")
       \/ Busy(r) /\ run' = [run EXCEPT ![r] = Idle]
    /\ UNCHANGED <<jobs, saved, timers, elapsed, kids, succeeded>>

(***************************************************************************)
(* The children, operators, retention and time.                            *)
(***************************************************************************)
ClaimChild(w, j) ==
    /\ j # Parent
    /\ \E q \in Served : Claim(w, q, {j})
    /\ UNCHANGED <<run, saved, timers, elapsed, kids, succeeded, troubles>>

ChildReturns(w, j) ==
    /\ j # Parent
    /\ Complete(w, j)
    /\ succeeded' = succeeded \cup {j}
    /\ UNCHANGED <<run, saved, timers, elapsed, kids, troubles>>

ChildFails(w, j) ==
    /\ j # Parent /\ Trouble
    /\ \E permanent \in BOOLEAN : Fail(w, j, permanent)
    /\ UNCHANGED <<run, saved, timers, elapsed, kids, succeeded>>

Operator(j) ==
    /\ Trouble
    /\ Cancel(j) \/ RetryDeadLetter(j)
    /\ UNCHANGED <<run, saved, timers, elapsed, kids, succeeded>>

\* Deleting the parent deletes its checkpoints; its children stay.
Prune(q) ==
    \E S \in SUBSET Job :
        /\ PruneCompleted(q, S)
        /\ saved' = IF Parent \in S THEN [i \in DOMAIN saved |-> None] ELSE saved
        /\ UNCHANGED <<run, timers, elapsed, kids, succeeded, troubles>>

Sweep ==
    /\ \E S \in SUBSET Job : DeadLetterExhausted(S)
    /\ UNCHANGED <<run, saved, timers, elapsed, kids, succeeded, troubles>>

\* A lease runs out when its holder died or stalls.
Attended(j) == j = Parent /\ \E r \in Slot : Busy(r) /\ Owns(r)

LeaseLapses(j) ==
    /\ LeaseExpires(j)
    /\ IF j # Parent \/ Attended(j) THEN Trouble ELSE UNCHANGED troubles
    /\ UNCHANGED <<run, saved, timers, elapsed, kids, succeeded>>

TimerFires(j) ==
    /\ ComesDue(j)
    /\ UNCHANGED <<run, saved, timers, elapsed, kids, succeeded, troubles>>

Elapses(t) ==
    /\ t \in 1..timers \ elapsed
    /\ elapsed' = elapsed \cup {t}
    /\ UNCHANGED <<jobs, run, saved, timers, kids, succeeded, troubles>>

-----------------------------------------------------------------------------
ChildInit ==
    /\ \E m \in RequestedMax :
          jobs = [j \in Job |-> IF j = Parent THEN Enqueued(ParentQueue, m, "past", NoKey)
                                ELSE Default]
    /\ run = [r \in Slot |-> Idle]
    /\ saved = [i \in 1..Len(Calls) |-> None]
    /\ timers = 0
    /\ elapsed = {}
    /\ kids = [k \in Key |-> {}]
    /\ succeeded = {}
    /\ troubles = 0

Proceed(r) == \/ LoadStep(r) \/ Spawn(r) \/ SetTimer(r) \/ CheckOwner(r) \/ InsertStep(r)
              \/ LookAtChild(r) \/ LookAtClock(r) \/ Finish(r)

ChildNext ==
    \/ \E r \in Slot : Proceed(r) \/ ClaimParent(r) \/ Errs(r)
    \/ \E j \in Job : \/ \E w \in Worker : ClaimChild(w, j) \/ ChildReturns(w, j) \/ ChildFails(w, j)
                      \/ Operator(j) \/ LeaseLapses(j) \/ TimerFires(j)
    \/ \E q \in Queue : Prune(q)
    \/ Sweep
    \/ \E t \in 1..MaxTimers : Elapses(t)

ChildSpec == ChildInit /\ [][ChildNext]_childVars

\* A run goes on, workers poll (the oldest run_after first), sweep, and finish
\* what they run; time passes.
Fairness ==
    /\ \A r \in Slot : WF_childVars(Proceed(r))
    /\ WF_childVars(\E r \in Slot : ClaimParent(r))
    /\ \A j \in Job : /\ WF_childVars(\E w \in Worker : ClaimChild(w, j))
                      /\ WF_childVars(\E w \in Worker : ChildReturns(w, j))
                      /\ WF_childVars(LeaseLapses(j)) /\ WF_childVars(TimerFires(j))
    /\ WF_childVars(Sweep)
    /\ \A t \in 1..MaxTimers : WF_childVars(Elapses(t))

FairChildSpec == ChildSpec /\ Fairness

-----------------------------------------------------------------------------
(***************************************************************************)
(* What a parent may rely on.                                              *)
(***************************************************************************)
\* The runs, checkpoints and histories are well formed.
ChildTypeOK ==
    /\ jobs \in [Job -> Row]
    /\ run \in [Slot -> [pc : Calling \cup Ending \cup {"idle"}, at : 1..Len(Calls),
                         got : Job \cup (1..MaxTimers) \cup {None}, wake : Nat]]
    /\ \A i \in 1..Len(Calls) :
          saved[i] \in {None} \cup (IF Calls[i].kind = "child" THEN Job ELSE 1..timers)
    /\ elapsed \subseteq 1..timers
    /\ kids \in [Key -> SUBSET (Job \ {Parent})] /\ succeeded \subseteq Job

\* "Every resumed run and retry watches the same child" (and sleeps to the same
\* deadline): runs that overlap or follow one another agree on what a call
\* stands for, once one of them has checkpointed it.
WatchesOne ==
    \A r \in Slot : At(r, "look") /\ saved[run[r].at] # None
                      => run[r].got = saved[run[r].at]

\* The enqueue-crash window is safe: whatever errs or overlaps between the
\* enqueue and its checkpoint, a name is enqueued once, in and out of
\* activities, as long as retention has not deleted the child in between.
SpawnedOnce ==
    \A k \in Key : \A i, j \in kids[k] :
        i # j => "pruned" \in {jobs[i].status, jobs[j].status}

\* A parent succeeds only when each child it waited for has succeeded and each
\* deadline it slept to has passed.
SucceedsOnChildren ==
    jobs[Parent].status = "succeeded"
        => \A i \in 1..Len(Calls) :
              saved[i] \in IF Calls[i].kind = "child" THEN succeeded ELSE elapsed

\* A parent parked on a child is not forgotten although nothing wakes it when
\* the child ends: it naps and looks again until it ends itself, also when the
\* child is canceled, dead-lettered or deleted under it.
ParentEnds == Active(jobs[Parent]) ~> ~Active(jobs[Parent])
=============================================================================
