-------------------------- MODULE ExecutionProofs --------------------------
(***************************************************************************)
(* Proofs about the composition of the table with its workers, for every   *)
(* number of jobs, workers, slots and signals and every kind of fault.     *)
(*                                                                         *)
(* Part 1: the composition takes only steps of the table, so what          *)
(* JobStoreProofs shows of the table holds of it.                          *)
(* Part 2: with one slot per worker id, final writes are fenced.           *)
(* Part 3: no wake-up is lost, and a job consumes what it waits for.       *)
(***************************************************************************)
EXTENDS Execution, JobStoreProofs

-----------------------------------------------------------------------------
(* Part 1: the executions' types, and steps of the table. *)

\* The phases of a run do not overlap.
LEMMA Phases ==
    /\ "idle" \notin Executing /\ "idle" \notin Ending
    /\ \A pc \in Ending : pc \notin Executing
    /\ \A pc \in {"load", "poll", "recheck", "check", "insert"} : pc \in Executing
    /\ \A pc \in {"suspend", "fail", "permanent", "complete"} : pc \in Ending
    /\ \A pc \in Executing : pc \in {"load", "poll", "recheck", "check", "insert"}
BY DEF Executing, Cancelable, Ending

\* A run that moves on stays well formed.
LEMMA MovedOK ==
    ASSUME ExecTypeOK, NEW r \in Run, Busy(r), NEW pc \in Executing \cup Ending,
           pc \in Executing => run[r].at < Waits, Become(r, pc)
    PROVE  /\ run' \in [Run -> RunState]
           /\ \A q \in Run : Busy(q)' => run'[q].job \in Job
           /\ \A q \in Run : run'[q].pc \in Executing => run'[q].at < Waits
BY Phases DEF ExecTypeOK, Become, Busy, RunState

\* A run that passes a wait stays well formed.
LEMMA AdvancedOK ==
    ASSUME ExecTypeOK, NEW r \in Run, run[r].pc \in Executing, Advance(r)
    PROVE  /\ run' \in [Run -> RunState]
           /\ \A q \in Run : Busy(q)' => run'[q].job \in Job
           /\ \A q \in Run : run'[q].pc \in Executing => run'[q].at < Waits
<1> DEFINE i == run[r].at + 1
           pc == IF i < Waits THEN "load" ELSE "complete"
<1>1. run[r] \in RunState /\ run[r].at \in 0..Waits /\ run[r].at < Waits
  BY DEF ExecTypeOK, RunState
<1>2. i \in 0..Waits
  BY <1>1, ExecutionAssumption
<1>3. pc \in {"load", "complete"} /\ (pc = "load" => i < Waits)
  OBVIOUS
<1>4. run' = [run EXCEPT ![r] = [run[r] EXCEPT !.pc = pc, !.at = i]]
  BY DEF Advance, Resume
<1>5. run[r].job \in Job
  BY Phases DEF ExecTypeOK, Busy
<1> HIDE DEF i, pc
<1>6. run' \in [Run -> RunState]
  BY <1>1, <1>2, <1>3, <1>4, Phases DEF ExecTypeOK, RunState
<1>7. /\ run'[r].pc = pc /\ run'[r].at = i /\ run'[r].job = run[r].job
      /\ \A q \in Run : q # r => run'[q] = run[q]
  BY <1>1, <1>4 DEF ExecTypeOK, RunState
<1> QED
  BY <1>3, <1>5, <1>6, <1>7, Phases DEF ExecTypeOK, Busy

\* A slot that is freed stays well formed.
LEMMA FreedOK ==
    ASSUME ExecTypeOK, NEW S, run' = [r \in Run |-> IF r \in S THEN Idle ELSE run[r]]
    PROVE  /\ run' \in [Run -> RunState]
           /\ \A q \in Run : Busy(q)' => run'[q].job \in Job
           /\ \A q \in Run : run'[q].pc \in Executing => run'[q].at < Waits
<1>1. Idle \in RunState /\ Idle.pc = "idle"
  BY ExecutionAssumption DEF Idle, RunState
<1> QED
  BY <1>1, Phases DEF ExecTypeOK, Busy

\* So does a slot that starts a run of a job the table holds.
LEMMA StartedOK ==
    ASSUME StoreInv, NEW j \in Job
    PROVE  /\ Started(j) \in RunState /\ Started(j).job = j
           /\ Started(j).pc \in {"load", "complete"} /\ Started(j).at = 0
           /\ Started(j).pc = "load" => 0 < Waits
           /\ Started(j).pc = "complete" => Waits = 0
           /\ Started(j).wake = jobs[j].wake
<1>1. jobs[j].wake \in Nat
  BY RequestAssumption DEF StoreInv, Row
<1> QED
  BY <1>1, ExecutionAssumption, Phases DEF Started, RunState

\* What ClaimJobs does to the slots: used ones start a run of a job that was
\* claimed for them, the others carry on.
ClaimEffect(w, S, place) ==
    /\ S \subseteq Job
    /\ place \in [S -> Run]
    /\ \A j \in S : WorkerOf[place[j]] = w /\ ~Busy(place[j])
    /\ \A i, j \in S : place[i] = place[j] => i = j
    /\ \A r \in Run : \/ \E j \in S : place[j] = r /\ run'[r] = Started(j)
                      \/ (\A j \in S : place[j] # r) /\ run'[r] = run[r]
    /\ run' = [r \in Run |-> run'[r]]
    /\ holder' = [j \in Job |-> IF j \in S THEN place[j] ELSE holder[j]]

LEMMA ClaimJobsEffect ==
    ASSUME NEW w \in Worker, ClaimJobs(w)
    PROVE  \E S \in SUBSET Job : Claim(w, QueueOf[w], S) /\
              \E place : ClaimEffect(w, S, place)
<1>1. PICK S \in SUBSET Job : Claim(w, QueueOf[w], S) /\
          \E place \in Placements(w, S) :
              LET jobIn(r) == CHOOSE j \in S : place[j] = r
                  used     == {place[j] : j \in S}
              IN  /\ run' = [r \in Run |-> IF r \in used THEN Started(jobIn(r))
                                           ELSE run[r]]
                  /\ holder' = [j \in Job |-> IF j \in S THEN place[j]
                                              ELSE holder[j]]
  BY DEF ClaimJobs
<1> DEFINE jobIn(place, r) == CHOOSE j \in S : place[j] = r
<1>2. PICK place \in Placements(w, S) :
          /\ run' = [r \in Run |-> IF r \in {place[j] : j \in S}
                                   THEN Started(jobIn(place, r)) ELSE run[r]]
          /\ holder' = [j \in Job |-> IF j \in S THEN place[j] ELSE holder[j]]
  BY <1>1
<1>3. /\ place \in [S -> Run]
      /\ \A j \in S : WorkerOf[place[j]] = w /\ ~Busy(place[j])
      /\ \A i, j \in S : place[i] = place[j] => i = j
  BY DEF Placements, FreeSlots
<1>4. ASSUME NEW r \in Run
      PROVE  \/ \E j \in S : place[j] = r /\ run'[r] = Started(j)
             \/ (\A j \in S : place[j] # r) /\ run'[r] = run[r]
  <2>1. CASE r \in {place[j] : j \in S}
    <3>1. jobIn(place, r) \in S /\ place[jobIn(place, r)] = r
      BY <2>1
    <3>2. run'[r] = Started(jobIn(place, r))
      BY <1>2, <2>1
    <3> QED
      BY <3>1, <3>2
  <2>2. CASE r \notin {place[j] : j \in S}
    BY <1>2, <2>2
  <2> QED
    BY <2>1, <2>2
<1>5. run' = [r \in Run |-> run'[r]]
  BY <1>2
<1>6. ClaimEffect(w, S, place)
  BY <1>2, <1>3, <1>4, <1>5 DEF ClaimEffect
<1> QED
  BY <1>1, <1>6

\* Every action keeps the executions well formed.
LEMMA TypesKept == StoreInv /\ ExecTypeOK /\ [ExecNext]_vars => ExecTypeOK'
<1> SUFFICES ASSUME StoreInv, ExecTypeOK, [ExecNext]_vars PROVE ExecTypeOK'
  OBVIOUS
<1> USE DEF ExecTypeOK
<1>run. ASSUME /\ run' \in [Run -> RunState]
               /\ \A q \in Run : Busy(q)' => run'[q].job \in Job
               /\ \A q \in Run : run'[q].pc \in Executing => run'[q].at < Waits,
               UNCHANGED <<mail, saved, holder>>
        PROVE  ExecTypeOK'
  BY <1>run
<1>1. ASSUME NEW r \in Run, LoadStep(r) PROVE ExecTypeOK'
  <2>1. run[r].pc \in Executing /\ Busy(r) /\ run[r].at < Waits
    BY <1>1, Phases DEF LoadStep, Live, Busy
  <2>2. UNCHANGED <<mail, saved, holder>>
    BY <1>1 DEF LoadStep
  <2>3. CASE Advance(r)
    BY <2>1, <2>2, <2>3, <1>run, AdvancedOK
  <2>4. CASE Become(r, "poll")
    BY <2>1, <2>2, <2>4, <1>run, MovedOK, Phases
  <2> QED
    BY <1>1, <2>3, <2>4 DEF LoadStep
<1>2. ASSUME NEW r \in Run, PollSignal(r) PROVE ExecTypeOK'
  <2>1. run[r].pc \in Executing /\ Busy(r) /\ run[r].at < Waits
    BY <1>2, Phases DEF PollSignal, Live, Busy
  <2> DEFINE pc == IF Delivered(run[r].job, run[r].at) THEN "recheck" ELSE "suspend"
  <2>2. pc \in Executing \cup Ending /\ Become(r, pc)
    BY <1>2, Phases DEF PollSignal
  <2> QED
    BY <1>2, <2>1, <2>2, <1>run, MovedOK DEF PollSignal
<1>3. ASSUME NEW r \in Run, RecheckStep(r) PROVE ExecTypeOK'
  <2>1. run[r].pc \in Executing /\ Busy(r) /\ run[r].at < Waits
    BY <1>3, Phases DEF RecheckStep, Live, Busy
  <2>2. UNCHANGED <<mail, saved, holder>>
    BY <1>3 DEF RecheckStep
  <2>3. CASE Advance(r)
    BY <2>1, <2>2, <2>3, <1>run, AdvancedOK
  <2>4. CASE Become(r, "check")
    BY <2>1, <2>2, <2>4, <1>run, MovedOK, Phases
  <2> QED
    BY <1>3, <2>3, <2>4 DEF RecheckStep
<1>4. ASSUME NEW r \in Run, CheckOwner(r) PROVE ExecTypeOK'
  <2>1. run[r].pc \in Executing /\ Busy(r) /\ run[r].at < Waits
    BY <1>4, Phases DEF CheckOwner, Busy
  <2> DEFINE pc == IF Owns(r) THEN "insert" ELSE "fail"
  <2>2. pc \in Executing \cup Ending /\ Become(r, pc)
    BY <1>4, Phases DEF CheckOwner
  <2> QED
    BY <1>4, <2>1, <2>2, <1>run, MovedOK DEF CheckOwner
<1>5. ASSUME NEW r \in Run, InsertStep(r) PROVE ExecTypeOK'
  <2>1. run[r].pc \in Executing /\ Busy(r) /\ run[r].at < Waits
    BY <1>5, Phases DEF InsertStep, Busy
  <2>2. CASE Exists(JobOf(r))
    <3>1. run[r].at \in 0..Waits - 1
      BY <2>1, ExecutionAssumption DEF RunState
    <3>2. saved' \in [Job -> SUBSET (0..Waits - 1)] /\ UNCHANGED <<mail, holder>>
      BY <1>5, <2>2, <3>1 DEF InsertStep
    <3>3. Advance(r)
      BY <1>5, <2>2 DEF InsertStep
    <3> QED
      BY <2>1, <3>2, <3>3, AdvancedOK
  <2>3. CASE ~Exists(JobOf(r))
    BY <1>5, <2>1, <2>3, <1>run, MovedOK, Phases DEF InsertStep
  <2> QED
    BY <2>2, <2>3
<1>6. ASSUME NEW r \in Run, Aborts(r) PROVE ExecTypeOK'
  BY <1>6, <1>run, MovedOK, Phases DEF Aborts, Cancelable, Busy
<1>7. ASSUME NEW r \in Run, Finish(r) PROVE ExecTypeOK'
  <2>1. run' = [q \in Run |-> IF q \in {r} THEN Idle ELSE run[q]]
    BY <1>7 DEF Finish
  <2> QED
    BY <1>7, <2>1, <1>run, FreedOK DEF Finish
<1>8. ASSUME NEW r \in Run, Errs(r) PROVE ExecTypeOK'
  <2>1. UNCHANGED <<mail, saved, holder>>
    BY <1>8 DEF Errs
  <2>2. CASE Busy(r) /\ (Become(r, "fail") \/ Become(r, "permanent"))
    BY <2>1, <2>2, <1>run, MovedOK, Phases
  <2>3. CASE run' = [run EXCEPT ![r] = Idle]
    <3>1. run' = [q \in Run |-> IF q \in {r} THEN Idle ELSE run[q]]
      BY <2>3
    <3> QED
      BY <2>1, <3>1, <1>run, FreedOK
  <2> QED
    BY <1>8, <2>2, <2>3, Phases DEF Errs, Busy
<1>9. ASSUME NEW r \in Run, Renew(r) \/ LoseLease(r) PROVE ExecTypeOK'
  <2>1. CASE Renew(r)
    BY <2>1, <1>run DEF Renew, Busy
  <2>2. CASE LoseLease(r)
    <3>1. run' = [run EXCEPT ![r].ctx = "canceled"]
      BY <2>2 DEF LoseLease
    <3> QED
      BY <2>2, <3>1, <1>run DEF LoseLease, RunState, Busy
  <2> QED
    BY <1>9, <2>1, <2>2
<1>10. ASSUME NEW w \in Worker, ClaimJobs(w) PROVE ExecTypeOK'
  <2>0. PICK S \in SUBSET Job : \E place : ClaimEffect(w, S, place)
    BY <1>10, ClaimJobsEffect
  <2>1. PICK place : ClaimEffect(w, S, place)
    BY <2>0
  <2>2. \A r \in Run : \/ run'[r] = run[r]
                       \/ \E j \in Job : run'[r] = Started(j)
    BY <2>1 DEF ClaimEffect
  <2>3. run' = [r \in Run |-> run'[r]]
    BY <2>1 DEF ClaimEffect
  <2>4. run' \in [Run -> RunState]
    BY <2>2, <2>3, StartedOK
  <2>5. \A q \in Run : Busy(q)' => run'[q].job \in Job
    BY <2>2, StartedOK DEF Busy
  <2>6. \A q \in Run : run'[q].pc \in Executing => run'[q].at < Waits
    BY <2>2, StartedOK, Phases
  <2>7. holder' \in [Job -> Run \cup {None}]
    BY <2>1 DEF ClaimEffect
  <2> QED
    BY <1>10, <2>4, <2>5, <2>6, <2>7 DEF ClaimJobs
<1>11. ASSUME NEW w \in Worker, ClaimLost(w) PROVE ExecTypeOK'
  BY <1>11 DEF ClaimLost, Busy
<1>12. ASSUME NEW w \in Worker, Prune(w) PROVE ExecTypeOK'
  BY <1>12 DEF Prune, Busy
<1>13. ASSUME NEW w \in Worker, Crash(w) PROVE ExecTypeOK'
  <2>1. run' = [r \in Run |-> IF r \in {q \in Run : WorkerOf[q] = w}
                              THEN Idle ELSE run[r]]
    BY <1>13 DEF Crash
  <2> QED
    BY <1>13, <2>1, <1>run, FreedOK DEF Crash
<1>14. CASE Sweep
  BY <1>14, <1>run DEF Sweep, Busy
<1>15. CASE OutsideNext
  <2>1. ASSUME NEW j \in Job, Deliver(j) PROVE ExecTypeOK'
    BY <2>1 DEF Deliver, Busy
  <2>2. ASSUME NEW j \in Job, Request(j) \/ LeaseLapses(j) \/ TimerFires(j)
        PROVE  ExecTypeOK'
    BY <2>2, <1>run DEF Request, LeaseLapses, TimerFires, Busy
  <2> QED
    BY <1>15, <2>1, <2>2 DEF OutsideNext
<1>16. CASE UNCHANGED vars
  BY <1>16, <1>run DEF vars, Busy
<1> HIDE DEF ExecTypeOK
<1> QED
  BY <1>1, <1>2, <1>3, <1>4, <1>5, <1>6, <1>7, <1>8, <1>9, <1>10, <1>11,
     <1>12, <1>13, <1>14, <1>15, <1>16
  DEF ExecNext, RunNext, LoopNext, Proceed

\* The composition changes the table by its statements only.
LEMMA TableStep == StoreInv /\ ExecTypeOK /\ [ExecNext]_vars => [Next]_jobs
<1> SUFFICES ASSUME StoreInv, ExecTypeOK, [ExecNext]_vars PROVE [Next]_jobs
  OBVIOUS
<1>1. ASSUME NEW r \in Run, Finish(r) PROVE [Next]_jobs
  <2>1. CASE Rejected(r)
    BY <2>1 DEF Rejected
  <2>2. CASE FinalWrite(r)
    <3> DEFINE w == WorkerOf[r]
               j == run[r].job
    <3>1. w \in Worker /\ j \in Job
      BY <2>2, ExecutionAssumption DEF FinalWrite, ExecTypeOK, Busy
    <3>2. CASE Suspend(w, j, run[r].wake)
      <4>1. run[r].wake \in 0..MaxWake
        BY <3>1, <3>2 DEF Suspend, Parkable, StoreInv, Row
      <4> QED
        BY <3>1, <3>2, <4>1 DEF Next, WorkerNext
    <3>3. CASE Complete(w, j)
      BY <3>1, <3>3 DEF Next, WorkerNext
    <3>4. CASE Fail(w, j, FALSE) \/ Fail(w, j, TRUE)
      BY <3>1, <3>4 DEF Next, WorkerNext
    <3> QED
      BY <2>2, <3>2, <3>3, <3>4 DEF FinalWrite
  <2> QED
    BY <1>1, <2>1, <2>2 DEF Finish
<1>2. ASSUME NEW r \in Run, Renew(r) PROVE [Next]_jobs
  <2>1. WorkerOf[r] \in Worker /\ run[r].job \in Job
    BY <1>2, Phases, ExecutionAssumption DEF Renew, ExecTypeOK, Busy
  <2> QED
    BY <1>2, <2>1 DEF Renew, Next, WorkerNext
<1>3. ASSUME NEW r \in Run,
             LoadStep(r) \/ PollSignal(r) \/ RecheckStep(r) \/ CheckOwner(r)
             \/ InsertStep(r) \/ Aborts(r) \/ Errs(r) \/ LoseLease(r)
      PROVE  [Next]_jobs
  BY <1>3 DEF LoadStep, PollSignal, RecheckStep, CheckOwner, InsertStep,
              Aborts, Errs, LoseLease
<1>4. ASSUME NEW w \in Worker, ClaimJobs(w) \/ ClaimLost(w) PROVE [Next]_jobs
  <2>1. QueueOf[w] \in Queue
    BY ExecutionAssumption
  <2>2. PICK S \in SUBSET Job : Claim(w, QueueOf[w], S)
    BY <1>4 DEF ClaimJobs, ClaimLost
  <2> QED
    BY <2>1, <2>2 DEF Next, WorkerNext
<1>5. ASSUME NEW w \in Worker, Prune(w) PROVE [Next]_jobs
  <2>1. QueueOf[w] \in Queue
    BY ExecutionAssumption
  <2> QED
    BY <1>5, <2>1 DEF Prune, Next, SweepNext
<1>6. ASSUME NEW w \in Worker, Crash(w) PROVE [Next]_jobs
  BY <1>6 DEF Crash
<1>7. CASE Sweep
  BY <1>7 DEF Sweep, Next, SweepNext
<1>8. ASSUME NEW j \in Job, Deliver(j) PROVE [Next]_jobs
  BY <1>8 DEF Deliver, Next, RequestNext
<1>9. ASSUME NEW j \in Job, Request(j) PROVE [Next]_jobs
  <2>1. CASE \E q \in Queue, m \in RequestedMax, d \in {"past", "ahead"} :
                Enqueue(j, q, m, d, NoKey)
    BY <2>1 DEF Next, RequestNext
  <2> QED
    BY <1>9, <2>1 DEF Request, Next, RequestNext
<1>10. ASSUME NEW j \in Job, LeaseLapses(j) \/ TimerFires(j) PROVE [Next]_jobs
  BY <1>10 DEF LeaseLapses, TimerFires, Next, TimeNext
<1>11. CASE UNCHANGED vars
  BY <1>11 DEF vars
<1> QED
  BY <1>1, <1>2, <1>3, <1>4, <1>5, <1>6, <1>7, <1>8, <1>9, <1>10, <1>11
  DEF ExecNext, RunNext, LoopNext, OutsideNext, Proceed

\* The executions never leave the table's or their own types.
THEOREM ExecInvariant == ExecSpec => [](StoreInv /\ ExecTypeOK)
<1>1. ExecInit => StoreInv /\ ExecTypeOK
  <2>1. ASSUME ExecInit PROVE StoreInv
    BY <2>1, DefaultOK DEF ExecInit, Init, StoreInv, RowOK
  <2>2. ASSUME ExecInit PROVE ExecTypeOK
    <3>1. Idle \in RunState /\ Idle.pc = "idle"
      BY ExecutionAssumption DEF Idle, RunState
    <3> QED
      BY <2>2, <3>1, Phases DEF ExecInit, ExecTypeOK, Busy
  <2> QED
    BY <2>1, <2>2
<1>2. StoreInv /\ ExecTypeOK /\ [ExecNext]_vars => (StoreInv /\ ExecTypeOK)'
  BY TypesKept, TableStep, StoreInvNext
<1> QED
  BY <1>1, <1>2, PTL DEF ExecSpec

\* Every execution step is well typed.
THEOREM ExecTypeCorrect == ExecSpec => []ExecTypeOK
BY ExecInvariant, PTL

\* The composition implements the table: whatever holds of every behaviour of
\* JobStore holds of the workers that use it.
THEOREM ExecImplementsStore == ExecSpec => Spec
<1>1. ExecInit => Init
  BY DEF ExecInit
<1> QED
  BY <1>1, TableStep, ExecInvariant, PTL DEF ExecSpec, Spec

-----------------------------------------------------------------------------
(* Part 2: the fence. *)

\* Workers with one slot each (Concurrency 1) and ids of their own.
OneSlotPerWorker == \A q, r \in Run : WorkerOf[q] = WorkerOf[r] => q = r

\* A run that the table takes for the owner is the one that claimed last.
FenceInv == \A r \in Run : Busy(r) /\ Owns(r) => holder[run[r].job] = r

\* A step that starts no run and gives no row a new owner keeps the fence.
LEMMA FenceKept ==
    ASSUME ExecTypeOK, FenceInv, UNCHANGED holder,
           \A r \in Run : Busy(r)' => Busy(r) /\ run'[r].job = run[r].job,
           \A j \in Job, w \in Worker : Owned(jobs'[j], w) => Owned(jobs[j], w)
    PROVE  FenceInv'
BY ExecutionAssumption DEF FenceInv, ExecTypeOK, Owns, JobOf, Busy

\* No statement but Claim makes anybody an owner.
LEMMA OwnedBefore ==
    ASSUME NEW row \in Row, NEW w \in Worker
    PROVE  /\ Owned(Renewed(row), w) => Owned(row, w)
           /\ Owned(Woken(row), w) => Owned(row, w)
           /\ Owned([row EXCEPT !.lease = "expired"], w) => Owned(row, w)
           /\ Owned([row EXCEPT !.runAfter = "past"], w) => Owned(row, w)
           /\ ~Owned(Suspended(row), w)
           /\ ~Owned(Succeeded(row), w)
           /\ \A p \in BOOLEAN : ~Owned(Failed(row, p), w)
           /\ ~Owned(Canceled(row), w)
           /\ ~Owned(DeadLettered(row), w)
           /\ ~Owned(Requeued(row), w)
           /\ ~Owned(Pruned, w)
           /\ \A q, m, d, k : ~Owned(Enqueued(q, m, d, k), w)
<1>1. /\ Owned(Renewed(row), w) => Owned(row, w)
      /\ Owned(Woken(row), w) => Owned(row, w)
      /\ Owned([row EXCEPT !.lease = "expired"], w) => Owned(row, w)
      /\ Owned([row EXCEPT !.runAfter = "past"], w) => Owned(row, w)
  BY DEF Owned, Renewed, Woken, Row
<1>2. Suspended(row).status = "queued" /\ Requeued(row).status = "queued"
  BY DEF Suspended, Requeued, Released, Row
<1>3. /\ Succeeded(row).status = "succeeded" /\ Canceled(row).status = "canceled"
      /\ DeadLettered(row).status = "dead_letter"
  BY DEF Succeeded, Canceled, DeadLettered, Released, Row
<1>4. ASSUME NEW p \in BOOLEAN PROVE Failed(row, p).status # "running"
  <2> DEFINE s == NextStatusAfterFailure(row.attempt, row.max, p)
  <2>1. s = "dead_letter" \/ s = "retrying"
    BY DEF NextStatusAfterFailure
  <2>2. Failed(row, p).status = s
    BY DEF Failed, Released, Row
  <2> QED
    BY <2>1, <2>2
<1>5. Pruned.status = "pruned" /\ \A q, m, d, k : Enqueued(q, m, d, k).status = "queued"
  BY DEF Pruned, Enqueued, Default
<1> QED
  BY <1>1, <1>2, <1>3, <1>4, <1>5 DEF Owned

\* The step of a single row, for FenceKept.
LEMMA OwnersKept ==
    ASSUME StoreInv, NEW j \in Job, NEW row, SetRow(j, row),
           \A w \in Worker : Owned(row, w) => Owned(jobs[j], w)
    PROVE  \A i \in Job, w \in Worker : Owned(jobs'[i], w) => Owned(jobs[i], w)
BY DEF StoreInv, SetRow

\* Every action keeps the fence, if no two slots share a worker id.
LEMMA FenceNext ==
    ASSUME OneSlotPerWorker
    PROVE  StoreInv /\ ExecTypeOK /\ FenceInv /\ [ExecNext]_vars => FenceInv'
<1> SUFFICES ASSUME StoreInv, ExecTypeOK, FenceInv, [ExecNext]_vars PROVE FenceInv'
  OBVIOUS
<1> DEFINE RunsKept == \A r \in Run : Busy(r)' => Busy(r) /\ run'[r].job = run[r].job
           NoNewOwner == \A j \in Job, w \in Worker :
                             Owned(jobs'[j], w) => Owned(jobs[j], w)
<1>row. \A j \in Job : jobs[j] \in Row
  BY DEF StoreInv
<1>same. UNCHANGED jobs => NoNewOwner
  OBVIOUS
<1>still. UNCHANGED run => RunsKept
  BY DEF Busy
<1>move. ASSUME NEW r \in Run, Busy(r),
                \/ \E pc : Become(r, pc)
                \/ Advance(r)
                \/ run' = [run EXCEPT ![r] = Idle]
                \/ run' = [run EXCEPT ![r].ctx = "canceled"]
         PROVE  RunsKept
  <2>1. run[r] \in RunState
    BY DEF ExecTypeOK
  <2>2. run'[r].job = run[r].job \/ run'[r].pc = "idle"
    <3>1. CASE \E pc : Become(r, pc)
      BY <2>1, <3>1 DEF Become, ExecTypeOK, RunState
    <3>2. CASE Advance(r)
      BY <2>1, <3>2 DEF Advance, Resume, ExecTypeOK, RunState
    <3>3. CASE run' = [run EXCEPT ![r] = Idle]
      BY <3>3 DEF Idle, ExecTypeOK
    <3>4. CASE run' = [run EXCEPT ![r].ctx = "canceled"]
      BY <2>1, <3>4 DEF ExecTypeOK, RunState
    <3> QED
      BY <1>move, <3>1, <3>2, <3>3, <3>4
  <2>3. \A q \in Run : q # r => run'[q] = run[q]
    BY <1>move DEF Become, Advance, ExecTypeOK
  <2> QED
    BY <1>move, <2>2, <2>3 DEF Busy
<1> HIDE DEF RunsKept, NoNewOwner
<1>keep. ASSUME RunsKept, NoNewOwner, UNCHANGED holder PROVE FenceInv'
  BY <1>keep, FenceKept DEF RunsKept, NoNewOwner
<1>1. ASSUME NEW r \in Run,
             LoadStep(r) \/ PollSignal(r) \/ RecheckStep(r) \/ CheckOwner(r)
             \/ InsertStep(r) \/ Aborts(r) \/ Errs(r) \/ LoseLease(r)
      PROVE  FenceInv'
  <2>1. Busy(r)
    BY <1>1, Phases DEF LoadStep, PollSignal, RecheckStep, CheckOwner, InsertStep,
       Aborts, Errs, LoseLease, Live, Busy, Cancelable
  <2>2. RunsKept
    BY <1>1, <2>1, <1>move DEF LoadStep, PollSignal, RecheckStep, CheckOwner,
       InsertStep, Aborts, Errs, LoseLease
  <2>3. UNCHANGED <<jobs, holder>>
    BY <1>1 DEF LoadStep, PollSignal, RecheckStep, CheckOwner, InsertStep,
       Aborts, Errs, LoseLease
  <2> QED
    BY <2>2, <2>3, <1>same, <1>keep
<1>2. ASSUME NEW r \in Run, Finish(r) PROVE FenceInv'
  <2> DEFINE j == run[r].job
             w == WorkerOf[r]
  <2>1. Busy(r) /\ j \in Job
    BY <1>2, Phases DEF Finish, FinalWrite, Rejected, ExecTypeOK, Busy
  <2>2. RunsKept /\ UNCHANGED holder
    BY <1>2, <2>1, <1>move DEF Finish
  <2>3. CASE FinalWrite(r)
    <3>1. \/ SetRow(j, Suspended(jobs[j])) \/ SetRow(j, Succeeded(jobs[j]))
          \/ \E p \in BOOLEAN : SetRow(j, Failed(jobs[j], p))
      BY <2>3 DEF FinalWrite, Suspend, Complete, Fail
    <3> HIDE DEF j
    <3>2. jobs[j] \in Row
      BY <2>1, <1>row
    <3>3. PICK row : SetRow(j, row) /\ \A v \in Worker : ~Owned(row, v)
      <4> DEFINE Unowned(row) == \A v \in Worker : ~Owned(row, v)
      <4>1. /\ Unowned(Suspended(jobs[j])) /\ Unowned(Succeeded(jobs[j]))
            /\ \A p \in BOOLEAN : Unowned(Failed(jobs[j], p))
        BY <3>2, OwnedBefore
      <4> HIDE DEF Unowned
      <4>2. \E row : SetRow(j, row) /\ Unowned(row)
        BY <3>1, <4>1
      <4> QED
        BY <4>2 DEF Unowned
    <3>4. NoNewOwner
      BY <2>1, <3>3, OwnersKept DEF NoNewOwner
    <3> QED
      BY <2>2, <3>4, <1>keep
  <2>4. CASE Rejected(r)
    BY <2>2, <2>4, <1>same, <1>keep DEF Rejected
  <2> QED
    BY <1>2, <2>3, <2>4 DEF Finish
<1>3. ASSUME NEW r \in Run, Renew(r) PROVE FenceInv'
  <2>1. run[r].job \in Job
    BY <1>3, Phases DEF Renew, ExecTypeOK, Busy
  <2> DEFINE j == run[r].job
  <2>3. SetRow(j, Renewed(jobs[j])) /\ jobs[j] \in Row
    BY <1>3, <2>1, <1>row DEF Renew, Heartbeat
  <2>4. \A v \in Worker : Owned(Renewed(jobs[j]), v) => Owned(jobs[j], v)
    BY <2>3, OwnedBefore
  <2> HIDE DEF j
  <2>2. NoNewOwner
    BY <2>1, <2>3, <2>4, OwnersKept DEF NoNewOwner, j
  <2> QED
    BY <1>3, <2>2, <1>still, <1>keep DEF Renew
<1>4. ASSUME NEW w \in Worker, ClaimJobs(w) PROVE FenceInv'
  <2>0. PICK S \in SUBSET Job : Claim(w, QueueOf[w], S) /\ \E place : ClaimEffect(w, S, place)
    BY <1>4, ClaimJobsEffect
  <2>1. PICK place : Claim(w, QueueOf[w], S) /\ ClaimEffect(w, S, place)
    BY <2>0
  <2> SUFFICES ASSUME NEW r \in Run, (Busy(r) /\ Owns(r))'
               PROVE  holder'[run'[r].job] = r
    BY DEF FenceInv
  <2>2. CASE \E j \in S : place[j] = r /\ run'[r] = Started(j)
    <3>1. PICK j \in S : place[j] = r /\ run'[r] = Started(j)
      BY <2>2
    <3>2. run'[r].job = j
      BY <3>1, StartedOK
    <3> QED
      BY <3>1, <3>2, <2>1 DEF ClaimEffect
  <2>3. CASE (\A j \in S : place[j] # r) /\ run'[r] = run[r]
    <3> DEFINE i == run[r].job
    <3>1. Busy(r) /\ i \in Job
      BY <2>3 DEF Busy, ExecTypeOK
    <3>2. i \notin S
      \* Were it claimed, the owner would be w; but r is w's only slot, and busy.
      <4> SUFFICES ASSUME i \in S PROVE FALSE
        OBVIOUS
      <4>1. jobs'[i] = Claimed(jobs[i], w) /\ jobs[i] \in Row
        BY <2>1, <3>1, <1>row DEF Claim
      <4>2. jobs'[i].owner = w
        BY <4>1 DEF Claimed, Row
      <4>3. WorkerOf[r] = w
        BY <2>3, <4>2 DEF Owns, Owned, JobOf
      <4>4. place[i] = r
        BY <2>1, <4>3 DEF ClaimEffect, OneSlotPerWorker
      <4> QED
        BY <2>3, <4>4
    <3>3. jobs'[i] = jobs[i] /\ holder'[i] = holder[i]
      BY <2>1, <3>1, <3>2 DEF Claim, ClaimEffect
    <3>4. Owns(r)
      BY <2>3, <3>3 DEF Owns, JobOf
    <3> QED
      BY <2>3, <3>1, <3>3, <3>4 DEF FenceInv
  <2> QED
    BY <2>1, <2>2, <2>3 DEF ClaimEffect
<1>5. ASSUME NEW w \in Worker, ClaimLost(w) PROVE FenceInv'
  <2>1. PICK S \in SUBSET Job :
            /\ Claim(w, QueueOf[w], S) /\ Placements(w, S) # {}
            /\ holder' = [j \in Job |-> IF j \in S THEN None ELSE holder[j]]
    BY <1>5 DEF ClaimLost
  <2>2. UNCHANGED run
    BY <1>5 DEF ClaimLost
  <2> SUFFICES ASSUME NEW r \in Run, (Busy(r) /\ Owns(r))'
               PROVE  holder'[run'[r].job] = r
    BY DEF FenceInv
  <2> DEFINE i == run[r].job
  <2>3. Busy(r) /\ i \in Job
    BY <2>2 DEF Busy, ExecTypeOK
  <2>4. i \notin S
    <3> SUFFICES ASSUME i \in S PROVE FALSE
      OBVIOUS
    <3>1. jobs'[i] = Claimed(jobs[i], w) /\ jobs[i] \in Row
      BY <2>1, <2>3, <1>row DEF Claim
    <3>2. WorkerOf[r] = w
      BY <3>1, <2>2 DEF Claimed, Row, Owns, Owned, JobOf
    <3>3. PICK place : place \in Placements(w, S)
      BY <2>1
    <3>4. place[i] \in Run /\ WorkerOf[place[i]] = w /\ ~Busy(place[i])
      BY <3>3 DEF Placements, FreeSlots
    <3> QED
      BY <3>2, <3>4, <2>3 DEF OneSlotPerWorker
  <2>5. jobs'[i] = jobs[i] /\ holder'[i] = holder[i]
    BY <2>1, <2>3, <2>4 DEF Claim
  <2> QED
    BY <2>2, <2>3, <2>5 DEF FenceInv, Owns, JobOf
<1>6. ASSUME NEW w \in Worker, Prune(w) PROVE FenceInv'
  <2>1. NoNewOwner
    BY <1>6, <1>row, OwnedBefore DEF Prune, PruneCompleted, NoNewOwner
  <2> QED
    BY <1>6, <2>1, <1>still, <1>keep DEF Prune
<1>7. ASSUME NEW w \in Worker, Crash(w) PROVE FenceInv'
  <2>1. RunsKept
    BY <1>7 DEF Crash, Idle, RunsKept, Busy, ExecTypeOK
  <2> QED
    BY <1>7, <2>1, <1>same, <1>keep DEF Crash
<1>8. CASE Sweep
  <2>1. NoNewOwner
    BY <1>8, <1>row, OwnedBefore DEF Sweep, DeadLetterExhausted, NoNewOwner
  <2> QED
    BY <1>8, <2>1, <1>still, <1>keep DEF Sweep
<1>9. ASSUME NEW j \in Job, Deliver(j) \/ Request(j) \/ LeaseLapses(j) \/ TimerFires(j)
      PROVE  FenceInv'
  <2>1. UNCHANGED <<run, holder>>
    BY <1>9 DEF Deliver, Request, LeaseLapses, TimerFires
  <2>2. \/ SetRow(j, Woken(jobs[j])) \/ SetRow(j, Canceled(jobs[j]))
        \/ SetRow(j, Requeued(jobs[j]))
        \/ SetRow(j, [jobs[j] EXCEPT !.lease = "expired"])
        \/ SetRow(j, [jobs[j] EXCEPT !.runAfter = "past"])
        \/ \E q, m, d, k : SetRow(j, Enqueued(q, m, d, k))
    BY <1>9 DEF Deliver, Signal, Request, Enqueue, Cancel, RetryDeadLetter,
       LeaseLapses, LeaseExpires, TimerFires, ComesDue
  <2>3. NoNewOwner
    BY <2>2, <1>row, OwnedBefore, OwnersKept DEF NoNewOwner
  <2> QED
    BY <2>1, <2>3, <1>still, <1>keep
<1>10. CASE UNCHANGED vars
  BY <1>10, <1>same, <1>still, <1>keep DEF vars
<1> QED
  BY <1>1, <1>2, <1>3, <1>4, <1>5, <1>6, <1>7, <1>8, <1>9, <1>10
  DEF ExecNext, RunNext, LoopNext, OutsideNext, Proceed

\* With one slot per worker id, a final write that changes the table is made
\* by the run that holds the job's latest claim.
THEOREM FinalWritesFenced ==
    ASSUME OneSlotPerWorker
    PROVE  ExecSpec => WritesAreFenced
<1> DEFINE Fenced == \A r \in Run :
               run[r].pc \in Ending /\ run'[r].pc = "idle" /\ jobs' # jobs
                   => holder[run[r].job] = r
<1>1. ExecInit => FenceInv
  BY DEF ExecInit, FenceInv, Busy, Idle
<1>2. ExecTypeOK /\ FenceInv /\ [ExecNext]_vars => [Fenced]_vars
  <2> SUFFICES ASSUME ExecTypeOK, FenceInv, ExecNext, NEW r \in Run,
                      run[r].pc \in Ending, run'[r].pc = "idle", jobs' # jobs
               PROVE  holder[run[r].job] = r
    BY DEF Fenced
  <2>1. run[r].pc # "idle" /\ Busy(r)
    BY Phases DEF Busy
  <2>2. ASSUME NEW q \in Run, Finish(q) PROVE holder[run[r].job] = r
    <3>1. run' = [run EXCEPT ![q] = Idle]
      BY <2>2 DEF Finish
    <3>2. q = r
      BY <2>1, <3>1 DEF ExecTypeOK
    <3>3. FinalWrite(r)
      BY <2>2, <3>2 DEF Finish, Rejected
    <3>4. Owns(r)
      BY <3>3 DEF FinalWrite, Suspend, Parkable, Complete, Fail, Owns, JobOf
    <3> QED
      BY <2>1, <3>4 DEF FenceInv
  <2>3. ASSUME NEW w \in Worker, ClaimJobs(w) PROVE FALSE
    <3>0. PICK S \in SUBSET Job : \E place : ClaimEffect(w, S, place)
      BY <2>3, ClaimJobsEffect
    <3>1. PICK place : ClaimEffect(w, S, place)
      BY <3>0
    <3>2. run'[r] = run[r]
      BY <2>1, <3>1 DEF ClaimEffect
    <3> QED
      BY <2>1, <3>2
  <2>4. ASSUME UNCHANGED run PROVE FALSE
    BY <2>1, <2>4
  <2>5. ASSUME NEW q \in Run,
               LoadStep(q) \/ PollSignal(q) \/ RecheckStep(q) \/ CheckOwner(q)
               \/ InsertStep(q) \/ Aborts(q) \/ Errs(q) \/ LoseLease(q)
        PROVE  FALSE
    BY <2>5 DEF LoadStep, PollSignal, RecheckStep, CheckOwner, InsertStep,
                Aborts, Errs, LoseLease
  <2>6. ASSUME NEW w \in Worker, Crash(w) PROVE FALSE
    BY <2>6 DEF Crash
  <2> QED
    BY <2>2, <2>3, <2>4, <2>5, <2>6
    DEF ExecNext, RunNext, LoopNext, OutsideNext, Proceed, Renew, ClaimLost,
        Prune, Sweep, Deliver, Request, LeaseLapses, TimerFires
<1>3. WritesAreFenced <=> [][Fenced]_vars
  BY DEF WritesAreFenced
<1> HIDE DEF Fenced
<1>4. ExecSpec => [](StoreInv /\ ExecTypeOK) /\ [][ExecNext]_vars /\ ExecInit
  BY ExecInvariant, PTL DEF ExecSpec
<1> QED
  BY <1>1, <1>2, <1>3, <1>4, FenceNext, PTL

\* A run whose lease is live is ended by its worker's final write or a cancel:
\* the sweep's and Claim's statements look at the lease, the others at the
\* owner.
THEOREM LiveRunsKept == ExecSpec => LiveRunEndsItself
<1> DEFINE Kept == \A j \in Job :
               jobs[j].lease = "live" /\ jobs'[j].status # "running"
                   => \/ jobs'[j].status = "canceled"
                      \/ \E r \in Run : /\ WorkerOf[r] = jobs[j].owner /\ run[r].job = j
                                       /\ run[r].pc \in Ending /\ run'[r].pc = "idle"
<1>1. StoreInv /\ ExecTypeOK /\ [ExecNext]_vars => [Kept]_vars
  <2> SUFFICES ASSUME StoreInv, ExecTypeOK, ExecNext, NEW j \in Job,
                      jobs[j].lease = "live", jobs'[j].status # "running"
               PROVE  \/ jobs'[j].status = "canceled"
                      \/ \E r \in Run : /\ WorkerOf[r] = jobs[j].owner /\ run[r].job = j
                                       /\ run[r].pc \in Ending /\ run'[r].pc = "idle"
    BY DEF Kept
  <2>row. /\ jobs \in [Job -> Row] /\ jobs[j] \in Row
          /\ jobs[j].status = "running"
    BY DEF StoreInv, RowOK
  <2>1. ASSUME NEW r \in Run, Finish(r), ~UNCHANGED jobs
        PROVE  \E q \in Run : /\ WorkerOf[q] = jobs[j].owner /\ run[q].job = j
                              /\ run[q].pc \in Ending /\ run'[q].pc = "idle"
    <3>1. run' = [run EXCEPT ![r] = Idle] /\ FinalWrite(r) /\ run[r].pc # "idle"
      BY <2>1 DEF Finish, Rejected, FinalWrite
    <3>2. /\ run'[r].pc = "idle" /\ run[r].pc \in Ending /\ run[r].job \in Job
      BY <3>1 DEF ExecTypeOK, Idle, FinalWrite, Ending, Busy
    <3>3. /\ jobs[run[r].job].owner = WorkerOf[r]
          /\ \E row : SetRow(run[r].job, row)
      BY <3>1 DEF FinalWrite, Suspend, Parkable, Complete, Fail, Owned
    <3>4. run[r].job = j
      BY <2>row, <3>2, <3>3 DEF SetRow
    <3> QED
      BY <3>2, <3>3, <3>4
  <2>2. ASSUME NEW w \in Worker, NEW q \in Queue, NEW S \in SUBSET Job, Claim(w, q, S) PROVE FALSE
    <3>1. jobs'[j] = jobs[j] \/ jobs'[j] = Claimed(jobs[j], w)
      BY <2>2 DEF Claim
    <3> QED
      BY <2>row, <3>1 DEF Claimed, Row
  <2>3. ASSUME NEW r \in Run, Renew(r) PROVE FALSE
    <3>1. SetRow(run[r].job, Renewed(jobs[run[r].job]))
      BY <2>3 DEF Renew, Heartbeat
    <3>2. jobs'[j] = jobs[j] \/ jobs'[j] = Renewed(jobs[j])
      BY <2>row, <3>1 DEF SetRow
    <3> QED
      BY <2>row, <3>2 DEF Renewed, Row
  <2>4. ASSUME NEW w \in Worker, Prune(w) PROVE FALSE
    <3>1. jobs'[j] = jobs[j]
      BY <2>4, <2>row DEF Prune, PruneCompleted, Prunable
    <3> QED
      BY <2>row, <3>1
  <2>5. CASE Sweep
    <3>1. jobs'[j] = jobs[j]
      BY <2>5, <2>row DEF Sweep, DeadLetterExhausted, Exhausted, Stolen
    <3> QED
      BY <2>row, <3>1
  <2>6. ASSUME NEW i \in Job, Deliver(i) \/ Request(i) \/ LeaseLapses(i) \/ TimerFires(i)
        PROVE  jobs'[j].status = "canceled"
    <3>1. CASE Cancel(i)
      <4>1. jobs'[j] = jobs[j] \/ jobs'[j] = Canceled(jobs[j])
        BY <2>row, <3>1 DEF Cancel, SetRow
      <4> QED
        BY <2>row, <4>1 DEF Canceled, Released, Row
    <3>2. CASE Deliver(i) \/ LeaseLapses(i) \/ TimerFires(i)
      <4>1. \/ jobs'[j] = jobs[j] \/ jobs'[j] = Woken(jobs[j])
            \/ jobs'[j] = [jobs[j] EXCEPT !.lease = "expired"]
            \/ jobs'[j] = [jobs[j] EXCEPT !.runAfter = "past"]
        BY <2>row, <3>2 DEF Deliver, Signal, LeaseLapses, LeaseExpires, TimerFires, ComesDue, SetRow
      <4> QED
        BY <2>row, <4>1 DEF Woken, Row
    <3>3. CASE Request(i) /\ ~Cancel(i)
      <4>1. jobs'[j] = jobs[j]
        BY <2>row, <3>3 DEF Request, Enqueue, RetryDeadLetter, SetRow
      <4> QED
        BY <2>row, <4>1
    <3> QED
      BY <2>6, <3>1, <3>2, <3>3
  <2>7. CASE UNCHANGED jobs
    BY <2>row, <2>7
  <2>8. ASSUME NEW w \in Worker, ClaimJobs(w) \/ ClaimLost(w) PROVE FALSE
    <3>1. QueueOf[w] \in Queue /\ \E S \in SUBSET Job : Claim(w, QueueOf[w], S)
      BY <2>8, ExecutionAssumption DEF ClaimJobs, ClaimLost
    <3> QED
      BY <2>2, <3>1
  <2> QED
    BY <2>1, <2>3, <2>4, <2>5, <2>6, <2>7, <2>8
    DEF ExecNext, RunNext, LoopNext, OutsideNext, Proceed, LoadStep, PollSignal, RecheckStep,
        CheckOwner, InsertStep, Aborts, Errs, LoseLease, Crash
<1>2. LiveRunEndsItself <=> [][Kept]_vars
  BY DEF LiveRunEndsItself
<1> HIDE DEF Kept
<1> QED
  BY <1>1, <1>2, ExecInvariant, PTL DEF ExecSpec

\* Suspend, too, keeps its promise about lease steals then: what the run with
\* shared worker ids refutes holds where every slot has an id of its own.
THEOREM ParksFenced ==
    ASSUME OneSlotPerWorker
    PROVE  ExecSpec => ParkIsFenced
<1> DEFINE Fenced == \A r \in Run :
               run[r].pc \in Ending /\ run'[r].pc = "idle" /\ jobs' # jobs
                   => holder[run[r].job] = r
           Parks == \A r \in Run :
               run[r].pc = "suspend" /\ run'[r].pc = "idle" /\ jobs' # jobs
                   => holder[run[r].job] = r
<1>1. [Fenced]_vars => [Parks]_vars
  BY DEF Ending
<1>2. WritesAreFenced <=> [][Fenced]_vars
  BY DEF WritesAreFenced
<1>3. ParkIsFenced <=> [][Parks]_vars
  BY DEF ParkIsFenced
<1> HIDE DEF Fenced, Parks
<1> QED
  BY <1>1, <1>2, <1>3, FinalWritesFenced, PTL

-----------------------------------------------------------------------------
(* Part 3: wake-ups and checkpoints. *)

Asleep(row) == row.status = "queued" /\ row.runAfter = "ahead"

\* Of a job: its mailbox and checkpoints are as far as its row says.
JobInv(j) ==
    /\ jobs[j].status = "absent" => mail[j] = 0 /\ saved[j] = {}
    /\ jobs[j].status = "pruned" => saved[j] = {}
    /\ \A i \in saved[j] : i < mail[j] /\ 0..i \subseteq saved[j]
    /\ jobs[j].status = "succeeded" => 0..Waits - 1 \subseteq saved[j]
    /\ Asleep(jobs[j]) => \A i \in 0..Waits - 1 : i < mail[j] => i \in saved[j]

\* Of a run, as long as its job's row is there: what it has read is still so.
\* Checkpoints it passed stay; a delivery it saw stays; and if the wake version
\* is still the one it claimed, the mailbox it found empty is still empty.
RunInv(r) ==
    LET s == run[r]  j == s.job
    IN  Busy(r) =>
          /\ jobs[j].status # "absent"
          /\ s.pc = "complete" => s.at = Waits
          /\ Exists(jobs[j]) =>
                /\ s.wake <= jobs[j].wake
                /\ \A i \in 0..s.at - 1 : i \in saved[j]
                /\ s.pc \in {"recheck", "check", "insert"} => s.at < mail[j]
                /\ s.pc = "suspend" /\ s.wake = jobs[j].wake => mail[j] <= s.at

WakeInv == (\A j \in Job : JobInv(j)) /\ (\A r \in Run : RunInv(r))

\* What runs rely on: the wake version and the row's existence stay.
Steady(old, new) ==
    /\ new.wake = old.wake
    /\ Exists(new) <=> Exists(old)
    /\ new.status = "absent" <=> old.status = "absent"

\* What most statements do to a row: they are steady, claim no success and put
\* no row to sleep.
Mild(old, new) ==
    /\ Steady(old, new)
    /\ new.status = "pruned" <=> old.status = "pruned"
    /\ new.status = "succeeded" => old.status = "succeeded"
    /\ Asleep(new) => Asleep(old)

\* The statements that are mild on the rows they apply to.
LEMMA MildStatements ==
    ASSUME NEW row \in Row, Exists(row)
    PROVE  /\ \A w : Mild(row, Claimed(row, w))
           /\ row.status = "running" => Mild(row, Renewed(row))
           /\ \A p \in BOOLEAN : Mild(row, Failed(row, p))
           /\ Mild(row, Canceled(row))
           /\ Mild(row, DeadLettered(row))
           /\ Mild(row, Requeued(row))
<1>0. row.status \notin {"absent", "pruned"}
  BY DEF Exists, NoRow
<1>1. ASSUME NEW new \in {[Released(row) EXCEPT !.status = s] : s \in {"canceled", "dead_letter"}}
      PROVE  Mild(row, new)
  BY <1>0, <1>1 DEF Released, Row, Mild, Steady, Asleep, Exists, NoRow
<1>2. ASSUME NEW w PROVE Mild(row, Claimed(row, w))
  <2>1. Claimed(row, w).status = "running" /\ Claimed(row, w).wake = row.wake
    BY DEF Claimed, Row
  <2> QED
    BY <1>0, <2>1 DEF Mild, Steady, Asleep, Exists, NoRow
<1>3. row.status = "running" => Mild(row, Renewed(row))
  BY DEF Renewed, Row, Mild, Steady, Asleep, Exists, NoRow
<1>4. ASSUME NEW p \in BOOLEAN PROVE Mild(row, Failed(row, p))
  <2> DEFINE s == NextStatusAfterFailure(row.attempt, row.max, p)
  <2>1. s = "dead_letter" \/ s = "retrying"
    BY DEF NextStatusAfterFailure
  <2>2. Failed(row, p).status = s /\ Failed(row, p).wake = row.wake
    BY DEF Failed, Released, Row
  <2> HIDE DEF s
  <2> QED
    BY <1>0, <2>1, <2>2 DEF Mild, Steady, Asleep, Exists, NoRow
<1>5. Mild(row, Requeued(row))
  <2>1. /\ Requeued(row).status = "queued" /\ Requeued(row).runAfter = "past"
        /\ Requeued(row).wake = row.wake
    BY DEF Requeued, Released, Row
  <2> QED
    BY <1>0, <2>1 DEF Mild, Steady, Asleep, Exists, NoRow
<1>6. Mild(row, Canceled(row)) /\ Mild(row, DeadLettered(row))
  BY <1>1 DEF Canceled, DeadLettered
<1> QED
  BY <1>2, <1>3, <1>4, <1>5, <1>6

\* Time is mild on any row.
LEMMA MildTime ==
    ASSUME NEW row \in Row
    PROVE  /\ Mild(row, row)
           /\ Mild(row, [row EXCEPT !.lease = "expired"])
           /\ Mild(row, [row EXCEPT !.runAfter = "past"])
BY DEF Row, Mild, Steady, Asleep, Exists, NoRow

\* Mild steps of the table keep what jobs and undisturbed runs rely on.
LEMMA MildJobs ==
    ASSUME WakeInv, UNCHANGED <<mail, saved>>, NEW j \in Job, Mild(jobs[j], jobs'[j])
    PROVE  JobInv(j)'
BY DEF WakeInv, JobInv, Mild, Steady

LEMMA SteadyRuns ==
    ASSUME ExecTypeOK, WakeInv, UNCHANGED <<mail, saved>>,
           \A j \in Job : Steady(jobs[j], jobs'[j]),
           NEW r \in Run, run'[r] = run[r] \/ run'[r].pc = "idle"
    PROVE  RunInv(r)'
<1>1. CASE run'[r].pc = "idle"
  BY <1>1 DEF RunInv, Busy
<1>2. CASE run'[r] = run[r] /\ Busy(r)
  <2>1. run[r].job \in Job
    BY <1>2 DEF ExecTypeOK
  <2>2. Steady(jobs[run[r].job], jobs'[run[r].job])
    BY <2>1
  <2> QED
    BY <1>2, <2>1, <2>2 DEF WakeInv, RunInv, Steady, Busy
<1> QED
  BY <1>1, <1>2 DEF Busy

LEMMA MildRuns ==
    ASSUME ExecTypeOK, WakeInv, UNCHANGED <<mail, saved>>,
           \A j \in Job : Mild(jobs[j], jobs'[j]),
           NEW r \in Run, run'[r] = run[r] \/ run'[r].pc = "idle"
    PROVE  RunInv(r)'
BY SteadyRuns DEF Mild

\* A step of the executions alone: only the run that moves needs a look.
LEMMA RunsAlone ==
    ASSUME StoreInv, ExecTypeOK, WakeInv, UNCHANGED <<jobs, mail, saved>>,
           \A r \in Run : run'[r] = run[r] \/ run'[r].pc = "idle" \/ RunInv(r)'
    PROVE  WakeInv'
<1>1. \A j \in Job : Mild(jobs[j], jobs'[j])
  BY MildTime DEF StoreInv
<1> QED
  BY <1>1, MildJobs, MildRuns DEF WakeInv

\* A mild step of the table that moves no run, or frees some.
LEMMA MildStep ==
    ASSUME ExecTypeOK, WakeInv, UNCHANGED <<mail, saved>>,
           \A j \in Job : Mild(jobs[j], jobs'[j]),
           \A r \in Run : run'[r] = run[r] \/ run'[r].pc = "idle"
    PROVE  WakeInv'
BY MildJobs, MildRuns DEF WakeInv

\* Writing one row mildly.
LEMMA MildRow ==
    ASSUME StoreInv, NEW j \in Job, NEW row, SetRow(j, row), Mild(jobs[j], row)
    PROVE  \A i \in Job : Mild(jobs[i], jobs'[i])
BY MildTime DEF StoreInv, SetRow

\* A run that goes on to the next wait: the checkpoint it passed is there.
LEMMA AdvanceWake ==
    ASSUME ExecTypeOK, WakeInv, NEW r \in Run, run[r].pc \in Executing, Advance(r),
           UNCHANGED <<jobs, mail>>,
           \A j \in Job : saved[j] \subseteq saved'[j],
           Exists(JobOf(r)) => run[r].at \in saved'[run[r].job]
    PROVE  RunInv(r)'
<1> DEFINE j  == run[r].job
           a  == run[r].at
           pc == IF a + 1 < Waits THEN "load" ELSE "complete"
<1>1. /\ run[r] \in RunState /\ Busy(r) /\ j \in Job
      /\ a \in Nat /\ a < Waits /\ Waits \in Nat
  BY Phases, ExecutionAssumption DEF ExecTypeOK, RunState, Busy
<1>2. /\ run'[r].pc = pc /\ run'[r].at = a + 1 /\ run'[r].job = j
      /\ run'[r].wake = run[r].wake
  BY <1>1 DEF Advance, Resume, ExecTypeOK, RunState
<1>3. pc \in {"load", "complete"} /\ (pc = "complete" => a + 1 = Waits)
  BY <1>1
<1>4. ASSUME Exists(jobs[j]), NEW i \in 0..(a + 1) - 1 PROVE i \in saved'[j]
  <2>1. i = a \/ i \in 0..a - 1
    BY <1>1
  <2>2. \A k \in 0..a - 1 : k \in saved[j]
    BY <1>1, <1>4 DEF WakeInv, RunInv
  <2> QED
    BY <1>1, <1>4, <2>1, <2>2 DEF JobOf
<1>5. jobs[j].status # "absent" /\ (Exists(jobs[j]) => run[r].wake <= jobs[j].wake)
  BY <1>1 DEF WakeInv, RunInv
<1> HIDE DEF j, a, pc
<1> QED
  BY <1>1, <1>2, <1>3, <1>4, <1>5 DEF RunInv

\* A run that changes its pc only keeps what it knows.
LEMMA BecomeWake ==
    ASSUME ExecTypeOK, WakeInv, NEW r \in Run, Busy(r), NEW pc, Become(r, pc),
           UNCHANGED <<jobs, mail, saved>>,
           pc # "complete",
           pc \in {"recheck", "check", "insert"}
               => \/ run[r].pc \in {"recheck", "check", "insert"}
                  \/ run[r].at < mail[run[r].job],
           pc = "suspend" => mail[run[r].job] <= run[r].at
    PROVE  RunInv(r)'
<1>1. /\ run'[r].pc = pc /\ run'[r].at = run[r].at /\ run'[r].job = run[r].job
      /\ run'[r].wake = run[r].wake
  BY DEF Become, ExecTypeOK, RunState
<1> QED
  BY <1>1 DEF WakeInv, RunInv

\* Only the run that moves changes.
LEMMA OthersStay ==
    ASSUME ExecTypeOK, NEW r \in Run,
           Advance(r) \/ (\E pc : Become(r, pc)) \/ run' = [run EXCEPT ![r] = Idle]
           \/ run' = [run EXCEPT ![r].ctx = "canceled"]
    PROVE  \A q \in Run : q # r => run'[q] = run[q]
BY DEF Advance, Become, ExecTypeOK

\* Every action keeps what wake-ups and checkpoints rest on.
LEMMA WakeNext == StoreInv /\ ExecTypeOK /\ WakeInv /\ [ExecNext]_vars => WakeInv'
<1> SUFFICES ASSUME StoreInv, ExecTypeOK, WakeInv, [ExecNext]_vars PROVE WakeInv'
  OBVIOUS
<1>row. \A j \in Job : jobs[j] \in Row
  BY DEF StoreInv
<1>alone. ASSUME NEW r \in Run, UNCHANGED <<jobs, mail, saved>>, RunInv(r)',
                 \A q \in Run : q # r => run'[q] = run[q]
          PROVE  WakeInv'
  BY <1>alone, RunsAlone
<1>1. ASSUME NEW r \in Run, LoadStep(r) PROVE WakeInv'
  <2>1. /\ run[r].pc \in Executing /\ Busy(r)
        /\ UNCHANGED <<jobs, mail, saved>>
    BY <1>1, Phases DEF LoadStep, Live, Busy
  <2>2. CASE run[r].at \in saved[run[r].job] /\ Advance(r)
    BY <2>1, <2>2, <1>alone, AdvanceWake, OthersStay
  <2>3. CASE Become(r, "poll")
    BY <2>1, <2>3, <1>alone, BecomeWake, OthersStay
  <2> QED
    BY <1>1, <2>2, <2>3 DEF LoadStep
<1>2. ASSUME NEW r \in Run, PollSignal(r) PROVE WakeInv'
  <2>1. Busy(r) /\ UNCHANGED <<jobs, mail, saved>>
    BY <1>2 DEF PollSignal, Live, Busy
  <2>2. run[r].at \in Nat /\ mail[run[r].job] \in Nat
    BY <2>1, ExecutionAssumption DEF ExecTypeOK, RunState
  <2>3. CASE Delivered(run[r].job, run[r].at)
    <3>1. Become(r, "recheck") /\ run[r].at < mail[run[r].job]
      BY <1>2, <2>3 DEF PollSignal, Delivered
    <3> QED
      BY <2>1, <3>1, <1>alone, BecomeWake, OthersStay
  <2>4. CASE ~Delivered(run[r].job, run[r].at)
    <3>1. Become(r, "suspend") /\ mail[run[r].job] <= run[r].at
      BY <1>2, <2>2, <2>4 DEF PollSignal, Delivered
    <3> QED
      BY <2>1, <3>1, <1>alone, BecomeWake, OthersStay
  <2> QED
    BY <2>3, <2>4
<1>3. ASSUME NEW r \in Run, RecheckStep(r) PROVE WakeInv'
  <2>1. /\ run[r].pc = "recheck" /\ run[r].pc \in Executing /\ Busy(r)
        /\ UNCHANGED <<jobs, mail, saved>>
    BY <1>3, Phases DEF RecheckStep, Live, Busy
  <2>2. CASE run[r].at \in saved[run[r].job] /\ Advance(r)
    BY <2>1, <2>2, <1>alone, AdvanceWake, OthersStay
  <2>3. CASE Become(r, "check")
    BY <2>1, <2>3, <1>alone, BecomeWake, OthersStay
  <2> QED
    BY <1>3, <2>2, <2>3 DEF RecheckStep
<1>4. ASSUME NEW r \in Run, CheckOwner(r) PROVE WakeInv'
  <2>1. run[r].pc = "check" /\ Busy(r) /\ UNCHANGED <<jobs, mail, saved>>
    BY <1>4 DEF CheckOwner, Busy
  <2>2. Become(r, "insert") \/ Become(r, "fail")
    BY <1>4 DEF CheckOwner
  <2> QED
    BY <2>1, <2>2, <1>alone, BecomeWake, OthersStay
<1>5. ASSUME NEW r \in Run, Aborts(r) PROVE WakeInv'
  <2>1. Busy(r) /\ UNCHANGED <<jobs, mail, saved>> /\ Become(r, "fail")
    BY <1>5 DEF Aborts, Cancelable, Busy
  <2> QED
    BY <2>1, <1>alone, BecomeWake, OthersStay
<1>6. ASSUME NEW r \in Run, Errs(r) PROVE WakeInv'
  <2>1. UNCHANGED <<jobs, mail, saved>>
    BY <1>6 DEF Errs
  <2>2. CASE Busy(r) /\ (Become(r, "fail") \/ Become(r, "permanent"))
    BY <2>1, <2>2, <1>alone, BecomeWake, OthersStay
  <2>3. CASE run' = [run EXCEPT ![r] = Idle]
    <3>1. RunInv(r)'
      BY <2>3 DEF RunInv, Busy, Idle, ExecTypeOK
    <3> QED
      BY <2>1, <2>3, <3>1, <1>alone, OthersStay
  <2> QED
    BY <1>6, <2>2, <2>3, Phases DEF Errs, Busy
<1>7. ASSUME NEW r \in Run, LoseLease(r) PROVE WakeInv'
  <2>1. /\ UNCHANGED <<jobs, mail, saved>>
        /\ run' = [run EXCEPT ![r].ctx = "canceled"]
    BY <1>7 DEF LoseLease
  <2>2. /\ run'[r].pc = run[r].pc /\ run'[r].at = run[r].at
        /\ run'[r].job = run[r].job /\ run'[r].wake = run[r].wake
    BY <2>1 DEF ExecTypeOK, RunState
  <2>3. RunInv(r)'
    BY <2>1, <2>2 DEF WakeInv, RunInv, Busy
  <2> QED
    BY <2>1, <2>3, <1>alone, OthersStay
<1>8. ASSUME NEW r \in Run, InsertStep(r) PROVE WakeInv'
  <2>0. PICK j, a : j = run[r].job /\ a = run[r].at
    OBVIOUS
  <2>1. /\ run[r].pc = "insert" /\ run[r].pc \in Executing /\ Busy(r) /\ j \in Job
        /\ UNCHANGED <<jobs, mail>> /\ a \in Nat
    BY <1>8, <2>0, Phases, ExecutionAssumption
    DEF InsertStep, Busy, ExecTypeOK, RunState
  <2>2. CASE Exists(JobOf(r))
    <3>1. saved' = [saved EXCEPT ![j] = @ \cup {a}] /\ Advance(r)
      BY <1>8, <2>0, <2>2 DEF InsertStep
    <3>2. \A i \in Job : i # j => saved'[i] = saved[i]
      BY <3>1 DEF ExecTypeOK
    <3>3. saved'[j] = saved[j] \cup {a}
      BY <2>1, <3>1 DEF ExecTypeOK
    <3>4. a < mail[j] /\ \A i \in 0..a - 1 : i \in saved[j]
      BY <2>0, <2>1, <2>2 DEF WakeInv, RunInv, JobOf
    <3>5. RunInv(r)'
      BY <2>0, <2>1, <3>1, <3>2, <3>3, AdvanceWake
    <3>6. ASSUME NEW q \in Run, q # r PROVE RunInv(q)'
      <4>1. run'[q] = run[q]
        BY <3>1, <3>6, OthersStay
      <4>2. Busy(q) => saved[run[q].job] \subseteq saved'[run[q].job]
        BY <3>2, <3>3 DEF ExecTypeOK
      <4> QED
        BY <2>1, <4>1, <4>2 DEF WakeInv, RunInv, Busy
    <3>7. ASSUME NEW i \in Job, i # j PROVE JobInv(i)'
      BY <2>1, <3>2, <3>7 DEF WakeInv, JobInv
    <3>8. JobInv(j)'
      <4>1. 0..a \subseteq saved'[j]
        <5>1. \A i \in 0..a : i = a \/ i \in 0..a - 1
          BY <2>1
        <5> QED
          BY <3>3, <3>4, <5>1
      <4>2. jobs[j].status \notin {"absent", "pruned"}
        BY <2>0, <2>2 DEF JobOf, Exists, NoRow
      <4> QED
        BY <2>1, <3>3, <3>4, <4>1, <4>2 DEF WakeInv, JobInv
    <3> QED
      BY <3>5, <3>6, <3>7, <3>8 DEF WakeInv
  <2>3. CASE ~Exists(JobOf(r))
    <3>1. Become(r, "fail") /\ UNCHANGED saved
      BY <1>8, <2>3 DEF InsertStep
    <3> QED
      BY <2>1, <3>1, <1>alone, BecomeWake, OthersStay
  <2> QED
    BY <2>2, <2>3
<1>9. ASSUME NEW r \in Run, Finish(r) PROVE WakeInv'
  <2>0. PICK j : j = run[r].job
    OBVIOUS
  <2>1. /\ UNCHANGED <<mail, saved>>
        /\ run' = [run EXCEPT ![r] = Idle]
        /\ \A q \in Run : run'[q] = run[q] \/ run'[q].pc = "idle"
    BY <1>9 DEF Finish, Idle, ExecTypeOK
  <2>2. CASE Rejected(r)
    <3>1. \A i \in Job : Mild(jobs[i], jobs'[i])
      BY <2>2, MildTime, <1>row DEF Rejected
    <3> QED
      BY <2>1, <3>1, MildStep
  <2>3. CASE FinalWrite(r)
    <3>1. Busy(r) /\ j \in Job
      BY <2>0, <2>3 DEF FinalWrite, Busy, ExecTypeOK
    <3>2. jobs[j].status = "running" /\ Exists(jobs[j]) /\ jobs[j] \in Row
      BY <2>0, <2>3, <3>1, <1>row
      DEF FinalWrite, Suspend, Parkable, Complete, Fail, Owned, Exists, NoRow
    <3>3. ASSUME NEW p \in BOOLEAN, Fail(WorkerOf[r], j, p) PROVE WakeInv'
      <4>1. SetRow(j, Failed(jobs[j], p)) /\ Mild(jobs[j], Failed(jobs[j], p))
        BY <3>2, <3>3, MildStatements DEF Fail
      <4> QED
        BY <2>1, <3>1, <4>1, MildRow, MildStep
    \* The two writes that are not mild: a success and a park.
    <3>4. ASSUME NEW new, SetRow(j, new), Steady(jobs[j], new),
                 new.status \in {"succeeded", "queued"},
                 new.status = "succeeded" => 0..Waits - 1 \subseteq saved[j],
                 Asleep(new) => \A i \in 0..Waits - 1 : i < mail[j] => i \in saved[j]
          PROVE  WakeInv'
      <4>1. jobs'[j] = new /\ \A i \in Job : i # j => jobs'[i] = jobs[i]
        BY <3>1, <3>4 DEF SetRow, StoreInv
      <4>2. \A i \in Job : Steady(jobs[i], jobs'[i])
        BY <3>4, <4>1 DEF Steady
      <4>3. \A q \in Run : RunInv(q)'
        BY <2>1, <4>2, SteadyRuns
      <4>4. ASSUME NEW i \in Job, i # j PROVE JobInv(i)'
        BY <2>1, <4>1, <4>4 DEF WakeInv, JobInv
      <4>5. JobInv(j)'
        BY <2>1, <3>1, <3>4, <4>1 DEF WakeInv, JobInv
      <4> QED
        BY <4>3, <4>4, <4>5 DEF WakeInv
    <3>5. CASE run[r].pc = "complete" /\ Complete(WorkerOf[r], j)
      <4>1. 0..Waits - 1 \subseteq saved[j]
        BY <2>0, <3>1, <3>2, <3>5 DEF WakeInv, RunInv
      <4>2. SetRow(j, Succeeded(jobs[j]))
        BY <3>5 DEF Complete
      <4>3. /\ Succeeded(jobs[j]).status = "succeeded"
            /\ Succeeded(jobs[j]).wake = jobs[j].wake
        BY <3>2 DEF Succeeded, Released, Row
      <4>4. Steady(jobs[j], Succeeded(jobs[j])) /\ ~Asleep(Succeeded(jobs[j]))
        BY <3>2, <4>3 DEF Steady, Exists, NoRow, Asleep
      <4> QED
        BY <4>1, <4>2, <4>3, <4>4, <3>4
    <3>6. CASE run[r].pc = "suspend" /\ Suspend(WorkerOf[r], j, run[r].wake)
      <4> DEFINE a == run[r].at
      <4>1. /\ SetRow(j, Suspended(jobs[j])) /\ run[r].wake = jobs[j].wake
        BY <3>6 DEF Suspend, Parkable
      <4>2. mail[j] <= a /\ \A i \in 0..a - 1 : i \in saved[j]
        BY <2>0, <3>1, <3>2, <3>6, <4>1 DEF WakeInv, RunInv
      <4>3. a \in Nat /\ mail[j] \in Nat
        BY <3>1, ExecutionAssumption DEF ExecTypeOK, RunState
      <4>4. \A i \in 0..Waits - 1 : i < mail[j] => i \in saved[j]
        <5>1. \A i \in 0..Waits - 1 : i < mail[j] => i \in 0..a - 1
          <6> HIDE DEF a
          <6> QED
            BY <4>2, <4>3, ExecutionAssumption
        <5> QED
          BY <4>2, <5>1
      <4>5. /\ Suspended(jobs[j]).status = "queued"
            /\ Suspended(jobs[j]).wake = jobs[j].wake
        BY <3>2 DEF Suspended, Released, Row
      <4>6. Steady(jobs[j], Suspended(jobs[j]))
        BY <3>2, <4>5 DEF Steady, Exists, NoRow
      <4> QED
        BY <4>1, <4>4, <4>5, <4>6, <3>4
    <3> QED
      BY <2>0, <2>3, <3>3, <3>5, <3>6 DEF FinalWrite
  <2> QED
    BY <1>9, <2>2, <2>3 DEF Finish
<1>10. ASSUME NEW r \in Run, Renew(r) PROVE WakeInv'
  <2> DEFINE j == run[r].job
  <2>1. j \in Job /\ UNCHANGED <<run, mail, saved>>
    BY <1>10, Phases DEF Renew, ExecTypeOK, Busy
  <2>2. jobs[j].status = "running" /\ SetRow(j, Renewed(jobs[j]))
    BY <1>10 DEF Renew, Heartbeat, Owned
  <2>3. Mild(jobs[j], Renewed(jobs[j]))
    BY <2>1, <2>2, <1>row, MildStatements DEF Exists, NoRow
  <2> HIDE DEF j
  <2> QED
    BY <2>1, <2>2, <2>3, MildRow, MildStep
\* A claim is mild whoever it is for.
<1>claim. ASSUME NEW w, NEW q, NEW S \in SUBSET Job, Claim(w, q, S)
          PROVE  \A j \in Job : Mild(jobs[j], jobs'[j]) /\ (j \in S => Exists(jobs[j]))
  <2> SUFFICES ASSUME NEW j \in Job
               PROVE  Mild(jobs[j], jobs'[j]) /\ (j \in S => Exists(jobs[j]))
    OBVIOUS
  <2>1. CASE j \in S
    <3>1. Exists(jobs[j]) /\ jobs'[j] = Claimed(jobs[j], w)
      BY <1>claim, <2>1 DEF Claim, Claimable, Stolen, Waiting, Exists, NoRow
    <3> QED
      BY <3>1, <1>row, MildStatements
  <2>2. CASE j \notin S
    BY <1>claim, <2>2, <1>row, MildTime DEF Claim
  <2> QED
    BY <2>1, <2>2
<1>11. ASSUME NEW w \in Worker, ClaimJobs(w) PROVE WakeInv'
  <2>0. PICK S \in SUBSET Job : Claim(w, QueueOf[w], S) /\ \E place : ClaimEffect(w, S, place)
    BY <1>11, ClaimJobsEffect
  <2>1. PICK place : Claim(w, QueueOf[w], S) /\ ClaimEffect(w, S, place)
    BY <2>0
  <2>2. UNCHANGED <<mail, saved>>
    BY <1>11 DEF ClaimJobs
  <2>3. \A j \in Job : Mild(jobs[j], jobs'[j]) /\ (j \in S => Exists(jobs[j]))
    BY <2>1, <1>claim
  <2>4. \A j \in Job : JobInv(j)'
    BY <2>2, <2>3, MildJobs
  <2>5. ASSUME NEW r \in Run PROVE RunInv(r)'
    <3>1. CASE run'[r] = run[r]
      BY <2>2, <2>3, <3>1, MildRuns
    <3>2. CASE \E j \in S : run'[r] = Started(j)
      <4>1. PICK j \in S : run'[r] = Started(j)
        BY <3>2
      <4>2. /\ run'[r].job = j /\ run'[r].at = 0 /\ run'[r].wake = jobs[j].wake
            /\ run'[r].pc \in {"load", "complete"}
            /\ run'[r].pc = "complete" => Waits = 0
        BY <4>1, StartedOK
      <4>3. Exists(jobs[j]) /\ Exists(jobs'[j]) /\ jobs'[j].wake = jobs[j].wake
        BY <2>3 DEF Mild, Steady
      <4>4. jobs'[j].status # "absent" /\ jobs[j].wake <= jobs[j].wake
        BY <4>3, <1>row, RequestAssumption DEF Exists, NoRow, Row
      <4> QED
        BY <4>2, <4>3, <4>4 DEF RunInv
    <3> QED
      BY <2>1, <3>1, <3>2 DEF ClaimEffect
  <2> QED
    BY <2>4, <2>5 DEF WakeInv
<1>12. ASSUME NEW w \in Worker, ClaimLost(w) PROVE WakeInv'
  <2>1. UNCHANGED <<run, mail, saved>> /\ \E S \in SUBSET Job : Claim(w, QueueOf[w], S)
    BY <1>12 DEF ClaimLost
  <2>2. \A j \in Job : Mild(jobs[j], jobs'[j])
    BY <2>1, <1>claim
  <2> QED
    BY <2>1, <2>2, MildStep
<1>13. ASSUME NEW w \in Worker, Prune(w) PROVE WakeInv'
  <2>1. PICK S \in SUBSET Job :
            /\ PruneCompleted(QueueOf[w], S)
            /\ mail' = [j \in Job |-> IF j \in S THEN 0 ELSE mail[j]]
            /\ saved' = [j \in Job |-> IF j \in S THEN {} ELSE saved[j]]
            /\ UNCHANGED <<run, holder>>
    BY <1>13 DEF Prune
  <2>2. \A j \in S : jobs'[j] = Pruned /\ mail'[j] = 0 /\ saved'[j] = {}
    BY <2>1 DEF PruneCompleted
  <2>3. \A j \in Job \ S : jobs'[j] = jobs[j] /\ mail'[j] = mail[j] /\ saved'[j] = saved[j]
    BY <2>1 DEF PruneCompleted
  <2>4. Pruned.status = "pruned"
    BY DEF Pruned, Default
  <2>5. ASSUME NEW j \in Job PROVE JobInv(j)'
    <3>1. CASE j \in S
      BY <2>2, <2>4, <3>1 DEF JobInv, Asleep
    <3>2. CASE j \notin S
      BY <2>3, <3>2 DEF WakeInv, JobInv
    <3> QED
      BY <3>1, <3>2
  <2>6. ASSUME NEW r \in Run, Busy(r) PROVE RunInv(r)'
    <3>1. run[r].job \in Job /\ UNCHANGED run
      BY <2>1, <2>6 DEF ExecTypeOK
    <3>2. CASE run[r].job \in S
      <4>1. PICK j : j = run[r].job
        OBVIOUS
      <4>2. jobs'[j].status = "pruned" /\ run'[r].job = j
        BY <2>2, <2>4, <3>1, <3>2, <4>1
      <4>3. ~Exists(jobs'[j]) /\ jobs'[j].status # "absent"
        BY <4>2 DEF Exists, NoRow
      <4>4. run'[r].pc = "complete" => run'[r].at = Waits
        BY <2>6, <3>1 DEF WakeInv, RunInv
      <4> QED
        BY <4>2, <4>3, <4>4 DEF RunInv
    <3>3. CASE run[r].job \notin S
      BY <2>3, <3>1, <3>3 DEF WakeInv, RunInv, Busy
    <3> QED
      BY <3>2, <3>3
  <2> QED
    BY <2>1, <2>5, <2>6 DEF WakeInv, RunInv, Busy
<1>14. ASSUME NEW w \in Worker, Crash(w) PROVE WakeInv'
  <2>1. UNCHANGED <<jobs, mail, saved>> /\ \A r \in Run : run'[r] = run[r] \/ run'[r].pc = "idle"
    BY <1>14 DEF Crash, Idle
  <2> QED
    BY <2>1, RunsAlone
<1>15. CASE Sweep
  <2>1. PICK S \in SUBSET Job : DeadLetterExhausted(S)
    BY <1>15 DEF Sweep
  <2>2. ASSUME NEW j \in Job PROVE Mild(jobs[j], jobs'[j])
    <3>1. CASE j \in S
      <4>1. Exists(jobs[j]) /\ jobs'[j] = DeadLettered(jobs[j])
        BY <2>1, <3>1 DEF DeadLetterExhausted, Exhausted, Stolen, Exists, NoRow
      <4> QED
        BY <4>1, <1>row, MildStatements
    <3>2. CASE j \notin S
      BY <2>1, <3>2, <1>row, MildTime DEF DeadLetterExhausted
    <3> QED
      BY <3>1, <3>2
  <2> QED
    BY <1>15, <2>2, MildStep DEF Sweep
<1>16. ASSUME NEW j \in Job, Deliver(j) PROVE WakeInv'
  <2>1. /\ Exists(jobs[j]) /\ SetRow(j, Woken(jobs[j]))
        /\ mail' = [mail EXCEPT ![j] = @ + 1] /\ UNCHANGED <<run, saved>>
    BY <1>16 DEF Deliver, Signal, Active
  <2>2. /\ jobs[j] \in Row /\ jobs[j].wake \in Nat /\ mail[j] \in Nat
    BY <1>row, RequestAssumption DEF Row, ExecTypeOK
  <2>3. /\ jobs'[j] = Woken(jobs[j]) /\ mail'[j] = mail[j] + 1
        /\ \A i \in Job : i # j => jobs'[i] = jobs[i] /\ mail'[i] = mail[i]
    BY <2>1 DEF SetRow, StoreInv, ExecTypeOK
  <2> DEFINE v == jobs[j].wake + 1
             m == mail[j] + 1
  <2>4. /\ jobs'[j].wake = v /\ jobs'[j].status = jobs[j].status
        /\ jobs'[j].runAfter = "past"
    BY <2>2, <2>3 DEF Woken, Row
  <2>5. ASSUME NEW i \in Job PROVE JobInv(i)'
    <3>1. CASE i # j
      BY <2>1, <2>3, <3>1 DEF WakeInv, JobInv
    <3>2. CASE i = j
      <4>1. \A k \in saved[j] : k < m
        BY <2>2 DEF WakeInv, JobInv, ExecTypeOK
      <4>2. jobs[j].status \notin {"absent", "pruned"}
        BY <2>1 DEF Exists, NoRow
      <4> HIDE DEF m
      <4>3. mail'[j] = m
        BY <2>3 DEF m
      <4> QED
        BY <2>1, <2>4, <3>2, <4>1, <4>2, <4>3 DEF WakeInv, JobInv, Asleep
    <3> QED
      BY <3>1, <3>2
  <2>6. ASSUME NEW r \in Run, Busy(r) PROVE RunInv(r)'
    <3>1. run[r].job \in Job /\ run[r].at \in Nat /\ run[r].wake \in Nat
      BY <2>6, ExecutionAssumption DEF ExecTypeOK, RunState
    <3>2. CASE run[r].job # j
      BY <2>1, <2>3, <3>1, <3>2 DEF WakeInv, RunInv, Busy
    <3>3. CASE run[r].job = j
      <4>1. /\ jobs[j].status # "absent"
            /\ run[r].pc = "complete" => run[r].at = Waits
            /\ run[r].wake <= jobs[j].wake
            /\ \A i \in 0..run[r].at - 1 : i \in saved[j]
            /\ run[r].pc \in {"recheck", "check", "insert"} => run[r].at < mail[j]
        BY <2>1, <2>6, <3>3 DEF WakeInv, RunInv
      <4>2. /\ run[r].wake <= v /\ run[r].wake # v
            /\ run[r].at < mail[j] => run[r].at < m
        BY <2>2, <3>1, <4>1
      <4> HIDE DEF v, m
      <4>3. mail'[j] = m
        BY <2>3 DEF m
      <4> QED
        BY <2>1, <2>4, <3>3, <4>1, <4>2, <4>3 DEF RunInv
    <3> QED
      BY <3>2, <3>3
  <2> QED
    BY <2>1, <2>5, <2>6 DEF WakeInv, RunInv, Busy
<1>17. ASSUME NEW j \in Job, Request(j) PROVE WakeInv'
  <2>1. UNCHANGED <<run, mail, saved>>
    BY <1>17 DEF Request
  <2>2. ASSUME NEW new, SetRow(j, new), Mild(jobs[j], new) PROVE WakeInv'
    BY <2>1, <2>2, MildRow, MildStep
  <2>3. CASE Cancel(j)
    BY <2>2, <2>3, <1>row, MildStatements DEF Cancel, Active
  <2>4. CASE RetryDeadLetter(j)
    BY <2>2, <2>4, <1>row, MildStatements DEF RetryDeadLetter, Exists, NoRow
  <2>5. ASSUME NEW q \in Queue, NEW m \in RequestedMax, NEW d \in {"past", "ahead"},
               Enqueue(j, q, m, d, NoKey)
        PROVE  WakeInv'
    <3>1. /\ jobs[j].status = "absent" /\ mail[j] = 0 /\ saved[j] = {}
      BY <2>5 DEF Enqueue, WakeInv, JobInv
    <3>2. /\ jobs'[j].status = "queued"
          /\ \A i \in Job : i # j => jobs'[i] = jobs[i]
      BY <2>5 DEF Enqueue, SetRow, StoreInv, Enqueued, Default
    <3>3. JobInv(j)'
      BY <2>1, <3>1, <3>2, ExecutionAssumption DEF JobInv
    <3>4. ASSUME NEW i \in Job, i # j PROVE JobInv(i)'
      BY <2>1, <3>2, <3>4 DEF WakeInv, JobInv
    <3>5. ASSUME NEW r \in Run PROVE RunInv(r)'
      <4>1. Busy(r) => run[r].job \in Job /\ run[r].job # j
        BY <3>1 DEF WakeInv, RunInv, ExecTypeOK
      <4> QED
        BY <2>1, <3>2, <4>1 DEF WakeInv, RunInv, Busy
    <3> QED
      BY <3>3, <3>4, <3>5 DEF WakeInv
  <2> QED
    BY <1>17, <2>3, <2>4, <2>5 DEF Request
<1>18. ASSUME NEW j \in Job, LeaseLapses(j) \/ TimerFires(j) PROVE WakeInv'
  <2>1. UNCHANGED <<run, mail, saved>>
    BY <1>18 DEF LeaseLapses, TimerFires
  <2>2. \/ SetRow(j, [jobs[j] EXCEPT !.lease = "expired"])
        \/ SetRow(j, [jobs[j] EXCEPT !.runAfter = "past"])
    BY <1>18 DEF LeaseLapses, LeaseExpires, TimerFires, ComesDue
  <2>3. \A i \in Job : Mild(jobs[i], jobs'[i])
    BY <2>2, <1>row, MildTime, MildRow
  <2> QED
    BY <2>1, <2>3, MildStep
<1>19. CASE UNCHANGED vars
  BY <1>19, RunsAlone DEF vars
<1> QED
  BY <1>1, <1>2, <1>3, <1>4, <1>5, <1>6, <1>7, <1>8, <1>9, <1>10, <1>11, <1>12,
     <1>13, <1>14, <1>15, <1>16, <1>17, <1>18, <1>19
  DEF ExecNext, RunNext, LoopNext, OutsideNext, Proceed

\* Wake-ups and checkpoints are sound in every state.
THEOREM WakeInvariant == ExecSpec => []WakeInv
<1>1. ExecInit => WakeInv
  <2>1. Default.status = "absent"
    BY DEF Default
  <2> QED
    BY <2>1 DEF ExecInit, Init, WakeInv, JobInv, RunInv, Busy, Idle, Asleep
<1>2. ExecSpec => [](StoreInv /\ ExecTypeOK) /\ [][ExecNext]_vars /\ ExecInit
  BY ExecInvariant, PTL DEF ExecSpec
<1> QED
  BY <1>1, <1>2, WakeNext, PTL

\* No job sleeps on a signal its mailbox already holds: the wake version fences
\* every interleaving of mailbox check, delivery and park, for any number of
\* workers, slots (also of one worker id) and signals.
THEOREM WakeupsKept == ExecSpec => []NoLostWakeup
<1>1. WakeInv => NoLostWakeup
  BY DEF WakeInv, JobInv, NoLostWakeup, Asleep
<1> QED
  BY <1>1, WakeInvariant, PTL

\* Every checkpoint stands for a delivery, leaves no gap, and a success has
\* consumed every signal.
THEOREM CheckpointsSound == ExecSpec => []ConsumedDelivered
<1>1. WakeInv => ConsumedDelivered
  BY DEF WakeInv, JobInv, ConsumedDelivered
<1> QED
  BY <1>1, WakeInvariant, PTL
=============================================================================
