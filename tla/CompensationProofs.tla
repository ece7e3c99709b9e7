------------------------- MODULE CompensationProofs -------------------------
(***************************************************************************)
(* Proofs about compensation, for every set of jobs and workers, whichever *)
(* of them have the hook, every fault and any number of revivals: a hook   *)
(* only ever unwinds a job that was dead-lettered.                         *)
(***************************************************************************)
EXTENDS Compensation, JobStoreProofs

\* OnlyTheDead alone is not inductive: a hook that is about to run must have
\* been decided on for a job that died, and a row that says dead_letter must
\* have been counted.  What a look-up reads may be stale by the time the hook
\* runs, but died only grows.
Mourned ==
    /\ \A w \in Worker : reaped[w] \subseteq died
    /\ \A a \in Agent : comp[a].pc = "hook" => comp[a].job \in died
    /\ \A j \in Job : jobs[j].status = "dead_letter" => j \in died
    /\ \A j \in Job : undone[j] > 0 => j \in died

Stage(c) == c = NoComp \/ (c.pc \in {"lookup", "hook"} /\ c.job \in Job)

CompShape ==
    /\ work \in [Worker -> Job \cup {Nobody}]
    /\ reaped \in [Worker -> SUBSET Job]
    /\ comp \in [Agent -> [pc : {"idle", "lookup", "hook"}, job : Job \cup {Nobody}]]
    /\ \A a \in Agent : Stage(comp[a])
    /\ undone \in [Job -> Nat]
    /\ revivals \in Nat /\ revivals <= MaxRevivals
    /\ \A w \in Worker : comp[<<w, "run">>] # NoComp => work[w] = Nobody

CompInv == StoreInv /\ CompShape /\ Mourned

-----------------------------------------------------------------------------
\* The agents of a worker.
LEMMA Agents ==
    /\ \A w \in Worker : <<w, "run">> \in Agent /\ <<w, "loop">> \in Agent
    /\ \A a \in Agent : Of(a) \in Worker
BY DEF Agent, Of

\* Statements on rows, as the table's next-state relation.
LEMMA CompTableStep == CompInv /\ [CompNext]_compVars => [Next]_jobs
<1> SUFFICES ASSUME CompInv, [CompNext]_compVars
             PROVE  [Next]_jobs
  OBVIOUS
<1>1. work \in [Worker -> Job \cup {Nobody}]
  BY DEF CompInv, CompShape
<1>2. CASE UNCHANGED compVars
  BY <1>2 DEF compVars
<1>3. ASSUME NEW w \in Worker, WorkerStep(w)
      PROVE  [Next]_jobs
  <2>1. CASE ClaimJob(w)
    <3>1. PICK q \in Queue, j \in Job : Claim(w, q, {j})
      BY <2>1 DEF ClaimJob
    <3>2. {j} \in SUBSET Job
      OBVIOUS
    <3> QED
      BY <3>1, <3>2 DEF Next, WorkerNext
  <2>2. CASE EndRun(w)
    BY <1>1, <2>2 DEF EndRun, FailRun, CompleteRun, RejectedRun, Next, WorkerNext
  <2>3. CASE SweepAll(w)
    BY <2>3 DEF SweepAll, Next, SweepNext
  <2>4. CASE TakeReaped(w) \/ Crash(w)
    BY <2>4 DEF TakeReaped, Crash
  <2> QED
    BY <1>3, <2>1, <2>2, <2>3, <2>4 DEF WorkerStep
<1>4. ASSUME NEW a \in Agent, Lookup(a) \/ RunHook(a)
      PROVE  [Next]_jobs
  BY <1>4 DEF Lookup, RunHook
<1>5. ASSUME NEW j \in Job, Revive(j) \/ Outside(j)
      PROVE  [Next]_jobs
  BY <1>5 DEF Revive, Outside, Next, RequestNext, TimeNext
<1> QED
  BY <1>2, <1>3, <1>4, <1>5 DEF CompNext

\* What the statements make of a row's status.
LEMMA StatusAfter ==
    ASSUME NEW row \in Row
    PROVE  /\ \A w : Claimed(row, w).status = "running"
           /\ Succeeded(row).status = "succeeded"
           /\ Canceled(row).status = "canceled"
           /\ Requeued(row).status = "queued"
           /\ [row EXCEPT !.lease = "expired"].status = row.status
           /\ [row EXCEPT !.runAfter = "past"].status = row.status
BY DEF Row, Claimed, Succeeded, Canceled, Requeued, Released

Kills(S) == \A j \in Job \ S : jobs'[j].status = "dead_letter" => jobs[j].status = "dead_letter"

\* A statement on one row spares the others.
LEMMA SparesOthers ==
    ASSUME jobs \in [Job -> Row], NEW j \in Job, NEW r, SetRow(j, r)
    PROVE  Kills({j}) /\ jobs'[j] = r
BY DEF SetRow, Kills

\* Only Fail and the sweep dead-letter a job.
LEMMA NobodyDies ==
    ASSUME StoreInv,
           \/ \E w \in Worker, q \in Queue, j \in Job : Claim(w, q, {j})
           \/ \E w \in Worker, j \in Job : Complete(w, j)
           \/ \E j \in Job : \/ Cancel(j) \/ RetryDeadLetter(j)
                             \/ LeaseExpires(j) \/ ComesDue(j)
           \/ UNCHANGED jobs
    PROVE  Kills({})
<1>1. jobs \in [Job -> Row]
  BY DEF StoreInv
<1>2. ASSUME NEW w \in Worker, NEW q \in Queue, NEW j \in Job, Claim(w, q, {j})
      PROVE  Kills({})
  BY <1>1, <1>2, StatusAfter DEF Claim, Kills
<1>3. ASSUME NEW j \in Job, NEW r, SetRow(j, r),
             r.status = "dead_letter" => jobs[j].status = "dead_letter"
      PROVE  Kills({})
  BY <1>1, <1>3, SparesOthers DEF Kills
<1>4. ASSUME NEW w \in Worker, NEW j \in Job, Complete(w, j)
      PROVE  Kills({})
  <2>1. SetRow(j, Succeeded(jobs[j])) /\ Succeeded(jobs[j]).status = "succeeded"
    BY <1>1, <1>4, StatusAfter DEF Complete
  <2> QED
    BY <1>3, <2>1
<1>5. ASSUME NEW j \in Job, Cancel(j)
      PROVE  Kills({})
  <2>1. SetRow(j, Canceled(jobs[j])) /\ Canceled(jobs[j]).status = "canceled"
    BY <1>1, <1>5, StatusAfter DEF Cancel
  <2> QED
    BY <1>3, <2>1
<1>6. ASSUME NEW j \in Job, RetryDeadLetter(j)
      PROVE  Kills({})
  <2>1. SetRow(j, Requeued(jobs[j])) /\ Requeued(jobs[j]).status = "queued"
    BY <1>1, <1>6, StatusAfter DEF RetryDeadLetter
  <2> QED
    BY <1>3, <2>1
<1>7. ASSUME NEW j \in Job, LeaseExpires(j) \/ ComesDue(j)
      PROVE  Kills({})
  <2>1. PICK r \in {[jobs[j] EXCEPT !.lease = "expired"], [jobs[j] EXCEPT !.runAfter = "past"]} :
           SetRow(j, r)
    BY <1>7 DEF LeaseExpires, ComesDue
  <2>2. r.status = jobs[j].status
    <3>1. jobs[j] \in Row
      BY <1>1
    <3>2. /\ [jobs[j] EXCEPT !.lease = "expired"].status = jobs[j].status
          /\ [jobs[j] EXCEPT !.runAfter = "past"].status = jobs[j].status
      BY <3>1, StatusAfter
    <3> QED
      BY <3>2
  <2> QED
    BY <1>3, <2>1, <2>2
<1> QED
  BY <1>2, <1>4, <1>5, <1>6, <1>7 DEF Kills

\* Dies counts the jobs a step has dead-lettered, and only adds to the dead.
LEMMA DiesMourns ==
    ASSUME CompInv, NEW S \in SUBSET Job, NEW answered \in BOOLEAN,
           Dies(S, answered), Kills(S)
    PROVE  /\ \A j \in Job : jobs'[j].status = "dead_letter" => j \in died'
           /\ \A j \in Job : undone'[j] > 0 => j \in died'
           /\ undone' \in [Job -> Nat]
           /\ died' = died \cup S
<1>1. undone \in [Job -> Nat] /\ Mourned
  BY DEF CompInv, CompShape
<1>2. died' = died \cup S /\ undone' = [j \in Job |-> IF j \in S THEN 0 ELSE undone[j]]
  BY DEF Dies
<1>3. \A j \in Job : jobs'[j].status = "dead_letter" => j \in died'
  BY <1>1, <1>2 DEF Mourned, Kills
<1>4. undone' \in [Job -> Nat]
  BY <1>1, <1>2
<1>5. \A j \in Job : undone'[j] > 0 => j \in died'
  <2> SUFFICES ASSUME NEW j \in Job, undone'[j] > 0
               PROVE  j \in died'
    OBVIOUS
  <2>1. undone'[j] = IF j \in S THEN 0 ELSE undone[j]
    BY <1>2
  <2> QED
    BY <1>1, <1>2, <2>1 DEF Mourned
<1> QED
  BY <1>2, <1>3, <1>4, <1>5

-----------------------------------------------------------------------------
\* A step that mourns nobody and leaves the hooks alone keeps the dead in mind.
LEMMA QuietMourns ==
    ASSUME Mourned, Kills({}), UNCHANGED <<reaped, comp, died, undone>>
    PROVE  Mourned'
BY DEF Mourned, Kills

\* What a worker does.
LEMMA WorkerKeeps ==
    ASSUME CompInv, NEW w \in Worker, WorkerStep(w)
    PROVE  CompShape' /\ Mourned'
<1> USE DEF CompInv
<1>1. jobs \in [Job -> Row]
  BY DEF StoreInv
<1>2. CASE ClaimJob(w)
  <2>1. PICK q \in Queue, j \in Job : Claim(w, q, {j}) /\ work' = [work EXCEPT ![w] = j]
    BY <1>2 DEF ClaimJob
  <2>2. UNCHANGED <<reaped, comp, died, undone, revivals>>
    BY <1>2 DEF ClaimJob
  <2>3. comp[<<w, "run">>] = NoComp
    BY <1>2, Agents DEF ClaimJob, SlotFree, CompShape, Stage
  <2>4. CompShape'
    BY <2>1, <2>2, <2>3 DEF CompShape
  <2>5. Kills({})
    BY <2>1, NobodyDies
  <2> QED
    BY <2>2, <2>4, <2>5, QuietMourns
<1>3. ASSUME NEW permanent \in BOOLEAN, FailRun(w, permanent)
      PROVE  CompShape' /\ Mourned'
  <2> DEFINE j == work[w]
             S == IF jobs'[j].status = "dead_letter" THEN {j} ELSE {}
  <2>1. j \in Job /\ Fail(w, j, permanent) /\ UNCHANGED <<reaped, revivals>>
        /\ work' = [work EXCEPT ![w] = Nobody]
    BY <1>3 DEF FailRun, CompShape
  <2>2. PICK answered \in Answers :
           /\ Dies(S, answered)
           /\ IF answered THEN Compensates(<<w, "run">>, "lookup", j) ELSE UNCHANGED comp
    BY <1>3 DEF FailRun
  <2>3. answered \in BOOLEAN
    BY DEF Answers
  <2>4. Kills(S)
    BY <1>1, <2>1, SparesOthers DEF Fail, Kills
  <2>5. S \in SUBSET Job
    BY <2>1
  <2> HIDE DEF S
  <2>6. /\ \A i \in Job : jobs'[i].status = "dead_letter" => i \in died'
        /\ \A i \in Job : undone'[i] > 0 => i \in died'
        /\ undone' \in [Job -> Nat]
        /\ died' = died \cup S
    BY <2>2, <2>3, <2>4, <2>5, DiesMourns
  <2>7. \/ UNCHANGED comp
        \/ comp' = [comp EXCEPT ![<<w, "run">>] = [pc |-> "lookup", job |-> j]]
    BY <2>2 DEF Compensates
  <2>8. CompShape'
    <3>1. \A a \in Agent : comp'[a] = comp[a] \/ (a = <<w, "run">> /\ comp'[a] = [pc |-> "lookup", job |-> j])
      BY <2>7 DEF CompShape
    <3>2. \A a \in Agent : Stage(comp'[a])
      BY <2>1, <3>1 DEF CompShape, Stage
    <3>3. comp' \in [Agent -> [pc : {"idle", "lookup", "hook"}, job : Job \cup {Nobody}]]
      <4>1. [pc |-> "lookup", job |-> j] \in [pc : {"idle", "lookup", "hook"}, job : Job \cup {Nobody}]
        BY <2>1
      <4> QED
        BY <2>7, <4>1 DEF CompShape
    <3>4. \A v \in Worker : comp'[<<v, "run">>] # NoComp => work'[v] = Nobody
      <4> SUFFICES ASSUME NEW v \in Worker, comp'[<<v, "run">>] # NoComp
                   PROVE  work'[v] = Nobody
        OBVIOUS
      <4>1. CASE v = w
        BY <2>1, <4>1 DEF CompShape
      <4>2. CASE v # w
        <5>1. comp'[<<v, "run">>] = comp[<<v, "run">>]
          BY <3>1, <4>2, Agents
        <5> QED
          BY <2>1, <4>2, <5>1 DEF CompShape
      <4> QED
        BY <4>1, <4>2
    <3> QED
      BY <2>1, <2>6, <3>2, <3>3, <3>4 DEF CompShape
  <2>9. Mourned'
    <3>1. \A a \in Agent : comp'[a] = comp[a] \/ comp'[a].pc = "lookup"
      BY <2>7 DEF CompShape
    <3>2. \A a \in Agent : comp'[a].pc = "hook" => comp'[a].job \in died'
      BY <2>6, <3>1 DEF Mourned
    <3>3. \A v \in Worker : reaped'[v] \subseteq died'
      BY <2>1, <2>6 DEF Mourned
    <3> QED
      BY <2>6, <3>2, <3>3 DEF Mourned
  <2> QED
    BY <2>8, <2>9
<1>4. CASE CompleteRun(w)
  <2>1. work[w] \in Job /\ Complete(w, work[w]) /\ work' = [work EXCEPT ![w] = Nobody]
        /\ UNCHANGED <<reaped, comp, died, undone, revivals>>
    BY <1>4 DEF CompleteRun, CompShape
  <2>2. Kills({})
    BY <2>1, NobodyDies
  <2>3. CompShape'
    BY <2>1 DEF CompShape
  <2> QED
    BY <2>1, <2>2, <2>3, QuietMourns
<1>5. CASE RejectedRun(w)
  <2>1. work' = [work EXCEPT ![w] = Nobody] /\ UNCHANGED <<jobs, reaped, comp, died, undone, revivals>>
    BY <1>5 DEF RejectedRun
  <2>2. Kills({})
    BY <2>1, NobodyDies
  <2>3. CompShape'
    BY <2>1 DEF CompShape
  <2> QED
    BY <2>1, <2>2, <2>3, QuietMourns
<1>6. CASE SweepAll(w)
  <2>1. PICK S \in SUBSET Job, answered \in Answers :
           /\ DeadLetterExhausted(S) /\ Dies(S, answered)
           /\ IF answered THEN reaped' = [reaped EXCEPT ![w] = S] ELSE UNCHANGED reaped
    BY <1>6 DEF SweepAll, Reaps
  <2>2. UNCHANGED <<work, comp, revivals>>
    BY <1>6 DEF SweepAll
  <2>3. answered \in BOOLEAN
    BY DEF Answers
  <2>4. Kills(S)
    BY <2>1 DEF DeadLetterExhausted, Kills
  <2>5. /\ \A i \in Job : jobs'[i].status = "dead_letter" => i \in died'
        /\ \A i \in Job : undone'[i] > 0 => i \in died'
        /\ undone' \in [Job -> Nat]
        /\ died' = died \cup S
    BY <2>1, <2>3, <2>4, DiesMourns
  <2>6. /\ reaped' \in [Worker -> SUBSET Job]
        /\ \A v \in Worker : reaped'[v] \subseteq died'
    BY <2>1, <2>5 DEF CompShape, Mourned
  <2> QED
    BY <2>2, <2>5, <2>6 DEF CompShape, Mourned
<1>7. CASE TakeReaped(w)
  <2> DEFINE a == <<w, "loop">>
  <2>1. PICK j \in reaped[w] : /\ comp' = [comp EXCEPT ![a] = [pc |-> "lookup", job |-> j]]
                               /\ reaped' = [reaped EXCEPT ![w] = @ \ {j}]
    BY <1>7 DEF TakeReaped, Compensates
  <2>2. UNCHANGED <<jobs, work, died, undone, revivals>>
    BY <1>7 DEF TakeReaped
  <2>3. j \in Job /\ a \in Agent /\ \A v \in Worker : <<v, "run">> # a
    BY Agents DEF CompShape
  <2>4. \A b \in Agent : comp'[b] = comp[b] \/ (b = a /\ comp'[b] = [pc |-> "lookup", job |-> j])
    BY <2>1 DEF CompShape
  <2>5. CompShape'
    <3>1. \A b \in Agent : Stage(comp'[b])
      BY <2>3, <2>4 DEF CompShape, Stage
    <3>2. \A v \in Worker : comp'[<<v, "run">>] = comp[<<v, "run">>]
      BY <2>3, <2>4, Agents
    <3>3. comp' \in [Agent -> [pc : {"idle", "lookup", "hook"}, job : Job \cup {Nobody}]]
      BY <2>1, <2>3 DEF CompShape
    <3>4. reaped' \in [Worker -> SUBSET Job]
      BY <2>1 DEF CompShape
    <3> QED
      BY <2>2, <3>1, <3>2, <3>3, <3>4 DEF CompShape
  <2>6. Mourned'
    <3>1. \A b \in Agent : comp'[b].pc = "hook" => comp'[b].job \in died'
      BY <2>2, <2>4 DEF Mourned
    <3>2. \A v \in Worker : reaped'[v] \subseteq died'
      BY <2>1, <2>2 DEF CompShape, Mourned
    <3> QED
      BY <2>2, <3>1, <3>2 DEF Mourned
  <2> QED
    BY <2>5, <2>6
<1>8. CASE Crash(w)
  <2>1. /\ work' = [work EXCEPT ![w] = Nobody]
        /\ reaped' = [reaped EXCEPT ![w] = {}]
        /\ comp' = [a \in Agent |-> IF Of(a) = w THEN NoComp ELSE comp[a]]
        /\ UNCHANGED <<jobs, died, undone, revivals>>
    BY <1>8 DEF Crash
  <2>2. \A a \in Agent : comp'[a] = comp[a] \/ comp'[a] = NoComp
    BY <2>1
  <2>3. NoComp \in [pc : {"idle", "lookup", "hook"}, job : Job \cup {Nobody}]
        /\ NoComp.pc = "idle"
    BY DEF NoComp
  <2>4. \A v \in Worker : comp'[<<v, "run">>] # NoComp => work'[v] = Nobody
    BY <2>1, <2>2, Agents DEF CompShape
  <2>5. CompShape'
    BY <2>1, <2>2, <2>3, <2>4 DEF CompShape, Stage
  <2>6. Mourned'
    <3>1. \A a \in Agent : comp'[a].pc = "hook" => comp'[a].job \in died'
      BY <2>1, <2>2, <2>3 DEF Mourned
    <3>2. \A v \in Worker : reaped'[v] \subseteq died'
      BY <2>1 DEF CompShape, Mourned
    <3> QED
      BY <2>1, <3>1, <3>2 DEF Mourned
  <2> QED
    BY <2>5, <2>6
<1> QED
  BY <1>2, <1>3, <1>4, <1>5, <1>6, <1>7, <1>8 DEF WorkerStep, EndRun

\* A look-up decides on a hook only for a dead job, and a hook unwinds the job
\* it was decided for.
LEMMA AgentKeeps ==
    ASSUME CompInv, NEW a \in Agent, Lookup(a) \/ RunHook(a)
    PROVE  CompShape' /\ Mourned'
<1> USE DEF CompInv
<1>1. UNCHANGED <<jobs, work, reaped, died, revivals>>
  BY DEF Lookup, RunHook
<1>2. /\ \/ comp' = [comp EXCEPT ![a] = NoComp]
         \/ /\ comp' = [comp EXCEPT ![a] = [@ EXCEPT !.pc = "hook"]]
            /\ comp[a].pc = "lookup" /\ jobs[comp[a].job].status = "dead_letter"
      /\ \/ UNCHANGED undone
         \/ comp[a].pc = "hook" /\ undone' = [undone EXCEPT ![comp[a].job] = @ + 1]
  BY DEF Lookup, RunHook, ToCompensate
<1>3. comp[a].pc \in {"lookup", "hook"} /\ comp[a].job \in Job
  BY DEF Lookup, RunHook, CompShape, Stage, NoComp
<1>4. NoComp \in [pc : {"idle", "lookup", "hook"}, job : Job \cup {Nobody}]
      /\ NoComp.pc = "idle"
  BY DEF NoComp
<1>5. \A b \in Agent : \/ comp'[b] = comp[b] /\ b # a
                       \/ b = a /\ comp'[b] = NoComp
                       \/ /\ b = a /\ comp'[b].pc = "hook" /\ comp'[b].job = comp[a].job
                          /\ comp'[b] \in [pc : {"idle", "lookup", "hook"}, job : Job \cup {Nobody}]
                          /\ jobs[comp[a].job].status = "dead_letter"
  <2>1. comp \in [Agent -> [pc : {"idle", "lookup", "hook"}, job : Job \cup {Nobody}]]
    BY DEF CompShape
  <2>2. CASE comp' = [comp EXCEPT ![a] = NoComp]
    BY <2>1, <2>2
  <2>3. CASE /\ comp' = [comp EXCEPT ![a] = [@ EXCEPT !.pc = "hook"]]
             /\ jobs[comp[a].job].status = "dead_letter"
    BY <2>1, <2>3
  <2> QED
    BY <1>2, <2>2, <2>3
<1>6. undone' \in [Job -> Nat] /\ \A j \in Job : undone'[j] > 0 => undone[j] > 0 \/ (comp[a].pc = "hook" /\ j = comp[a].job)
  BY <1>2, <1>3 DEF CompShape
<1>7. CompShape'
  <2>1. \A b \in Agent : Stage(comp'[b])
    BY <1>3, <1>5 DEF CompShape, Stage
  <2>2. comp' \in [Agent -> [pc : {"idle", "lookup", "hook"}, job : Job \cup {Nobody}]]
    <3>1. comp' = [b \in Agent |-> comp'[b]]
      BY <1>2 DEF CompShape
    <3>2. \A b \in Agent : comp'[b] \in [pc : {"idle", "lookup", "hook"}, job : Job \cup {Nobody}]
      BY <1>4, <1>5 DEF CompShape
    <3> QED
      BY <3>1, <3>2
  <2>3. \A v \in Worker : comp'[<<v, "run">>] # NoComp => work'[v] = Nobody
    <3> SUFFICES ASSUME NEW v \in Worker, comp'[<<v, "run">>] # NoComp
                 PROVE  work[v] = Nobody
      BY <1>1
    <3>1. comp[<<v, "run">>] # NoComp
      BY <1>3, <1>4, <1>5, Agents
    <3> QED
      BY <3>1 DEF CompShape
  <2> QED
    BY <1>1, <1>6, <2>1, <2>2, <2>3 DEF CompShape
<1>8. Mourned'
  BY <1>1, <1>3, <1>4, <1>5, <1>6 DEF Mourned
<1> QED
  BY <1>7, <1>8

\* Operators and time dead-letter nobody.
LEMMA OutsideKeeps ==
    ASSUME CompInv, NEW j \in Job, Revive(j) \/ Outside(j)
    PROVE  CompShape' /\ Mourned'
<1> USE DEF CompInv
<1>1. UNCHANGED <<work, reaped, comp, died, undone>>
  BY DEF Revive, Outside
<1>2. revivals' \in Nat /\ revivals' <= MaxRevivals
  BY CompensationAssumption DEF Revive, Outside, CompShape
<1>3. Kills({})
  <2>1. RetryDeadLetter(j) \/ Cancel(j) \/ LeaseExpires(j) \/ ComesDue(j)
    BY DEF Revive, Outside
  <2> QED
    BY <2>1, NobodyDies
<1>4. CompShape'
  BY <1>1, <1>2 DEF CompShape
<1> QED
  BY <1>1, <1>3, <1>4, QuietMourns

LEMMA CompInvNext == CompInv /\ [CompNext]_compVars => CompInv'
<1> SUFFICES ASSUME CompInv, [CompNext]_compVars
             PROVE  CompInv'
  OBVIOUS
<1>1. StoreInv'
  BY CompTableStep, StoreInvNext DEF CompInv
<1>2. CASE UNCHANGED compVars
  BY <1>1, <1>2 DEF compVars, CompInv, CompShape, Mourned
<1>3. CASE CompNext
  <2>1. CompShape' /\ Mourned'
    BY <1>3, WorkerKeeps, AgentKeeps, OutsideKeeps DEF CompNext
  <2> QED
    BY <1>1, <2>1 DEF CompInv
<1> QED
  BY <1>2, <1>3

LEMMA CompInvInit == CompInit => CompInv
<1> SUFFICES ASSUME CompInit
             PROVE  CompInv
  OBVIOUS
<1>1. PICK m \in [Job -> RequestedMax] :
         jobs = [j \in Job |-> Enqueued(DefaultQueue, m[j], "past", NoKey)]
  BY DEF CompInit
<1>2. \A j \in Job : RowOK(jobs[j]) /\ jobs[j].status = "queued"
  <2> TAKE j \in Job
  <2>1. m[j] \in RequestedMax /\ DefaultQueue \in Queue
    BY QueueAssumption
  <2>2. RowOK(Enqueued(DefaultQueue, m[j], "past", NoKey))
    BY <2>1, RequestAssumption, EnqueuedOK
  <2>3. Enqueued(DefaultQueue, m[j], "past", NoKey).status = "queued"
    BY DEF Enqueued, Default
  <2> QED
    BY <1>1, <2>2, <2>3
<1>3. StoreInv
  BY <1>1, <1>2 DEF StoreInv, RowOK
<1>4. NoComp.pc = "idle" /\ NoComp.job = Nobody
  BY DEF NoComp
<1>5. CompShape
  BY CompensationAssumption, Agents DEF CompInit, CompShape, Stage, NoComp
<1>6. Mourned
  BY <1>2, <1>4 DEF CompInit, Mourned
<1> QED
  BY <1>3, <1>5, <1>6 DEF CompInv

\* The inductive invariant, for every instance.
THEOREM CompInvariant == CompSpec => []CompInv
<1> QED
  BY CompInvInit, CompInvNext, PTL DEF CompSpec

\* Slots, sweeps and compensations stay well formed, and a slot that
\* compensates runs no other job (runJob holds it until compensate returns).
THEOREM CompTypeCorrect == CompSpec => []CompTypeOK
<1>1. CompInv => CompTypeOK
  BY DEF CompInv, CompShape, Mourned, CompTypeOK, Stage
<1> QED
  BY <1>1, CompInvariant, PTL

\* compensate never unwinds a job that was not dead-lettered, whatever other
\* workers and operators do between a failure, the look-up and the hook.
THEOREM OnlyDeadUnwound == CompSpec => []OnlyTheDead
<1>1. CompInv => OnlyTheDead
  BY DEF CompInv, Mourned, OnlyTheDead
<1> QED
  BY <1>1, CompInvariant, PTL

\* Hooks, lost answers, crashes and operators' revivals leave the jobs table as
\* sound as its statements do.
THEOREM CompKeepsTable == CompSpec => TableKept
<1>1. CompInv /\ [CompNext]_compVars => [AllFollow]_jobs
  BY CompTableStep, FollowsNext DEF CompInv, AllFollow
<1>2. CompInv => StoreInv
  BY DEF CompInv
<1> QED
  BY <1>1, <1>2, CompInvariant, KeepsTable, PTL DEF CompSpec
=============================================================================
