--------------------------- MODULE ChildrenProofs ---------------------------
(***************************************************************************)
(* Proofs about parents and children, for every list of calls, every set   *)
(* of jobs, slots and workers, and every bound.                            *)
(*                                                                         *)
(* Most statements leave alone what a parent looks at: a row's key, that   *)
(* it exists, and that it has not succeeded (they are Calm).  What is left *)
(* are the enqueue of a child, a success, and retention.                   *)
(***************************************************************************)
EXTENDS Children, JobStoreProofs

RunRecord == [pc : Calling \cup Ending \cup {"idle"}, at : 1..Len(Calls),
              got : Job \cup (1..MaxTimers) \cup {None}, wake : Nat]

IsChild(i) == Calls[i].kind = "child"

\* What a call may stand for when t deadlines were computed, and what it waits
\* for: a success in su, the passing of a deadline in el.
Kind(i, t) == IF IsChild(i) THEN Job \ {Parent} ELSE 1..t
Done(i, su, el) == IF IsChild(i) THEN su ELSE el

Typed(x, t) == x.pc \in {"save", "insert", "look"} => x.got \in Kind(x.at, t)

CShape ==
    /\ run \in [Slot -> RunRecord] /\ \A r \in Slot : Typed(run[r], timers)
    /\ saved \in [1..Len(Calls) -> Job \cup (1..MaxTimers) \cup {None}]
    /\ \A i \in 1..Len(Calls) : saved[i] \in {None} \cup Kind(i, timers)
    /\ timers \in 0..MaxTimers /\ elapsed \subseteq 1..timers
    /\ kids \in [Key -> SUBSET (Job \ {Parent})] /\ succeeded \subseteq Job

\* The children keep their keys as long as they are there, so a second enqueue
\* of a name finds the first one's job.
Family ==
    /\ jobs[Parent].status # "absent" /\ jobs[Parent].key = NoKey
    /\ \A k \in Key : \A j \in kids[k] :
          jobs[j].status = "pruned" \/ (Exists(jobs[j]) /\ jobs[j].key = k)
    /\ \A j \in Job \ {Parent} : jobs[j].status = "succeeded" => j \in succeeded
    /\ SpawnedOnce

\* A run that looks has its call's checkpoint, and has left behind only calls
\* that are done; the deletion of the parent voids both.
Sound(x, sv, su, el) ==
    /\ x.pc = "look" => x.got = sv[x.at]
    /\ \A i \in 1..Len(Calls) : i < x.at \/ x.pc = "complete" => sv[i] \in Done(i, su, el)

Watch ==
    /\ Exists(jobs[Parent]) => \A r \in Slot : Sound(run[r], saved, succeeded, elapsed)
    /\ ~Exists(jobs[Parent]) => \A i \in 1..Len(Calls) : saved[i] = None
    /\ jobs[Parent].status = "succeeded" =>
          \A i \in 1..Len(Calls) : saved[i] \in Done(i, succeeded, elapsed)

CInv == StoreInv /\ CShape /\ Family /\ Watch

-----------------------------------------------------------------------------
(***************************************************************************)
(* The children and what a calm table leaves them.                         *)
(***************************************************************************)
LEMMA CalmFamily ==
    ASSUME CInv, CalmTable, UNCHANGED <<kids, succeeded>>
    PROVE  /\ Family' /\ (Exists(jobs'[Parent]) <=> Exists(jobs[Parent]))
           /\ jobs'[Parent].status = "succeeded" => jobs[Parent].status = "succeeded"
<1>1. Parent \in Job /\ \A k \in Key : kids[k] \subseteq Job
  BY ChildrenAssumption DEF CInv, CShape
<1>2. \A j \in Job : /\ jobs'[j].key = jobs[j].key
                     /\ jobs[j].status = "pruned" => jobs'[j].status = "pruned"
                     /\ Exists(jobs[j]) <=> Exists(jobs'[j])
                     /\ jobs'[j].status = "succeeded" => jobs[j].status = "succeeded"
                     /\ jobs[j].status # "absent" => jobs'[j].status # "absent"
  BY DEF CalmTable, Calm, Exists, NoRow
<1>3. Family'
  BY <1>1, <1>2 DEF CInv, Family, SpawnedOnce
<1> QED
  BY <1>1, <1>2, <1>3

-----------------------------------------------------------------------------
(***************************************************************************)
(* The runs and their checkpoints.                                         *)
(***************************************************************************)
Steady ==
    /\ Exists(jobs'[Parent]) <=> Exists(jobs[Parent])
    /\ jobs'[Parent].status = "succeeded" =>
          \/ jobs[Parent].status = "succeeded"
          \/ \A i \in 1..Len(Calls) : saved[i] \in Done(i, succeeded, elapsed)

\* What is computed, elapsed or has succeeded stays so; a checkpoint is written
\* once; each run keeps its state or takes a sound one.
LEMMA StepKeeps ==
    ASSUME CInv, Steady,
           timers' \in 0..MaxTimers, timers <= timers',
           elapsed \subseteq elapsed', elapsed' \subseteq 1..timers',
           succeeded \subseteq succeeded', succeeded' \subseteq Job,
           kids' \in [Key -> SUBSET (Job \ {Parent})],
           saved' \in [1..Len(Calls) -> Job \cup (1..MaxTimers) \cup {None}],
           \A i \in 1..Len(Calls) :
               \/ saved'[i] = saved[i]
               \/ saved[i] = None /\ Exists(jobs[Parent]) /\ saved'[i] \in Kind(i, timers),
           run' \in [Slot -> RunRecord],
           \A r \in Slot :
               \/ run'[r] = run[r]
               \/ /\ Typed(run'[r], timers')
                  /\ Exists(jobs[Parent]) => Sound(run'[r], saved', succeeded', elapsed')
    PROVE  CShape' /\ Watch'
<1> USE DEF CInv
<1>1. timers \in Nat /\ timers' \in Nat /\ None \notin Job /\ None \notin Nat
  BY ChildrenAssumption DEF CShape
<1>2. \A i : Kind(i, timers) \subseteq Kind(i, timers')
  BY <1>1 DEF Kind
<1>3. \A i : None \notin Kind(i, timers) /\ None \notin Done(i, succeeded, elapsed)
  <2>1. 1..timers \subseteq Nat /\ elapsed \subseteq 1..timers /\ succeeded \subseteq Job
    BY <1>1 DEF CShape
  <2>2. None \notin 1..timers /\ None \notin elapsed /\ None \notin succeeded
    BY <1>1, <2>1
  <2> QED
    BY <1>1, <2>2 DEF Kind, Done
<1>4. \A i : Done(i, succeeded, elapsed) \subseteq Done(i, succeeded', elapsed')
  BY DEF Done
<1>5. \A r \in Slot : run[r] \in RunRecord /\ run[r].at \in 1..Len(Calls)
  BY DEF CShape, RunRecord
<1>6. CShape'
  <2>1. \A r \in Slot : Typed(run'[r], timers')
    <3> TAKE r \in Slot
    <3>1. CASE run'[r] = run[r]
      BY <1>2, <3>1 DEF CShape, Typed
    <3> QED
      BY <3>1
  <2>2. \A i \in 1..Len(Calls) : saved'[i] \in {None} \cup Kind(i, timers')
    <3> TAKE i \in 1..Len(Calls)
    <3>1. saved'[i] \in {None} \cup Kind(i, timers)
      BY DEF CShape
    <3> QED
      BY <1>2, <3>1
  <2> QED
    BY <2>1, <2>2 DEF CShape
<1>7. \A i \in 1..Len(Calls) : saved[i] \in Done(i, succeeded, elapsed) =>
         saved'[i] \in Done(i, succeeded', elapsed')
  BY <1>3, <1>4
<1>8. Watch'
  <2>1. ASSUME Exists(jobs[Parent])
        PROVE  \A r \in Slot : Sound(run'[r], saved', succeeded', elapsed')
    <3> TAKE r \in Slot
    <3>1. CASE run'[r] = run[r]
      <4>1. Sound(run[r], saved, succeeded, elapsed)
        BY <2>1 DEF Watch
      <4>2. ASSUME run[r].pc = "look"
            PROVE  saved'[run[r].at] = run[r].got
        <5>1. run[r].got \in Kind(run[r].at, timers) /\ run[r].got = saved[run[r].at]
          BY <4>1, <4>2 DEF Sound, Typed, CShape
        <5> QED
          BY <1>3, <1>5, <5>1
      <4>3. \A i \in 1..Len(Calls) : i < run[r].at \/ run[r].pc = "complete" =>
               saved'[i] \in Done(i, succeeded', elapsed')
        BY <1>7, <4>1 DEF Sound
      <4> QED
        BY <3>1, <4>2, <4>3 DEF Sound
    <3> QED
      BY <2>1, <3>1
  <2>2. ASSUME ~Exists(jobs[Parent])
        PROVE  \A i \in 1..Len(Calls) : saved'[i] = None
    BY <2>2 DEF Watch
  <2>3. ASSUME jobs'[Parent].status = "succeeded"
        PROVE  \A i \in 1..Len(Calls) : saved'[i] \in Done(i, succeeded', elapsed')
    BY <1>7, <2>3 DEF Steady, Watch
  <2> QED
    BY <2>1, <2>2, <2>3 DEF Watch, Steady
<1> QED
  BY <1>6, <1>8

\* A step of one run that changes nothing but the table.
LEMMA RunKeeps ==
    ASSUME CInv, Steady, UNCHANGED <<saved, timers, elapsed, kids, succeeded>>,
           NEW r \in Slot, NEW x \in RunRecord, run' = [run EXCEPT ![r] = x],
           Typed(x, timers), Exists(jobs[Parent]) => Sound(x, saved, succeeded, elapsed)
    PROVE  CShape' /\ Watch'
<1>1. run \in [Slot -> RunRecord]
  BY DEF CInv, CShape
<1>2. run' \in [Slot -> RunRecord] /\ \A s \in Slot : run'[s] = IF s = r THEN x ELSE run[s]
  BY <1>1
<1>3. /\ timers' \in 0..MaxTimers /\ timers <= timers' /\ elapsed' \subseteq 1..timers'
      /\ succeeded' \subseteq Job /\ kids' \in [Key -> SUBSET (Job \ {Parent})]
      /\ saved' \in [1..Len(Calls) -> Job \cup (1..MaxTimers) \cup {None}]
  BY ChildrenAssumption DEF CInv, CShape
<1>4. \A s \in Slot : \/ run'[s] = run[s]
                      \/ /\ Typed(run'[s], timers')
                         /\ Exists(jobs[Parent]) => Sound(run'[s], saved', succeeded', elapsed')
  BY <1>2
<1> QED
  BY <1>2, <1>3, <1>4, StepKeeps

\* A run that waits for nothing yet, or for nothing any more, is sound.
LEMMA GoesKeeps ==
    ASSUME CInv, Steady, UNCHANGED <<saved, timers, elapsed, kids, succeeded>>,
           NEW r \in Slot, NEW pc, Goes(r, pc),
           \/ pc \in {"do", "fail", "permanent", "suspend"} /\ run[r].pc # "complete"
           \/ pc = "insert" /\ run[r].pc = "save"
    PROVE  CShape' /\ Watch'
<1> DEFINE x == [run[r] EXCEPT !.pc = pc]
<1>1. run \in [Slot -> RunRecord] /\ run[r] \in RunRecord /\ Typed(run[r], timers)
  BY DEF CInv, CShape
<1>2. pc \in Calling \cup Ending
  BY DEF Calling, Ending
<1>3. x \in RunRecord /\ x.pc = pc /\ x.at = run[r].at /\ x.got = run[r].got
  BY <1>1, <1>2 DEF RunRecord
<1>4. run' = [run EXCEPT ![r] = x]
  BY <1>1 DEF Goes
<1> HIDE DEF x
<1>5. Typed(x, timers)
  BY <1>1, <1>3 DEF Typed
<1>6. Exists(jobs[Parent]) => Sound(x, saved, succeeded, elapsed)
  <2> SUFFICES ASSUME Exists(jobs[Parent]) PROVE Sound(x, saved, succeeded, elapsed)
    OBVIOUS
  <2>1. Sound(run[r], saved, succeeded, elapsed)
    BY DEF CInv, Watch
  <2> QED
    BY <1>3, <2>1 DEF Sound
<1> QED
  BY <1>3, <1>4, <1>5, <1>6, RunKeeps

\* A run that ends, or starts.
LEMMA IdleType ==
    ASSUME NEW v \in Nat
    PROVE  /\ Idle \in RunRecord /\ [Idle EXCEPT !.pc = "load", !.wake = v] \in RunRecord
           /\ Idle.pc = "idle" /\ Idle.at = 1
<1>1. 1 \in 1..Len(Calls)
  BY ChildrenAssumption
<1> QED
  BY <1>1 DEF RunRecord, Idle, Calling

LEMMA IdleKeeps ==
    ASSUME CInv, Steady, UNCHANGED <<saved, timers, elapsed, kids, succeeded>>,
           NEW r \in Slot, NEW x \in RunRecord, x.pc \in {"idle", "load"}, x.at = 1,
           run' = [run EXCEPT ![r] = x]
    PROVE  CShape' /\ Watch'
<1>1. Len(Calls) \in Nat
  BY ChildrenAssumption
<1>2. Typed(x, timers) /\ Sound(x, saved, succeeded, elapsed)
  BY <1>1 DEF Typed, Sound
<1> QED
  BY <1>2, RunKeeps

\* A run that learns what its call stands for, or reads its checkpoint.
LEMMA GetsKeeps ==
    ASSUME CInv, Steady, UNCHANGED <<saved, timers, elapsed, kids, succeeded>>,
           NEW r \in Slot, NEW pc \in {"save", "look"}, NEW v, Gets(r, v, pc),
           run[r].pc # "complete", v \in Kind(run[r].at, timers),
           pc = "look" => v = saved[run[r].at]
    PROVE  CShape' /\ Watch'
<1> DEFINE x == [run[r] EXCEPT !.pc = pc, !.got = v]
<1>1. run \in [Slot -> RunRecord] /\ run[r] \in RunRecord
  BY DEF CInv, CShape
<1>2. v \in Job \cup (1..MaxTimers)
  BY ChildrenAssumption DEF CInv, CShape, Kind
<1>3. x \in RunRecord /\ x.pc = pc /\ x.at = run[r].at /\ x.got = v
  BY <1>1, <1>2 DEF RunRecord, Calling
<1>4. run' = [run EXCEPT ![r] = x]
  BY <1>1 DEF Gets
<1> HIDE DEF x
<1>5. Typed(x, timers)
  BY <1>3 DEF Typed
<1>6. Exists(jobs[Parent]) => Sound(x, saved, succeeded, elapsed)
  <2> SUFFICES ASSUME Exists(jobs[Parent]) PROVE Sound(x, saved, succeeded, elapsed)
    OBVIOUS
  <2>1. Sound(run[r], saved, succeeded, elapsed)
    BY DEF CInv, Watch
  <2> QED
    BY <1>3, <2>1 DEF Sound
<1> QED
  BY <1>3, <1>4, <1>5, <1>6, RunKeeps

\* A run whose call is done, as its checkpoint says.
LEMMA AdvancesKeeps ==
    ASSUME CInv, Steady, UNCHANGED <<saved, timers, elapsed, kids, succeeded>>,
           NEW r \in Slot, Advances(r), run[r].pc = "look",
           run[r].got \in Done(run[r].at, succeeded, elapsed)
    PROVE  CShape' /\ Watch'
<1> DEFINE last == ~(run[r].at < Len(Calls))
           pc == IF last THEN "complete" ELSE "load"
           at == IF last THEN run[r].at ELSE run[r].at + 1
           x == [run[r] EXCEPT !.pc = pc, !.at = at, !.got = None]
<1>1. run \in [Slot -> RunRecord] /\ run[r] \in RunRecord
  BY DEF CInv, CShape
<1>2. run[r].at \in 1..Len(Calls) /\ Len(Calls) \in Nat
  BY <1>1, ChildrenAssumption DEF RunRecord
<1>3. at \in 1..Len(Calls) /\ pc \in Calling \cup Ending
  BY <1>2 DEF Calling, Ending
<1>4. x \in RunRecord /\ x.pc = pc /\ x.at = at /\ x.got = None
  <2> HIDE DEF pc, at
  <2> QED
    BY <1>1, <1>3 DEF RunRecord
<1>5. run' = [run EXCEPT ![r] = x]
  BY <1>1, <1>2 DEF Advances
<1> HIDE DEF x
<1>6. Typed(x, timers)
  BY <1>4 DEF Typed
<1>7. Exists(jobs[Parent]) => Sound(x, saved, succeeded, elapsed)
  <2> SUFFICES ASSUME Exists(jobs[Parent]) PROVE Sound(x, saved, succeeded, elapsed)
    OBVIOUS
  <2>1. Sound(run[r], saved, succeeded, elapsed)
    BY DEF CInv, Watch
  <2>2. saved[run[r].at] \in Done(run[r].at, succeeded, elapsed)
    BY <2>1 DEF Sound
  <2>3. ASSUME NEW i \in 1..Len(Calls), i < at \/ last
        PROVE  i < run[r].at \/ i = run[r].at
    BY <1>2, <2>3
  <2>4. \A i \in 1..Len(Calls) : i < at \/ last => saved[i] \in Done(i, succeeded, elapsed)
    BY <2>1, <2>2, <2>3 DEF Sound
  <2> QED
    BY <1>4, <2>4 DEF Sound
<1> QED
  BY <1>4, <1>5, <1>6, <1>7, RunKeeps

-----------------------------------------------------------------------------
(***************************************************************************)
(* The steps.                                                              *)
(***************************************************************************)
LEMMA SilentKeeps ==
    ASSUME CInv, Silent
    PROVE  StoreInv' /\ Steady /\ (UNCHANGED <<kids, succeeded>> => Family')
<1>1. CalmTable
  BY CalmSteps DEF CInv
<1>2. Parent \in Job
  BY ChildrenAssumption
<1>3. Steady
  BY <1>1, <1>2 DEF CalmTable, Calm, Steady, Exists, NoRow
<1>4. StoreInv'
  BY SilentStoreInv DEF CInv
<1> QED
  BY <1>1, <1>3, <1>4, CalmFamily

\* A success is either the parent's, or recorded.
LEMMA CompleteKeeps ==
    ASSUME CInv, NEW w \in Worker, NEW j \in Job, Complete(w, j), UNCHANGED kids,
           succeeded \subseteq succeeded', j = Parent \/ j \in succeeded'
    PROVE  /\ StoreInv' /\ Family' /\ (Exists(jobs'[Parent]) <=> Exists(jobs[Parent]))
           /\ j # Parent => jobs'[Parent] = jobs[Parent]
<1>1. /\ Parent \in Job /\ \A k \in Key : kids[k] \subseteq Job
      /\ \A i \in Job : jobs[i] \in Row
  BY ChildrenAssumption DEF CInv, CShape, StoreInv
<1>2. /\ Exists(jobs[j]) /\ jobs[j].status # "pruned" /\ jobs'[j].status = "succeeded"
      /\ jobs'[j].key = jobs[j].key /\ Exists(jobs'[j])
      /\ \A i \in Job \ {j} : jobs'[i] = jobs[i]
  <2>1. jobs[j].status = "running" /\ jobs' = [jobs EXCEPT ![j] = Succeeded(jobs[j])]
    BY DEF Complete, Owned, SetRow
  <2>2. Exists(jobs[j])
    BY <2>1 DEF Exists, NoRow
  <2>3. Succeeded(jobs[j]).status = "succeeded" /\ Succeeded(jobs[j]).key = jobs[j].key
    BY <1>1, <2>2, CalmRows
  <2>4. jobs'[j] = Succeeded(jobs[j]) /\ \A i \in Job \ {j} : jobs'[i] = jobs[i]
    BY <2>1 DEF CInv, StoreInv
  <2> QED
    BY <2>1, <2>2, <2>3, <2>4 DEF Exists, NoRow
<1>3. StoreInv'
  <2>1. [Next]_jobs
    BY DEF Next, WorkerNext
  <2> QED
    BY <2>1, StoreInvNext DEF CInv
<1>4. Exists(jobs'[Parent]) <=> Exists(jobs[Parent])
  BY <1>1, <1>2
<1>5. jobs'[Parent].status # "absent" /\ jobs'[Parent].key = NoKey
  BY <1>1, <1>2 DEF CInv, Family
<1>6. \A k \in Key : \A i \in kids'[k] :
         jobs'[i].status = "pruned" \/ (Exists(jobs'[i]) /\ jobs'[i].key = k)
  BY <1>1, <1>2 DEF CInv, Family
<1>7. \A i \in Job \ {Parent} : jobs'[i].status = "succeeded" => i \in succeeded'
  BY <1>2 DEF CInv, Family
<1>8. SpawnedOnce'
  BY <1>1, <1>2 DEF CInv, Family, SpawnedOnce
<1> QED
  BY <1>1, <1>2, <1>3, <1>4, <1>5, <1>6, <1>7, <1>8 DEF Family

LEMMA LoadKeeps ==
    ASSUME CInv, NEW r \in Slot, LoadStep(r)
    PROVE  CInv'
<1>1. run[r].at \in 1..Len(Calls)
  BY DEF CInv, CShape, RunRecord
<1>2. Silent /\ UNCHANGED <<saved, timers, elapsed, kids, succeeded>> /\ run[r].pc = "load"
  BY DEF LoadStep, Silent, At
<1>3. StoreInv' /\ Steady /\ Family'
  BY <1>2, SilentKeeps
<1>4. CASE saved[run[r].at] # None
  <2>1. Gets(r, saved[run[r].at], "look")
    BY <1>4 DEF LoadStep
  <2>2. saved[run[r].at] \in Kind(run[r].at, timers)
    BY <1>1, <1>4 DEF CInv, CShape
  <2> QED
    BY <1>2, <1>3, <2>1, <2>2, GetsKeeps DEF CInv
<1>5. CASE saved[run[r].at] = None
  <2>1. Goes(r, "do")
    BY <1>5 DEF LoadStep
  <2> QED
    BY <1>2, <1>3, <2>1, GoesKeeps DEF CInv
<1> QED
  BY <1>4, <1>5

LEMMA CheckKeeps ==
    ASSUME CInv, NEW r \in Slot, CheckOwner(r)
    PROVE  CInv'
<1>1. Silent /\ UNCHANGED <<saved, timers, elapsed, kids, succeeded>> /\ run[r].pc = "save"
  BY DEF CheckOwner, Silent, At
<1>2. StoreInv' /\ Steady /\ Family'
  BY <1>1, SilentKeeps
<1>3. CASE Owns(r)
  <2>1. Goes(r, "insert")
    BY <1>3 DEF CheckOwner
  <2> QED
    BY <1>1, <1>2, <2>1, GoesKeeps DEF CInv
<1>4. CASE ~Owns(r)
  <2>1. Goes(r, "fail")
    BY <1>4 DEF CheckOwner
  <2> QED
    BY <1>1, <1>2, <2>1, GoesKeeps DEF CInv
<1> QED
  BY <1>3, <1>4

LEMMA LookKeeps ==
    ASSUME CInv, NEW r \in Slot, LookAtChild(r) \/ LookAtClock(r)
    PROVE  CInv'
<1>1. /\ Silent /\ UNCHANGED <<saved, timers, elapsed, kids, succeeded>> /\ run[r].pc = "look"
      /\ run[r].at \in 1..Len(Calls)
  BY DEF LookAtChild, LookAtClock, Silent, At, CInv, CShape, RunRecord
<1>2. StoreInv' /\ Steady /\ Family'
  BY <1>1, SilentKeeps
<1>3. run[r].got \in Kind(run[r].at, timers)
  BY <1>1 DEF CInv, CShape, Typed
<1>4. ASSUME NEW verdict \in {"fail", "permanent", "suspend"}, Goes(r, verdict)
      PROVE  CInv'
  BY <1>1, <1>2, <1>4, GoesKeeps DEF CInv
<1>5. ASSUME Advances(r), run[r].got \in Done(run[r].at, succeeded, elapsed)
      PROVE  CInv'
  BY <1>1, <1>2, <1>5, AdvancesKeeps DEF CInv
<1>6. CASE LookAtChild(r)
  <2> DEFINE status == jobs[run[r].got].status
  <2>1. IsChild(run[r].at) /\ run[r].got \in Job \ {Parent}
    BY <1>3, <1>6 DEF LookAtChild, IsChild, call, Kind
  <2>2. CASE status = "succeeded"
    <3>1. run[r].got \in Done(run[r].at, succeeded, elapsed)
      BY <2>1, <2>2 DEF CInv, Family, Done
    <3>2. Advances(r)
      BY <1>6, <2>2 DEF LookAtChild, Verdict, NoRow
    <3> QED
      BY <1>5, <3>1, <3>2
  <2>3. CASE status # "succeeded"
    <3>1. Verdict(status) \in {"fail", "permanent", "suspend"}
      BY <2>3 DEF Verdict
    <3>2. Goes(r, Verdict(status))
      BY <1>6, <3>1 DEF LookAtChild
    <3> QED
      BY <1>4, <3>1, <3>2
  <2> QED
    BY <2>2, <2>3
<1>7. CASE LookAtClock(r)
  <2>1. ~IsChild(run[r].at)
    BY <1>7 DEF LookAtClock, IsChild, call
  <2>2. CASE run[r].got \in elapsed
    BY <1>5, <1>7, <2>1, <2>2 DEF LookAtClock, Done
  <2>3. CASE run[r].got \notin elapsed
    BY <1>4, <1>7, <2>3 DEF LookAtClock
  <2> QED
    BY <2>2, <2>3
<1> QED
  BY <1>6, <1>7

LEMMA SetTimerKeeps ==
    ASSUME CInv, NEW r \in Slot, SetTimer(r)
    PROVE  CInv'
<1> DEFINE x == [run[r] EXCEPT !.pc = "save", !.got = timers + 1]
<1>1. /\ Silent /\ UNCHANGED <<jobs, saved, elapsed, kids, succeeded>> /\ run[r].pc = "do"
      /\ timers < MaxTimers /\ timers' = timers + 1 /\ ~IsChild(run[r].at)
  BY DEF SetTimer, Silent, At, IsChild, call
<1>2. StoreInv' /\ Steady /\ Family'
  BY <1>1, SilentKeeps
<1>3. /\ run \in [Slot -> RunRecord] /\ run[r] \in RunRecord
      /\ timers \in Nat /\ MaxTimers \in Nat /\ timers + 1 \in 1..MaxTimers
  BY <1>1, ChildrenAssumption DEF CInv, CShape
<1>4. run' = [run EXCEPT ![r] = x]
  BY <1>3 DEF SetTimer, Gets
<1>5. x \in RunRecord /\ x.pc = "save" /\ x.at = run[r].at /\ x.got = timers + 1
  BY <1>3 DEF RunRecord, Calling
<1> HIDE DEF x
<1>6. Typed(x, timers')
  BY <1>1, <1>3, <1>5 DEF Typed, Kind
<1>7. Exists(jobs[Parent]) => Sound(x, saved', succeeded', elapsed')
  <2> SUFFICES ASSUME Exists(jobs[Parent]) PROVE Sound(x, saved, succeeded, elapsed)
    BY <1>1
  <2>1. Sound(run[r], saved, succeeded, elapsed)
    BY DEF CInv, Watch
  <2> QED
    BY <1>1, <1>5, <2>1 DEF Sound
<1>8. run' \in [Slot -> RunRecord] /\ \A s \in Slot : run'[s] = IF s = r THEN x ELSE run[s]
  BY <1>3, <1>4, <1>5
<1>9. \A s \in Slot : \/ run'[s] = run[s]
                      \/ /\ Typed(run'[s], timers')
                         /\ Exists(jobs[Parent]) => Sound(run'[s], saved', succeeded', elapsed')
  BY <1>6, <1>7, <1>8
<1>10. /\ timers' \in 0..MaxTimers /\ timers <= timers'
       /\ elapsed \subseteq elapsed' /\ elapsed' \subseteq 1..timers'
       /\ succeeded \subseteq succeeded' /\ succeeded' \subseteq Job
       /\ kids' \in [Key -> SUBSET (Job \ {Parent})]
       /\ saved' \in [1..Len(Calls) -> Job \cup (1..MaxTimers) \cup {None}]
       /\ \A i \in 1..Len(Calls) : saved'[i] = saved[i]
  BY <1>1, <1>3 DEF CInv, CShape
<1>11. CShape' /\ Watch'
  BY <1>2, <1>8, <1>9, <1>10, StepKeeps
<1> QED
  BY <1>2, <1>11 DEF CInv

\* First write wins, and the run takes the winner's value.
LEMMA InsertKeeps ==
    ASSUME CInv, NEW r \in Slot, InsertStep(r)
    PROVE  CInv'
<1> DEFINE at == run[r].at
           v == Stored(r)
           x == [run[r] EXCEPT !.pc = "look", !.got = v]
<1>1. Silent /\ UNCHANGED <<jobs, timers, elapsed, kids, succeeded>> /\ run[r].pc = "insert"
  BY DEF InsertStep, Silent, At
<1>2. StoreInv' /\ Steady /\ Family'
  BY <1>1, SilentKeeps
<1>3. /\ run \in [Slot -> RunRecord] /\ run[r] \in RunRecord /\ at \in 1..Len(Calls)
      /\ saved \in [1..Len(Calls) -> Job \cup (1..MaxTimers) \cup {None}]
      /\ run[r].got \in Kind(at, timers)
  BY <1>1 DEF CInv, CShape, RunRecord, Typed
<1>4. CASE ~Exists(jobs[Parent])
  <2>1. Goes(r, "fail") /\ UNCHANGED saved
    BY <1>4 DEF InsertStep
  <2> QED
    BY <1>1, <1>2, <2>1, GoesKeeps DEF CInv
<1>5. CASE Exists(jobs[Parent])
  <2>1. /\ saved' = [saved EXCEPT ![at] = v]
        /\ run' = [run EXCEPT ![r] = x]
    BY <1>3, <1>5 DEF InsertStep, Gets, Stored
  <2>2. v \in Kind(at, timers) /\ (saved[at] # None => v = saved[at])
    BY <1>3 DEF Stored, CInv, CShape
  <2>3. v \in Job \cup (1..MaxTimers)
    BY <2>2, ChildrenAssumption DEF CInv, CShape, Kind
  <2> HIDE DEF v
  <2>4. x \in RunRecord /\ x.pc = "look" /\ x.at = at /\ x.got = v
    BY <1>3, <2>3 DEF RunRecord, Calling
  <2> HIDE DEF x
  <2>5. /\ saved' \in [1..Len(Calls) -> Job \cup (1..MaxTimers) \cup {None}]
        /\ \A i \in 1..Len(Calls) : saved'[i] = IF i = at THEN v ELSE saved[i]
    BY <1>3, <2>1, <2>3
  <2>6. \A i \in 1..Len(Calls) :
               \/ saved'[i] = saved[i]
               \/ saved[i] = None /\ Exists(jobs[Parent]) /\ saved'[i] \in Kind(i, timers)
    BY <1>5, <2>2, <2>5
  <2>7. Typed(x, timers') /\ timers \in 0..MaxTimers /\ timers' = timers
    BY <1>1, <2>2, <2>4 DEF Typed, CInv, CShape
  <2>8. Sound(x, saved', succeeded', elapsed')
    <3>1. Sound(run[r], saved, succeeded, elapsed)
      BY <1>5 DEF CInv, Watch
    <3>2. at \in Nat /\ Len(Calls) \in Nat
      BY <1>3, ChildrenAssumption
    <3>3. \A i \in 1..Len(Calls) : i < at => saved'[i] = saved[i]
      BY <2>5, <3>2
    <3> QED
      BY <1>1, <1>3, <2>4, <2>5, <3>1, <3>3 DEF Sound
  <2>9. run' \in [Slot -> RunRecord] /\ \A s \in Slot : run'[s] = IF s = r THEN x ELSE run[s]
    BY <1>3, <2>1, <2>4
  <2>10. \A s \in Slot : \/ run'[s] = run[s]
                         \/ /\ Typed(run'[s], timers')
                            /\ Exists(jobs[Parent]) => Sound(run'[s], saved', succeeded', elapsed')
    BY <2>7, <2>8, <2>9
  <2>11. /\ timers' \in 0..MaxTimers /\ timers <= timers'
         /\ elapsed \subseteq elapsed' /\ elapsed' \subseteq 1..timers'
         /\ succeeded \subseteq succeeded' /\ succeeded' \subseteq Job
         /\ kids' \in [Key -> SUBSET (Job \ {Parent})]
    BY <1>1, <2>7, ChildrenAssumption DEF CInv, CShape
  <2>12. CShape' /\ Watch'
    BY <1>2, <2>5, <2>6, <2>9, <2>10, <2>11, StepKeeps
  <2> QED
    BY <1>2, <2>12 DEF CInv
<1> QED
  BY <1>4, <1>5

\* A new row under a key no row has: whatever the name was enqueued as before
\* is pruned.
LEMMA EnqueueFamily ==
    ASSUME CInv, NEW f \in Job, f # Parent, NEW k \in Key, NEW q, NEW d,
           Enqueue(f, q, 0, d, k), kids' = [kids EXCEPT ![k] = @ \cup {f}],
           UNCHANGED succeeded
    PROVE  Family' /\ jobs'[Parent] = jobs[Parent]
<1>1. /\ Parent \in Job /\ kids \in [Key -> SUBSET (Job \ {Parent})]
      /\ k # NoKey /\ jobs[f].status = "absent"
  BY ChildrenAssumption, KeyAssumption DEF CInv, CShape, Enqueue
<1>2. /\ jobs'[f].status = "queued" /\ jobs'[f].key = k
      /\ \A i \in Job \ {f} : jobs'[i] = jobs[i]
  BY DEF Enqueue, SetRow, Enqueued, Default, CInv, StoreInv
<1>3. \A i \in Job : jobs[i].key # k
  BY <1>1 DEF Enqueue
<1>4. \A n \in Key : kids'[n] = IF n = k THEN kids[n] \cup {f} ELSE kids[n]
  BY <1>1
<1>5. \A n \in Key : \A i \in kids[n] :
         /\ i # f /\ jobs'[i] = jobs[i]
         /\ jobs[i].status = "pruned" \/ (Exists(jobs[i]) /\ jobs[i].key = n)
  BY <1>1, <1>2 DEF CInv, Family, Exists, NoRow
<1>6. \A n \in Key : \A i \in kids'[n] :
         jobs'[i].status = "pruned" \/ (Exists(jobs'[i]) /\ jobs'[i].key = n)
  <2>1. Exists(jobs'[f])
    BY <1>2 DEF Exists, NoRow
  <2> QED
    BY <1>2, <1>4, <1>5, <2>1
<1>7. SpawnedOnce'
  <2> SUFFICES ASSUME NEW n \in Key, NEW i \in kids'[n], NEW j \in kids'[n], i # j
               PROVE  "pruned" \in {jobs'[i].status, jobs'[j].status}
    BY DEF SpawnedOnce
  <2>1. CASE i \in kids[n] /\ j \in kids[n]
    BY <1>5, <2>1 DEF CInv, Family, SpawnedOnce
  <2>2. CASE i = f \/ j = f
    <3>1. n = k
      BY <1>4, <1>5, <2>2
    <3>2. \A h \in kids[n] : jobs'[h].status = "pruned"
      BY <1>1, <1>3, <1>5, <3>1
    <3> QED
      BY <1>4, <2>2, <3>1, <3>2
  <2> QED
    BY <1>4, <2>1, <2>2
<1>8. \A i \in Job \ {Parent} : jobs'[i].status = "succeeded" => i \in succeeded'
  BY <1>2 DEF CInv, Family
<1>9. jobs'[Parent] = jobs[Parent]
  BY <1>1, <1>2
<1> QED
  BY <1>6, <1>7, <1>8, <1>9 DEF Family, CInv

\* An element of a sequence.
LEMMA ElementType ==
    ASSUME NEW S, NEW s \in Seq(S), NEW i \in 1..Len(s)
    PROVE  s[i] \in S
OBVIOUS

LEMMA SpawnKeeps ==
    ASSUME CInv, NEW r \in Slot, Spawn(r)
    PROVE  CInv'
<1> DEFINE k == call(r).name
<1>1. /\ run \in [Slot -> RunRecord] /\ run[r] \in RunRecord /\ run[r].at \in 1..Len(Calls)
      /\ run[r].pc = "do" /\ UNCHANGED <<saved, timers, elapsed, succeeded>>
      /\ IsChild(run[r].at)
  BY DEF CInv, CShape, RunRecord, Spawn, At, IsChild, call
<1>2. k \in Key /\ k # NoKey
  <2>1. Calls[run[r].at] \in Call
    BY <1>1, ChildrenAssumption, ElementType
  <2> QED
    BY <2>1, KeyAssumption DEF call, Call
<1> HIDE DEF k
<1>3. ASSUME NEW j \in Job, jobs[j].key = k, Gets(r, j, "save"), UNCHANGED <<jobs, kids>>
      PROVE  CInv'
  <2>1. Silent
    BY <1>3 DEF Silent
  <2>2. StoreInv' /\ Steady /\ Family'
    BY <1>1, <1>3, <2>1, SilentKeeps
  <2>3. j \in Kind(run[r].at, timers)
    BY <1>1, <1>2, <1>3 DEF CInv, Family, Kind
  <2> QED
    BY <1>1, <1>3, <2>2, <2>3, GetsKeeps DEF CInv
<1>4. ASSUME Goes(r, "fail"), UNCHANGED <<jobs, kids>>
      PROVE  CInv'
  <2>1. Silent
    BY <1>4 DEF Silent
  <2>2. StoreInv' /\ Steady /\ Family'
    BY <1>1, <1>4, <2>1, SilentKeeps
  <2> QED
    BY <1>1, <1>4, <2>2, GoesKeeps DEF CInv
<1>5. ASSUME Exists(jobs[Parent]), Fresh # {}, Gets(r, FreshId, "save"),
             Enqueue(FreshId, ChildQueue(call(r)), 0, "past", k),
             kids' = [kids EXCEPT ![k] = @ \cup {FreshId}]
      PROVE  CInv'
  <2> DEFINE f == FreshId
             q == ChildQueue(call(r))
             x == [run[r] EXCEPT !.pc = "save", !.got = f]
  <2>1. f \in Job /\ f # Parent
    BY <1>5 DEF FreshId, Fresh, Exists, NoRow
  <2>2. q \in Queue \cup {NoQueue}
    BY ChildrenAssumption DEF ChildQueue, CInv, StoreInv, RowOK, Row
  <2> HIDE DEF f, q
  <2>3. Enqueue(f, q, 0, "past", k) /\ kids' = [kids EXCEPT ![k] = @ \cup {f}]
    BY <1>5 DEF f, q
  <2>4. Family' /\ jobs'[Parent] = jobs[Parent]
    BY <1>1, <1>2, <2>1, <2>3, EnqueueFamily
  <2>5. StoreInv'
    <3>1. RowOK(Enqueued(q, 0, "past", k))
      BY <1>2, <2>2, EnqueuedOK
    <3> QED
      BY <2>1, <2>3, <3>1, SetRowOK DEF Enqueue, CInv
  <2>6. run' = [run EXCEPT ![r] = x]
    BY <1>1, <1>5 DEF Gets, f
  <2>7. x \in RunRecord /\ x.pc = "save" /\ x.at = run[r].at /\ x.got = f
    BY <1>1, <2>1 DEF RunRecord, Calling
  <2> HIDE DEF x
  <2>8. Typed(x, timers)
    BY <1>1, <2>1, <2>7 DEF Typed, Kind
  <2>9. Sound(x, saved, succeeded, elapsed)
    <3>1. Sound(run[r], saved, succeeded, elapsed)
      BY <1>5 DEF CInv, Watch
    <3> QED
      BY <1>1, <2>7, <3>1 DEF Sound
  <2>10. run' \in [Slot -> RunRecord] /\ \A s \in Slot : run'[s] = IF s = r THEN x ELSE run[s]
    BY <1>1, <2>6, <2>7
  <2>11. \A s \in Slot : \/ run'[s] = run[s]
                         \/ /\ Typed(run'[s], timers')
                            /\ Exists(jobs[Parent]) => Sound(run'[s], saved', succeeded', elapsed')
    BY <1>1, <2>8, <2>9, <2>10
  <2>12. /\ timers' \in 0..MaxTimers /\ timers <= timers'
         /\ elapsed \subseteq elapsed' /\ elapsed' \subseteq 1..timers'
         /\ succeeded \subseteq succeeded' /\ succeeded' \subseteq Job
         /\ saved' \in [1..Len(Calls) -> Job \cup (1..MaxTimers) \cup {None}]
         /\ \A i \in 1..Len(Calls) : saved'[i] = saved[i]
    BY <1>1, ChildrenAssumption DEF CInv, CShape
  <2>13. kids' \in [Key -> SUBSET (Job \ {Parent})]
    BY <2>1, <2>3 DEF CInv, CShape
  <2>14. Steady
    BY <2>4 DEF Steady
  <2>15. CShape' /\ Watch'
    BY <2>10, <2>11, <2>12, <2>13, <2>14, StepKeeps
  <2> QED
    BY <2>4, <2>5, <2>15 DEF CInv
<1> QED
  BY <1>3, <1>4, <1>5 DEF Spawn, ChildKey, k

LEMMA ClaimParentKeeps ==
    ASSUME CInv, NEW r \in Slot, ClaimParent(r)
    PROVE  CInv'
<1>1. /\ UNCHANGED <<saved, timers, elapsed, kids, succeeded>>
      /\ run' = [run EXCEPT ![r] = [Idle EXCEPT !.pc = "load", !.wake = jobs[Parent].wake]]
  BY DEF ClaimParent
<1>2. Silent
  BY ChildrenAssumption DEF ClaimParent, Silent
<1>3. StoreInv' /\ Steady /\ Family'
  BY <1>1, <1>2, SilentKeeps
<1>4. jobs[Parent].wake \in Nat
  BY ChildrenAssumption, RequestAssumption DEF CInv, StoreInv, RowOK, Row
<1> DEFINE x == [Idle EXCEPT !.pc = "load", !.wake = jobs[Parent].wake]
<1>5. x \in RunRecord /\ x.pc = "load" /\ x.at = 1
  BY <1>4, IdleType DEF Idle
<1> HIDE DEF x
<1>6. CShape' /\ Watch'
  BY <1>1, <1>3, <1>5, IdleKeeps DEF x
<1> QED
  BY <1>3, <1>6 DEF CInv

\* Only a run that has seen every call done completes the parent.
LEMMA FinishKeeps ==
    ASSUME CInv, NEW r \in Slot, Finish(r)
    PROVE  CInv'
<1>1. /\ UNCHANGED <<saved, timers, elapsed, kids, succeeded>>
      /\ run' = [run EXCEPT ![r] = Idle]
      /\ WorkerOf[r] \in Worker /\ Parent \in Job
  BY ChildrenAssumption DEF Finish
<1>2. Idle \in RunRecord /\ Idle.pc = "idle" /\ Idle.at = 1
  BY IdleType
<1>3. ASSUME StoreInv', Steady, Family'
      PROVE  CInv'
  <2>1. CShape' /\ Watch'
    BY <1>1, <1>2, <1>3, IdleKeeps
  <2> QED
    BY <1>3, <2>1 DEF CInv
<1>4. CASE Silent
  BY <1>1, <1>3, <1>4, SilentKeeps
<1>5. CASE At(r, "complete") /\ Complete(WorkerOf[r], Parent)
  <2>1. StoreInv' /\ Family' /\ (Exists(jobs'[Parent]) <=> Exists(jobs[Parent]))
    BY <1>1, <1>5, CompleteKeeps
  <2>2. Exists(jobs[Parent])
    BY <1>5 DEF Complete, Owned, Exists, NoRow
  <2>3. \A i \in 1..Len(Calls) : saved[i] \in Done(i, succeeded, elapsed)
    BY <1>5, <2>2 DEF CInv, Watch, Sound, At
  <2>4. Steady
    BY <2>1, <2>3 DEF Steady
  <2> QED
    BY <1>3, <2>1, <2>4
<1>6. Silent \/ (At(r, "complete") /\ Complete(WorkerOf[r], Parent))
  BY <1>1 DEF Finish, FinalWrite, Silent
<1> QED
  BY <1>4, <1>5, <1>6

LEMMA ErrsKeeps ==
    ASSUME CInv, NEW r \in Slot, Errs(r)
    PROVE  CInv'
<1>1. UNCHANGED <<jobs, saved, timers, elapsed, kids, succeeded>> /\ Silent
  BY DEF Errs, Silent
<1>2. StoreInv' /\ Steady /\ Family'
  BY <1>1, SilentKeeps
<1>3. CASE run[r].pc \in Calling /\ Goes(r, "fail")
  BY <1>1, <1>2, <1>3, GoesKeeps DEF CInv, Calling
<1>4. CASE run' = [run EXCEPT ![r] = Idle]
  <2>1. Idle \in RunRecord /\ Idle.pc = "idle" /\ Idle.at = 1
    BY IdleType
  <2> QED
    BY <1>1, <1>2, <1>4, <2>1, IdleKeeps DEF CInv
<1> QED
  BY <1>3, <1>4 DEF Errs

\* What the others do leaves the runs alone.
LEMMA OthersKeep ==
    ASSUME CInv, Steady, Family', StoreInv', UNCHANGED <<run, saved, timers, kids>>,
           elapsed \subseteq elapsed', elapsed' \subseteq 1..timers,
           succeeded \subseteq succeeded', succeeded' \subseteq Job
    PROVE  CInv'
<1>1. /\ timers' \in 0..MaxTimers /\ timers <= timers' /\ elapsed' \subseteq 1..timers'
      /\ kids' \in [Key -> SUBSET (Job \ {Parent})]
      /\ saved' \in [1..Len(Calls) -> Job \cup (1..MaxTimers) \cup {None}]
      /\ run' \in [Slot -> RunRecord]
      /\ \A i \in 1..Len(Calls) : saved'[i] = saved[i]
      /\ \A s \in Slot : run'[s] = run[s]
  BY ChildrenAssumption DEF CInv, CShape
<1>2. CShape' /\ Watch'
  BY <1>1, StepKeeps
<1> QED
  BY <1>2 DEF CInv

LEMMA SilentOthersKeep ==
    ASSUME CInv, Silent, UNCHANGED <<run, saved, timers, elapsed, kids, succeeded>>
    PROVE  CInv'
<1>1. StoreInv' /\ Steady /\ Family'
  BY SilentKeeps
<1>2. elapsed' \subseteq 1..timers /\ succeeded' \subseteq Job
  BY DEF CInv, CShape
<1> QED
  BY <1>1, <1>2, OthersKeep

LEMMA ChildReturnsKeeps ==
    ASSUME CInv, NEW w \in Worker, NEW j \in Job, ChildReturns(w, j)
    PROVE  CInv'
<1>1. /\ j # Parent /\ Complete(w, j) /\ succeeded' = succeeded \cup {j}
      /\ UNCHANGED <<run, saved, timers, elapsed, kids>>
  BY DEF ChildReturns
<1>2. StoreInv' /\ Family' /\ jobs'[Parent] = jobs[Parent]
  BY <1>1, CompleteKeeps
<1>3. Steady
  BY <1>2 DEF Steady
<1>4. elapsed' \subseteq 1..timers /\ succeeded' \subseteq Job
  BY <1>1 DEF CInv, CShape
<1> QED
  BY <1>1, <1>2, <1>3, <1>4, OthersKeep

LEMMA ElapsesKeeps ==
    ASSUME CInv, NEW t, Elapses(t)
    PROVE  CInv'
<1>1. /\ UNCHANGED <<jobs, run, saved, timers, kids, succeeded>> /\ Silent
      /\ elapsed \subseteq elapsed' /\ elapsed' \subseteq 1..timers
  BY DEF Elapses, Silent, CInv, CShape
<1>2. StoreInv' /\ Steady /\ Family'
  BY <1>1, SilentKeeps
<1>3. succeeded' \subseteq Job /\ succeeded \subseteq succeeded'
  BY <1>1 DEF CInv, CShape
<1> QED
  BY <1>1, <1>2, <1>3, OthersKeep

\* Deleting the parent deletes its checkpoints, deleting a child its key.
LEMMA PruneKeeps ==
    ASSUME CInv, NEW q \in Queue, Prune(q)
    PROVE  CInv'
<1> PICK S \in SUBSET Job :
        /\ PruneCompleted(q, S)
        /\ saved' = IF Parent \in S THEN [i \in DOMAIN saved |-> None] ELSE saved
        /\ UNCHANGED <<run, timers, elapsed, kids, succeeded, troubles>>
  BY DEF Prune
<1>1. Parent \in Job /\ \A k \in Key : kids[k] \subseteq Job
  BY ChildrenAssumption DEF CInv, CShape
<1>2. \A i \in Job : jobs'[i] = IF i \in S THEN Pruned ELSE jobs[i]
  BY DEF PruneCompleted
<1>3. Pruned.status = "pruned" /\ Pruned.key = NoKey /\ ~Exists(Pruned)
  BY DEF Pruned, Default, Exists, NoRow
<1>4. StoreInv'
  <2>1. [Next]_jobs
    BY DEF Next, SweepNext
  <2> QED
    BY <2>1, StoreInvNext DEF CInv
<1>5. Family'
  <2>1. jobs'[Parent].status # "absent" /\ jobs'[Parent].key = NoKey
    BY <1>1, <1>2, <1>3 DEF CInv, Family
  <2>2. \A k \in Key : \A j \in kids'[k] :
           jobs'[j].status = "pruned" \/ (Exists(jobs'[j]) /\ jobs'[j].key = k)
    BY <1>1, <1>2, <1>3 DEF CInv, Family
  <2>3. \A j \in Job \ {Parent} : jobs'[j].status = "succeeded" => j \in succeeded'
    BY <1>2, <1>3 DEF CInv, Family
  <2>4. SpawnedOnce'
    BY <1>1, <1>2, <1>3 DEF CInv, Family, SpawnedOnce
  <2> QED
    BY <2>1, <2>2, <2>3, <2>4 DEF Family
<1>6. CASE Parent \notin S
  <2>1. Steady /\ UNCHANGED saved
    BY <1>1, <1>2, <1>6 DEF Steady
  <2>2. elapsed' \subseteq 1..timers /\ succeeded' \subseteq Job
    BY DEF CInv, CShape
  <2> QED
    BY <1>4, <1>5, <2>1, <2>2, OthersKeep
<1>7. CASE Parent \in S
  <2>1. ~Exists(jobs'[Parent]) /\ jobs'[Parent].status # "succeeded"
    BY <1>1, <1>2, <1>3, <1>7
  <2>2. /\ saved' = [i \in 1..Len(Calls) |-> None]
        /\ saved' \in [1..Len(Calls) -> Job \cup (1..MaxTimers) \cup {None}]
    BY <1>7 DEF CInv, CShape
  <2>3. CShape'
    BY <2>2 DEF CInv, CShape
  <2>4. Watch'
    BY <2>1, <2>2 DEF Watch
  <2> QED
    BY <1>4, <1>5, <2>3, <2>4 DEF CInv
<1> QED
  BY <1>6, <1>7

-----------------------------------------------------------------------------
(***************************************************************************)
(* The theorems.                                                           *)
(***************************************************************************)
LEMMA CInvInit == ChildInit => CInv
<1> SUFFICES ASSUME ChildInit PROVE CInv
  OBVIOUS
<1> PICK m \in RequestedMax :
        jobs = [j \in Job |-> IF j = Parent THEN Enqueued(ParentQueue, m, "past", NoKey)
                              ELSE Default]
  BY DEF ChildInit
<1>1. Parent \in Job /\ m \in Int /\ Len(Calls) \in Nat /\ 1 \in 1..Len(Calls)
  BY ChildrenAssumption, RequestAssumption
<1>2. RowOK(Enqueued(ParentQueue, m, "past", NoKey)) /\ RowOK(Default)
  BY <1>1, ChildrenAssumption, EnqueuedOK, DefaultOK
<1>3. StoreInv
  BY <1>2 DEF StoreInv, RowOK
<1>4. /\ jobs[Parent].status = "queued" /\ jobs[Parent].key = NoKey
      /\ \A j \in Job \ {Parent} : jobs[j].status = "absent"
  BY <1>1 DEF Enqueued, Default
<1>5. Idle \in RunRecord /\ Idle.pc = "idle" /\ Idle.at = 1
  BY IdleType
<1>6. \A r \in Slot : run[r] = Idle
  BY DEF ChildInit
<1>7. CShape
  <2>1. run \in [Slot -> RunRecord] /\ \A r \in Slot : Typed(run[r], timers)
    BY <1>5, <1>6 DEF ChildInit, Typed
  <2>2. /\ saved \in [1..Len(Calls) -> Job \cup (1..MaxTimers) \cup {None}]
        /\ \A i \in 1..Len(Calls) : saved[i] = None
    BY DEF ChildInit
  <2>3. timers \in 0..MaxTimers
    BY ChildrenAssumption DEF ChildInit
  <2> QED
    BY <2>1, <2>2, <2>3 DEF CShape, ChildInit
<1>8. Family
  BY <1>4 DEF Family, SpawnedOnce, ChildInit
<1>9. Watch
  <2>1. \A r \in Slot : Sound(run[r], saved, succeeded, elapsed)
    BY <1>1, <1>5, <1>6 DEF Sound
  <2>2. Exists(jobs[Parent]) /\ jobs[Parent].status # "succeeded"
    BY <1>4 DEF Exists, NoRow
  <2> QED
    BY <2>1, <2>2 DEF Watch
<1> QED
  BY <1>3, <1>7, <1>8, <1>9 DEF CInv

LEMMA CInvNext == CInv /\ [ChildNext]_childVars => CInv'
<1> SUFFICES ASSUME CInv, [ChildNext]_childVars PROVE CInv'
  OBVIOUS
<1> USE ChildrenAssumption
<1>1. ASSUME NEW r \in Slot, Proceed(r)
      PROVE  CInv'
  BY <1>1, LoadKeeps, SpawnKeeps, SetTimerKeeps, CheckKeeps, InsertKeeps, LookKeeps, FinishKeeps
     DEF Proceed
<1>2. ASSUME NEW r \in Slot, ClaimParent(r) \/ Errs(r)
      PROVE  CInv'
  BY <1>2, ClaimParentKeeps, ErrsKeeps
<1>3. ASSUME NEW j \in Job, NEW w \in Worker, ClaimChild(w, j) \/ ChildFails(w, j)
      PROVE  CInv'
  <2>1. Silent /\ UNCHANGED <<run, saved, timers, elapsed, kids, succeeded>>
    BY <1>3 DEF ClaimChild, ChildFails, Silent
  <2> QED
    BY <2>1, SilentOthersKeep
<1>4. ASSUME NEW j \in Job, NEW w \in Worker, ChildReturns(w, j)
      PROVE  CInv'
  BY <1>4, ChildReturnsKeeps
<1>5. ASSUME NEW j \in Job, Operator(j) \/ LeaseLapses(j) \/ TimerFires(j)
      PROVE  CInv'
  <2>1. Silent /\ UNCHANGED <<run, saved, timers, elapsed, kids, succeeded>>
    BY <1>5 DEF Operator, LeaseLapses, TimerFires, Silent
  <2> QED
    BY <2>1, SilentOthersKeep
<1>6. CASE \E q \in Queue : Prune(q)
  BY <1>6, PruneKeeps
<1>7. CASE Sweep
  <2>1. Silent /\ UNCHANGED <<run, saved, timers, elapsed, kids, succeeded>>
    BY <1>7 DEF Sweep, Silent
  <2> QED
    BY <2>1, SilentOthersKeep
<1>8. CASE \E t \in 1..MaxTimers : Elapses(t)
  BY <1>8, ElapsesKeeps
<1>9. CASE UNCHANGED childVars
  <2>1. Silent /\ UNCHANGED <<run, saved, timers, elapsed, kids, succeeded>>
    BY <1>9 DEF childVars, Silent
  <2> QED
    BY <2>1, SilentOthersKeep
<1> QED
  BY <1>1, <1>2, <1>3, <1>4, <1>5, <1>6, <1>7, <1>8, <1>9 DEF ChildNext

THEOREM ChildInvariant == ChildSpec => []CInv
BY CInvInit, CInvNext, PTL DEF ChildSpec

\* The runs of the parent, its checkpoints and the histories are well formed,
\* and a checkpoint holds a child for ExecuteChild and a deadline for Sleep.
THEOREM ChildTypeCorrect == ChildSpec => []ChildTypeOK
<1>1. CInv => ChildTypeOK
  <2> SUFFICES ASSUME CInv PROVE ChildTypeOK
    OBVIOUS
  <2>1. jobs \in [Job -> Row]
    BY DEF CInv, StoreInv
  <2>2. \A i \in 1..Len(Calls) :
           saved[i] \in {None} \cup (IF Calls[i].kind = "child" THEN Job ELSE 1..timers)
    BY DEF CInv, CShape, Kind, IsChild
  <2> QED
    BY <2>1, <2>2 DEF CInv, CShape, ChildTypeOK, RunRecord
<1> QED
  BY <1>1, ChildInvariant, PTL

\* "Every resumed run and retry watches the same child": SaveStep keeps the
\* first write and returns it, so overlapping runs agree.
THEOREM WatchedOne == ChildSpec => []WatchesOne
<1>1. CInv => WatchesOne
  <2> SUFFICES ASSUME CInv, NEW r \in Slot, At(r, "look"), saved[run[r].at] # None
               PROVE  run[r].got = saved[run[r].at]
    BY DEF WatchesOne
  <2>1. run[r].at \in 1..Len(Calls)
    BY DEF CInv, CShape, RunRecord
  <2>2. Exists(jobs[Parent])
    BY <2>1 DEF CInv, Watch
  <2> QED
    BY <2>2 DEF CInv, Watch, Sound, At
<1> QED
  BY <1>1, ChildInvariant, PTL

\* The child's idempotency key closes the window between its enqueue and its
\* checkpoint.
THEOREM SpawnOnce == ChildSpec => []SpawnedOnce
<1>1. CInv => SpawnedOnce
  BY DEF CInv, Family
<1> QED
  BY <1>1, ChildInvariant, PTL

\* The parent's Complete comes after a success of each child it waited for and
\* after each deadline it slept to.
THEOREM SuccessEarned == ChildSpec => []SucceedsOnChildren
<1>1. CInv => SucceedsOnChildren
  BY DEF CInv, Watch, Done, IsChild, SucceedsOnChildren
<1> QED
  BY <1>1, ChildInvariant, PTL

\* Each step moves the rows of the jobs table as its statements do.  (Spawn's
\* request carries no max_attempts: 0, which RequestedMax need not list.)
LEMMA ChildFollows == CInv /\ [ChildNext]_childVars => AllFollow
<1> SUFFICES ASSUME CInv, [ChildNext]_childVars PROVE AllFollow
  OBVIOUS
<1>s. StoreInv
  BY DEF CInv
<1>0. ASSUME Next \/ UNCHANGED jobs PROVE AllFollow
  BY <1>s, <1>0, FollowsNext DEF AllFollow
<1>p. Parent \in Job /\ {Parent} \in SUBSET Job /\ \A r \in Slot : WorkerOf[r] \in Worker
  BY ChildrenAssumption
<1>1. ASSUME NEW r \in Slot, Spawn(r) PROVE AllFollow
  <2> DEFINE q == ChildQueue(call(r))
             k == ChildKey(call(r))
  <2>1. \/ UNCHANGED jobs
        \/ Fresh # {} /\ Enqueue(FreshId, q, 0, "past", k)
    BY <1>1 DEF Spawn
  <2>2. CASE Fresh # {} /\ Enqueue(FreshId, q, 0, "past", k)
    <3>1. FreshId \in Job
      BY <2>2 DEF FreshId, Fresh
    <3>2. q \in Queue \cup {NoQueue}
      BY <1>p, <1>s DEF ChildQueue, StoreInv, RowOK, Row
    <3>3. k \in Key
      <4>1. run[r].at \in 1..Len(Calls)
        BY DEF CInv, CShape, RunRecord
      <4>2. Calls[run[r].at] \in Call
        BY <4>1, ChildrenAssumption, ElementType
      <4> QED
        BY <4>2 DEF ChildKey, call, Call
    <3> HIDE DEF q, k
    <3> QED
      BY <1>s, <2>2, <3>1, <3>2, <3>3, EnqueueFollows DEF AllFollow
  <2> QED
    BY <1>0, <2>1, <2>2
<1>2. ASSUME NEW r \in Slot, Finish(r) PROVE AllFollow
  <2> DEFINE w == WorkerOf[r]
  <2>1. \/ UNCHANGED jobs \/ Suspend(w, Parent, run[r].wake)
        \/ Fail(w, Parent, FALSE) \/ Fail(w, Parent, TRUE) \/ Complete(w, Parent)
    BY <1>2 DEF Finish, FinalWrite
  <2>2. Suspend(w, Parent, run[r].wake) => run[r].wake \in 0..MaxWake
    BY <1>p, <1>s DEF Suspend, Parkable, StoreInv, RowOK, Row
  <2>3. w \in Worker
    BY <1>p
  <2> HIDE DEF w
  <2>4. Next \/ UNCHANGED jobs
    BY <1>p, <2>1, <2>2, <2>3 DEF Next, WorkerNext
  <2> QED
    BY <1>0, <2>4
<1>3. ASSUME NEW r \in Slot, Proceed(r) PROVE AllFollow
  <2>1. CASE Spawn(r)
    BY <1>1, <2>1
  <2>2. CASE Finish(r)
    BY <1>2, <2>2
  <2>3. CASE \/ LoadStep(r) \/ SetTimer(r) \/ CheckOwner(r) \/ InsertStep(r)
             \/ LookAtChild(r) \/ LookAtClock(r)
    BY <1>0, <2>3 DEF LoadStep, SetTimer, CheckOwner, InsertStep, LookAtChild, LookAtClock
  <2> QED
    BY <1>3, <2>1, <2>2, <2>3 DEF Proceed
<1>4. ASSUME NEW w \in Worker, NEW j \in Job, \E q \in Served : Claim(w, q, {j})
      PROVE  AllFollow
  <2>1. Next
    BY <1>4, ChildrenAssumption DEF Next, WorkerNext
  <2> QED
    BY <1>0, <2>1
<1>5. ASSUME NEW r \in Slot, ClaimParent(r) \/ Errs(r) PROVE AllFollow
  BY <1>0, <1>4, <1>5, <1>p DEF ClaimParent, Errs
<1>6. ASSUME NEW j \in Job, NEW w \in Worker, ClaimChild(w, j) PROVE AllFollow
  BY <1>4, <1>6 DEF ClaimChild
<1>7. ASSUME NEW j \in Job, NEW w \in Worker, ChildReturns(w, j) \/ ChildFails(w, j)
      PROVE  AllFollow
  BY <1>0, <1>7 DEF ChildReturns, ChildFails, Next, WorkerNext
<1>8. ASSUME NEW j \in Job, Operator(j) \/ LeaseLapses(j) \/ TimerFires(j) PROVE AllFollow
  BY <1>0, <1>8 DEF Operator, LeaseLapses, TimerFires, Next, RequestNext, TimeNext
<1>9. CASE Sweep \/ \E q \in Queue : Prune(q)
  BY <1>0, <1>9 DEF Sweep, Prune, Next, SweepNext
<1>10. CASE (\E t \in 1..MaxTimers : Elapses(t)) \/ UNCHANGED childVars
  BY <1>0, <1>10 DEF Elapses, childVars
<1> QED
  BY <1>3, <1>5, <1>6, <1>7, <1>8, <1>9, <1>10 DEF ChildNext

\* A parent's calls, its children and retention use the table as its statements
\* do: leases, budgets and the lifecycle stay sound under them.
THEOREM ChildKeepsTable == ChildSpec => TableKept
<1>1. CInv => StoreInv
  BY DEF CInv
<1>2. CInv /\ [ChildNext]_childVars => [AllFollow]_jobs
  BY ChildFollows
<1> QED
  BY <1>1, <1>2, ChildInvariant, KeepsTable, PTL DEF ChildSpec
=============================================================================
