--------------------------- MODULE JobStoreProofs ---------------------------
(***************************************************************************)
(* Proofs about the jobs table, for every set of jobs, workers, queues and *)
(* keys and every budget.  A statement changes rows one by one, so the     *)
(* inductive invariant is a predicate on one row (RowOK) that holds of all *)
(* of them; each statement's effect on a row is a lemma of its own.        *)
(* What every module that counts needs of sums comes last.                 *)
(***************************************************************************)
EXTENDS JobStore, FiniteSetsExt, FiniteSetTheorems, WellFoundedInduction, TLAPS

\* AttemptBudget is not inductive by itself: that a park leaves an attempt to
\* spend needs attempt >= 1 while running, a steal needs its own guard, and
\* both need the row's type.
RowOK(row) ==
    /\ row \in Row
    /\ row.status \in Waiting => row.attempt < row.max
    /\ row.status = "running" => row.attempt \in 1..row.max
    /\ row.attempt <= row.max
    /\ row.status = "running" => row.runAfter = "past"
    /\ (row.status = "running") <=> (row.owner \in Worker)
    /\ (row.status = "running") <=> (row.lease # "none")

StoreInv == jobs \in [Job -> Row] /\ \A j \in Job : RowOK(jobs[j])

\* What a running row must look like to be sound.
LEMMA RunningOK ==
    ASSUME NEW r \in Row, r.status = "running", r.attempt \in 1..r.max,
           r.runAfter = "past", r.owner \in Worker, r.lease # "none"
    PROVE  RowOK(r)
<1>1. r.status \notin Waiting
  BY DEF Waiting
<1>2. r.attempt <= r.max
  BY DEF Row
<1> QED
  BY <1>1, <1>2 DEF RowOK

\* What a row nobody runs must look like to be sound.
LEMMA ReleasedOK ==
    ASSUME NEW r \in Row, r.status # "running", r.owner = NoWorker,
           r.lease = "none", r.attempt <= r.max,
           r.status \in Waiting => r.attempt < r.max
    PROVE  RowOK(r)
BY WorkerAssumption DEF RowOK

\* The range of the fields of a sound row that is running.
LEMMA OwnedRange ==
    ASSUME NEW row, RowOK(row), row.status = "running"
    PROVE  /\ row \in Row /\ row.attempt \in Nat /\ row.max \in Nat \ {0}
           /\ 1 <= row.attempt /\ row.attempt <= row.max
           /\ row.runAfter = "past" /\ row.owner \in Worker
BY DEF RowOK, Row

\* Rows nothing has happened to, and rows retention deleted, are sound.
LEMMA DefaultOK == RowOK(Default) /\ RowOK(Pruned)
<1>1. Default \in Row /\ Pruned \in Row
  BY QueueAssumption, RequestAssumption DEF Default, Pruned, Row, Status, NoRow
<1>2. /\ Default.status = "absent" /\ Default.owner = NoWorker
      /\ Default.lease = "none" /\ Default.attempt <= Default.max
  BY DEF Default
<1>3. /\ Pruned.status = "pruned" /\ Pruned.owner = NoWorker
      /\ Pruned.lease = "none" /\ Pruned.attempt <= Pruned.max
  BY DEF Pruned, Default
<1> QED
  BY <1>1, <1>2, <1>3, ReleasedOK DEF Waiting

\* Enqueue: the normalised request is a sound row with its whole budget.
LEMMA EnqueuedOK ==
    ASSUME NEW q \in Queue \cup {NoQueue}, NEW m \in Int,
           NEW d \in {"past", "ahead"}, NEW k \in Key \cup {NoKey}
    PROVE  RowOK(Enqueued(q, m, d, k))
<1> DEFINE nq == NormalizeQueue(q)
           nm == NormalizeMax(m)
           r  == Enqueued(q, m, d, k)
<1>1. nq \in Queue
  BY QueueAssumption DEF NormalizeQueue
<1>2. nm \in Nat \ {0}
  BY DEF NormalizeMax
<1>3. r = [Default EXCEPT !.status = "queued", !.queue = nq, !.max = nm,
                          !.runAfter = d, !.key = k]
  BY DEF Enqueued
<1> HIDE DEF nq, nm
<1>4. r \in Row
  <2>1. Default \in Row
    BY DefaultOK DEF RowOK
  <2> QED
    BY <2>1, <1>1, <1>2, <1>3 DEF Row, Status, Waiting
<1>5. /\ r.status = "queued" /\ r.owner = NoWorker /\ r.lease = "none"
      /\ r.attempt = 0 /\ r.max = nm
  BY <1>3 DEF Default
<1> HIDE DEF r
<1>6. r.attempt < r.max
  BY <1>2, <1>5
<1>7. RowOK(r)
  BY <1>2, <1>4, <1>5, <1>6, ReleasedOK
<1> QED
  BY <1>7 DEF r

\* Claim: a waiting row has an attempt to spend, a stolen one is checked.
LEMMA ClaimedOK ==
    ASSUME NEW row, RowOK(row), NEW w \in Worker, NEW q, Claimable(row, q)
    PROVE  RowOK(Claimed(row, w))
<1> DEFINE a == row.attempt + 1
           r == Claimed(row, w)
<1>1. row \in Row /\ row.attempt < row.max /\ row.runAfter = "past"
  BY DEF RowOK, Claimable, Stolen
<1>2. a \in 1..row.max /\ a \in Nat
  BY <1>1 DEF Row
<1>3. r = [row EXCEPT !.status = "running", !.attempt = a,
                      !.owner = w, !.lease = "live"]
  BY DEF Claimed
<1> HIDE DEF a
<1>4. r \in Row
  BY <1>1, <1>2, <1>3 DEF Row, Status
<1>5. /\ r.status = "running" /\ r.attempt = a /\ r.max = row.max
      /\ r.runAfter = "past" /\ r.owner = w /\ r.lease = "live"
  BY <1>1, <1>3 DEF Row
<1> HIDE DEF r
<1>6. RowOK(r)
  BY <1>2, <1>4, <1>5, RunningOK
<1> QED
  BY <1>6 DEF r

\* Heartbeat keeps a running row sound.
LEMMA RenewedOK ==
    ASSUME NEW row, RowOK(row), NEW w \in Worker, Owned(row, w)
    PROVE  RowOK(Renewed(row))
BY DEF RowOK, Owned, Renewed, Row, Status, Waiting, Terminal, NoRow

\* Suspend: giving the attempt back leaves at least one to spend.
LEMMA SuspendedOK ==
    ASSUME NEW row, RowOK(row), NEW w \in Worker, Owned(row, w)
    PROVE  RowOK(Suspended(row))
<1> DEFINE a == Greatest(row.attempt - 1, 0)
           r == Suspended(row)
<1>1. /\ row \in Row /\ row.attempt \in Nat /\ row.max \in Nat \ {0}
      /\ 1 <= row.attempt /\ row.attempt <= row.max
  BY OwnedRange DEF Owned
<1>2. a \in Nat /\ a < row.max
  BY <1>1 DEF Greatest
<1>3. r = [[row EXCEPT !.owner = NoWorker, !.lease = "none"]
              EXCEPT !.status = "queued", !.runAfter = "ahead", !.attempt = a]
  BY DEF Suspended, Released
<1> HIDE DEF a
<1>4. r \in Row
  BY <1>1, <1>2, <1>3 DEF Row, Status, Waiting
<1>5. /\ r.status = "queued" /\ r.attempt = a /\ r.max = row.max
      /\ r.owner = NoWorker /\ r.lease = "none"
  BY <1>1, <1>3 DEF Row
<1> HIDE DEF r
<1>6. r.attempt < r.max /\ r.attempt <= r.max
  BY <1>1, <1>2, <1>5
<1>7. RowOK(r)
  BY <1>4, <1>5, <1>6, ReleasedOK
<1> QED
  BY <1>7 DEF r

\* Fail: the row is retried only with an attempt left.
LEMMA FailedOK ==
    ASSUME NEW row, RowOK(row), NEW w \in Worker, Owned(row, w),
           NEW permanent \in BOOLEAN
    PROVE  RowOK(Failed(row, permanent))
<1> DEFINE s == NextStatusAfterFailure(row.attempt, row.max, permanent)
           d == IF s = "dead_letter" THEN "past" ELSE "ahead"
           r == Failed(row, permanent)
<1>1. /\ row \in Row /\ row.attempt \in Nat /\ row.max \in Nat \ {0}
      /\ 1 <= row.attempt /\ row.attempt <= row.max
  BY OwnedRange DEF Owned
<1>2. s = "dead_letter" \/ (s = "retrying" /\ row.attempt < row.max)
  BY <1>1 DEF NextStatusAfterFailure
<1>3. r = [[row EXCEPT !.owner = NoWorker, !.lease = "none"]
              EXCEPT !.status = s, !.runAfter = d]
  BY DEF Failed, Released
<1>4. d \in {"past", "ahead"}
  OBVIOUS
<1> HIDE DEF s, d
<1>5. r \in Row
  BY <1>1, <1>2, <1>3, <1>4 DEF Row, Status, Waiting, Terminal
<1>6. /\ r.status = s /\ r.attempt = row.attempt /\ r.max = row.max
      /\ r.owner = NoWorker /\ r.lease = "none"
  BY <1>1, <1>3 DEF Row
<1> HIDE DEF r
<1>7. r.status \in Waiting => r.attempt < r.max
  BY <1>2, <1>6 DEF Waiting
<1>8. r.status # "running" /\ r.attempt <= r.max
  BY <1>1, <1>2, <1>6
<1>9. RowOK(r)
  BY <1>5, <1>6, <1>7, <1>8, ReleasedOK
<1> QED
  BY <1>9 DEF r

\* Signal wakes without touching the budget.
LEMMA WokenOK ==
    ASSUME NEW row, RowOK(row), row.wake < MaxWake
    PROVE  RowOK(Woken(row))
<1> DEFINE v == row.wake + 1
           r == Woken(row)
<1>1. row \in Row /\ v \in 0..MaxWake
  BY RequestAssumption DEF RowOK, Row
<1>2. r = [row EXCEPT !.runAfter = "past", !.wake = v]
  BY DEF Woken
<1> HIDE DEF v
<1>3. r \in Row
  BY <1>1, <1>2 DEF Row
<1>4. /\ r.status = row.status /\ r.attempt = row.attempt /\ r.max = row.max
      /\ r.runAfter = "past" /\ r.owner = row.owner /\ r.lease = row.lease
  BY <1>1, <1>2 DEF Row
<1> HIDE DEF r
<1>5. RowOK(r)
  BY <1>3, <1>4 DEF RowOK
<1> QED
  BY <1>5 DEF r

\* Complete, Cancel and the sweep end a run and release the lease.
LEMMA EndedOK ==
    ASSUME NEW row, RowOK(row), NEW s \in Terminal
    PROVE  RowOK([Released(row) EXCEPT !.status = s])
<1> DEFINE r == [Released(row) EXCEPT !.status = s]
<1>1. row \in Row /\ row.attempt <= row.max
  BY DEF RowOK
<1>2. r \in Row
  BY <1>1 DEF Released, Row, Status
<1>3. /\ r.status = s /\ r.attempt = row.attempt /\ r.max = row.max
      /\ r.owner = NoWorker /\ r.lease = "none"
  BY <1>1 DEF Released, Row
<1>4. s # "running" /\ s \notin Waiting
  BY DEF Terminal, Waiting
<1> HIDE DEF r
<1>5. RowOK(r)
  BY <1>1, <1>2, <1>3, <1>4, ReleasedOK
<1> QED
  BY <1>5 DEF r

\* The three statements EndedOK is about.
LEMMA TerminatedOK ==
    ASSUME NEW row, RowOK(row)
    PROVE  RowOK(Succeeded(row)) /\ RowOK(Canceled(row)) /\ RowOK(DeadLettered(row))
BY EndedOK DEF Succeeded, Canceled, DeadLettered, Terminal

\* RetryDeadLetter and Replay start over with the whole budget.
LEMMA RestartedOK ==
    ASSUME NEW row, RowOK(row)
    PROVE  RowOK(Requeued(row)) /\ RowOK(Copied(row))
<1> DEFINE r == Requeued(row)
           c == Copied(row)
<1>1. row \in Row /\ row.max \in Nat \ {0} /\ row.queue \in Queue
  BY DEF RowOK, Row
<1>2. r \in Row /\ c \in Row
  <2>1. r \in Row
    BY <1>1 DEF Requeued, Released, Row, Status, Waiting
  <2>2. Default \in Row
    BY DefaultOK DEF RowOK
  <2>3. c \in Row
    BY <1>1, <2>2 DEF Copied, Row, Status, Waiting
  <2> QED
    BY <2>1, <2>3
<1>3. /\ r.status = "queued" /\ r.attempt = 0 /\ r.max = row.max
      /\ r.owner = NoWorker /\ r.lease = "none"
  BY <1>1 DEF Requeued, Released, Row
<1>4. /\ c.status = "queued" /\ c.attempt = 0 /\ c.max = row.max
      /\ c.owner = NoWorker /\ c.lease = "none"
  BY <1>1 DEF Copied, Default
<1> HIDE DEF r, c
<1>5. r.attempt < r.max /\ r.attempt <= r.max /\ c.attempt < c.max /\ c.attempt <= c.max
  BY <1>1, <1>3, <1>4
<1>6. RowOK(r) /\ RowOK(c)
  BY <1>2, <1>3, <1>4, <1>5, ReleasedOK
<1> QED
  BY <1>6 DEF r, c

\* Time passing changes no budget.
LEMMA AgedOK ==
    ASSUME NEW row, RowOK(row)
    PROVE  /\ row.lease = "live" => RowOK([row EXCEPT !.lease = "expired"])
           /\ RowOK([row EXCEPT !.runAfter = "past"])
BY DEF RowOK, Row, Status, Waiting, Terminal, NoRow

\* Writing a sound row into a sound table leaves it sound.
LEMMA SetRowOK ==
    ASSUME StoreInv, NEW j \in Job, NEW row, RowOK(row), SetRow(j, row)
    PROVE  StoreInv'
BY DEF StoreInv, SetRow, RowOK

\* Every statement preserves the invariant, row by row.
LEMMA StoreInvNext == StoreInv /\ [Next]_jobs => StoreInv'
<1> SUFFICES ASSUME StoreInv, [Next]_jobs PROVE StoreInv'
  OBVIOUS
<1>ok. \A j \in Job : RowOK(jobs[j])
  BY DEF StoreInv
<1>1. CASE RequestNext
  <2>1. ASSUME NEW j \in Job, NEW q \in Queue \cup {NoQueue},
               NEW m \in RequestedMax, NEW d \in {"past", "ahead"},
               NEW k \in Key \cup {NoKey}, Enqueue(j, q, m, d, k)
        PROVE  StoreInv'
    BY <2>1, RequestAssumption, EnqueuedOK, SetRowOK DEF Enqueue
  <2>2. ASSUME NEW j \in Job, Signal(j) PROVE StoreInv'
    BY <2>2, <1>ok, WokenOK, SetRowOK DEF Signal
  <2>3. ASSUME NEW j \in Job, Cancel(j) PROVE StoreInv'
    BY <2>3, <1>ok, TerminatedOK, SetRowOK DEF Cancel
  <2>4. ASSUME NEW j \in Job, RetryDeadLetter(j) PROVE StoreInv'
    BY <2>4, <1>ok, RestartedOK, SetRowOK DEF RetryDeadLetter
  <2>5. ASSUME NEW j \in Job, NEW i \in Job, Replay(j, i) PROVE StoreInv'
    BY <2>5, <1>ok, RestartedOK, SetRowOK DEF Replay
  <2> QED
    BY <1>1, <2>1, <2>2, <2>3, <2>4, <2>5 DEF RequestNext
<1>2. CASE WorkerNext
  <2>1. ASSUME NEW w \in Worker, NEW q \in Queue, NEW S \in SUBSET Job,
               Claim(w, q, S)
        PROVE  StoreInv'
    <3>1. \A j \in S : RowOK(Claimed(jobs[j], w))
      BY <2>1, <1>ok, ClaimedOK DEF Claim
    <3> QED
      BY <2>1, <3>1 DEF Claim, StoreInv, RowOK
  <2>2. ASSUME NEW w \in Worker, NEW j \in Job, Heartbeat(w, j)
        PROVE  StoreInv'
    BY <2>2, <1>ok, RenewedOK, SetRowOK DEF Heartbeat
  <2>3. ASSUME NEW w \in Worker, NEW j \in Job, NEW v \in 0..MaxWake,
               Suspend(w, j, v)
        PROVE  StoreInv'
    BY <2>3, <1>ok, SuspendedOK, SetRowOK DEF Suspend, Parkable
  <2>4. ASSUME NEW w \in Worker, NEW j \in Job, Complete(w, j)
        PROVE  StoreInv'
    BY <2>4, <1>ok, TerminatedOK, SetRowOK DEF Complete
  <2>5. ASSUME NEW w \in Worker, NEW j \in Job, NEW permanent \in BOOLEAN,
               Fail(w, j, permanent)
        PROVE  StoreInv'
    BY <2>5, <1>ok, FailedOK, SetRowOK DEF Fail
  <2> QED
    BY <1>2, <2>1, <2>2, <2>3, <2>4, <2>5 DEF WorkerNext
<1>3. CASE SweepNext
  <2>1. ASSUME NEW S \in SUBSET Job, DeadLetterExhausted(S) PROVE StoreInv'
    <3>1. \A j \in Job : RowOK(DeadLettered(jobs[j]))
      BY <1>ok, TerminatedOK
    <3> QED
      BY <2>1, <3>1 DEF DeadLetterExhausted, StoreInv, RowOK
  <2>2. ASSUME NEW S \in SUBSET Job, NEW q \in Queue, PruneCompleted(q, S)
        PROVE  StoreInv'
    BY <2>2, DefaultOK DEF PruneCompleted, StoreInv, RowOK
  <2> QED
    BY <1>3, <2>1, <2>2 DEF SweepNext
<1>4. CASE TimeNext
  <2>1. ASSUME NEW j \in Job, LeaseExpires(j) PROVE StoreInv'
    BY <2>1, <1>ok, AgedOK, SetRowOK DEF LeaseExpires
  <2>2. ASSUME NEW j \in Job, ComesDue(j) PROVE StoreInv'
    BY <2>2, <1>ok, AgedOK, SetRowOK DEF ComesDue
  <2> QED
    BY <1>4, <2>1, <2>2 DEF TimeNext
<1>5. CASE UNCHANGED jobs
  BY <1>5 DEF StoreInv, RowOK
<1> QED
  BY <1>1, <1>2, <1>3, <1>4, <1>5 DEF Next

\* The table always satisfies the row invariant.
THEOREM StoreInvariant == Spec => []StoreInv
<1>1. Init => StoreInv
  BY DefaultOK DEF Init, StoreInv, RowOK
<1> QED
  BY <1>1, StoreInvNext, PTL DEF Spec

\* Every row of the table is a row, whatever the callers do.
THEOREM TypeCorrect == Spec => []TypeOK
<1>1. StoreInv => TypeOK
  BY DEF StoreInv, TypeOK
<1> QED
  BY <1>1, StoreInvariant, PTL

\* No interleaving of statements overspends a job's attempts.
THEOREM BudgetKept == Spec => []AttemptBudget
<1>1. StoreInv => AttemptBudget
  BY DEF StoreInv, RowOK, AttemptBudget
<1> QED
  BY <1>1, StoreInvariant, PTL

\* What Signal's comment relies on: a running job is due.
THEOREM RunningDue == Spec => []RunningIsDue
<1>1. StoreInv => RunningIsDue
  BY DEF StoreInv, RowOK, RunningIsDue
<1> QED
  BY <1>1, StoreInvariant, PTL

\* Owner and deadline are set exactly while a job runs.
THEOREM LeaseOwned == Spec => []LeaseIffRunning
<1>1. StoreInv => LeaseIffRunning
  BY DEF StoreInv, RowOK, LeaseIffRunning
<1> QED
  BY <1>1, StoreInvariant, PTL

-----------------------------------------------------------------------------
(***************************************************************************)
(* Calm statements: they keep a row's key, that it exists, and that it has *)
(* not succeeded.                                                          *)
(***************************************************************************)
Calm(old, new) ==
    /\ new.key = old.key
    /\ new.status = old.status
       \/ (Exists(old) /\ Exists(new) /\ new.status # "succeeded")

\* What the other statements do to the rows they find.
LEMMA CalmRows ==
    ASSUME NEW row \in Row
    PROVE  /\ Exists(row) =>
                 /\ \A w : Calm(row, Claimed(row, w))
                 /\ Calm(row, Suspended(row)) /\ Calm(row, Canceled(row))
                 /\ Calm(row, DeadLettered(row)) /\ Calm(row, Requeued(row))
                 /\ Succeeded(row).key = row.key /\ Succeeded(row).status = "succeeded"
           /\ Calm(row, [row EXCEPT !.lease = "expired"])
           /\ Calm(row, [row EXCEPT !.runAfter = "past"])
           /\ Calm(row, row)
BY DEF Row, Calm, Exists, NoRow, Claimed, Suspended, Canceled, DeadLettered, Requeued,
       Succeeded, Released

LEMMA FailedCalm ==
    ASSUME NEW row \in Row, Exists(row), NEW permanent \in BOOLEAN
    PROVE  Calm(row, Failed(row, permanent))
<1> DEFINE next == NextStatusAfterFailure(row.attempt, row.max, permanent)
<1>1. next \in {"dead_letter", "retrying"}
  BY DEF NextStatusAfterFailure
<1>2. Failed(row, permanent).status = next /\ Failed(row, permanent).key = row.key
  BY DEF Failed, Released, Row
<1> HIDE DEF next
<1> QED
  BY <1>1, <1>2 DEF Calm, Exists, NoRow

CalmTable == \A j \in Job : Calm(jobs[j], jobs'[j])

LEMMA SetCalm ==
    ASSUME StoreInv, NEW j \in Job, NEW row, SetRow(j, row), Calm(jobs[j], row)
    PROVE  CalmTable
<1>1. \A i \in Job : jobs'[i] = IF i = j THEN row ELSE jobs[i]
  BY DEF StoreInv, SetRow
<1> QED
  BY <1>1 DEF CalmTable, Calm

\* Everything but an enqueue, a success and retention.
Silent ==
    \/ \E w \in Worker : \/ \E q \in Queue, S \in SUBSET Job : Claim(w, q, S)
                         \/ \E j \in Job : \/ \E v : Suspend(w, j, v)
                                           \/ \E permanent \in BOOLEAN : Fail(w, j, permanent)
    \/ \E j \in Job : Cancel(j) \/ RetryDeadLetter(j) \/ LeaseExpires(j) \/ ComesDue(j)
    \/ \E S \in SUBSET Job : DeadLetterExhausted(S)
    \/ UNCHANGED jobs

LEMMA CalmSteps ==
    ASSUME StoreInv, Silent
    PROVE  CalmTable
<1>1. \A j \in Job : jobs[j] \in Row
  BY DEF StoreInv
<1>2. ASSUME NEW w \in Worker, NEW q \in Queue, NEW S \in SUBSET Job, Claim(w, q, S)
      PROVE  CalmTable
  <2> SUFFICES ASSUME NEW j \in Job
               PROVE  Calm(jobs[j], jobs'[j])
    BY DEF CalmTable
  <2>1. jobs'[j] = IF j \in S THEN Claimed(jobs[j], w) ELSE jobs[j]
    BY <1>2 DEF Claim
  <2>2. j \in S => Exists(jobs[j])
    BY <1>2 DEF Claim, Claimable, Stolen, Exists, Waiting, NoRow
  <2>3. Exists(jobs[j]) => Calm(jobs[j], Claimed(jobs[j], w))
    BY <1>1, CalmRows
  <2>4. Calm(jobs[j], jobs[j])
    BY DEF Calm
  <2> QED
    BY <2>1, <2>2, <2>3, <2>4
<1>3. ASSUME NEW w \in Worker, NEW j \in Job, (\E v : Suspend(w, j, v)) \/ \E permanent \in BOOLEAN : Fail(w, j, permanent)
      PROVE  CalmTable
  <2>1. Exists(jobs[j])
    BY <1>3 DEF Suspend, Parkable, Fail, Owned, Exists, NoRow
  <2>2. CASE \E v : Suspend(w, j, v)
    BY <1>1, <2>1, <2>2, CalmRows, SetCalm DEF Suspend
  <2>3. CASE \E permanent \in BOOLEAN : Fail(w, j, permanent)
    BY <1>1, <2>1, <2>3, FailedCalm, SetCalm DEF Fail
  <2> QED
    BY <1>3, <2>2, <2>3
<1>4. ASSUME NEW j \in Job, Cancel(j) \/ RetryDeadLetter(j)
      PROVE  CalmTable
  <2>1. Exists(jobs[j])
    BY <1>4 DEF Cancel, Active, RetryDeadLetter, Exists, NoRow
  <2> QED
    BY <1>1, <1>4, <2>1, CalmRows, SetCalm DEF Cancel, RetryDeadLetter
<1>5. ASSUME NEW j \in Job, LeaseExpires(j) \/ ComesDue(j)
      PROVE  CalmTable
  <2>1. CASE LeaseExpires(j)
    BY <1>1, <2>1, CalmRows, SetCalm DEF LeaseExpires
  <2>2. CASE ComesDue(j)
    BY <1>1, <2>2, CalmRows, SetCalm DEF ComesDue
  <2> QED
    BY <1>5, <2>1, <2>2
<1>6. ASSUME NEW S \in SUBSET Job, DeadLetterExhausted(S)
      PROVE  CalmTable
  <2> SUFFICES ASSUME NEW j \in Job
               PROVE  Calm(jobs[j], jobs'[j])
    BY DEF CalmTable
  <2>1. jobs'[j] = IF j \in S THEN DeadLettered(jobs[j]) ELSE jobs[j]
    BY <1>6 DEF DeadLetterExhausted
  <2>2. j \in S => Exists(jobs[j])
    BY <1>6 DEF DeadLetterExhausted, Exhausted, Stolen, Exists, NoRow
  <2> QED
    BY <1>1, <2>1, <2>2, CalmRows
<1>7. CASE UNCHANGED jobs
  BY <1>7 DEF CalmTable, Calm
<1> QED
  BY <1>2, <1>3, <1>4, <1>5, <1>6, <1>7 DEF Silent

LEMMA SilentStoreInv ==
    ASSUME StoreInv, Silent
    PROVE  StoreInv'
<1>1. ASSUME NEW w \in Worker, NEW j \in Job, NEW v, Suspend(w, j, v)
      PROVE  [Next]_jobs
  <2>1. v \in 0..MaxWake
    BY <1>1 DEF StoreInv, RowOK, Row, Suspend, Parkable
  <2> QED
    BY <1>1, <2>1 DEF Next, WorkerNext
<1>2. [Next]_jobs
  BY <1>1 DEF Silent, Next, WorkerNext, RequestNext, TimeNext, SweepNext
<1> QED
  BY <1>2, StoreInvNext

-----------------------------------------------------------------------------
(***************************************************************************)
(* The table implements JobLifecycle and never hands out a job whose lease *)
(* is live.  Both are statements about steps, and both hold row by row:    *)
(* Follows says how a row may move in one step.  Each statement's effect   *)
(* on a row is a lemma; that every step of the table moves every row so is *)
(* FollowsNext.                                                            *)
(***************************************************************************)
Left(row) == row.max - row.attempt

\* A move of JobLifecycle that creates or forgets the job.
BeginsOrEnds(old, new) ==
    \/ /\ old.status = "absent" /\ Phase(new) = "waiting"
       /\ new.max \in Nat \ {0} /\ Left(new) = new.max
    \/ /\ old.status \in {"succeeded", "canceled"} /\ new.status = "pruned"
       /\ new.max = 3 /\ Left(new) = 3

\* Any other move of JobLifecycle, or none.
MovesOn(old, new) ==
    /\ new.max = old.max
    /\ \/ /\ Phase(old) \in {"waiting", "running"} /\ new.status = "running"
          /\ Left(old) > 0 /\ Left(new) = Left(old) - 1
       \/ /\ old.status = "running" /\ Phase(new) = "waiting"
          /\ Left(new) = Left(old) + 1 \/ (Left(old) > 0 /\ Left(new) = Left(old))
       \/ /\ \/ old.status = "running" /\ new.status \in {"succeeded", "dead_letter"}
             \/ Phase(old) \in {"waiting", "running"} /\ new.status = "canceled"
          /\ Left(new) = Left(old)
       \/ old.status = "dead_letter" /\ Phase(new) = "waiting" /\ Left(new) = new.max
       \/ Phase(new) = Phase(old) /\ Left(new) = Left(old)

KeepsLease(old, new) ==
    old.lease = "live" /\ new.status = "running"
        => new.owner = old.owner /\ new.attempt = old.attempt

Follows(old, new) ==
    (BeginsOrEnds(old, new) \/ MovesOn(old, new)) /\ KeepsLease(old, new)

-----------------------------------------------------------------------------
\* What RowOK says of a row in each phase.
LEMMA RowFacts ==
    ASSUME NEW row, RowOK(row)
    PROVE  /\ row \in Row /\ row.attempt \in Nat /\ row.max \in Nat \ {0}
           /\ row.status # "running" => row.lease = "none"
           /\ row.status \in Waiting => row.attempt < row.max
           /\ row.attempt <= row.max
BY DEF RowOK, Row

\* A row that keeps its status, owner and attempts has not moved.
LEMMA StayFollows ==
    ASSUME NEW old, NEW new, new.status = old.status, new.max = old.max,
           new.attempt = old.attempt, new.owner = old.owner
    PROVE  Follows(old, new)
BY DEF Follows, MovesOn, KeepsLease, Phase, Left

\* Enqueue and Replay create a job with its whole budget.
LEMMA CreatedFollows ==
    ASSUME NEW old, old.status = "absent", NEW new, RowOK(new),
           new.status = "queued", new.attempt = 0
    PROVE  Follows(old, new)
<1>1. new.max \in Nat \ {0} /\ Left(new) = new.max
  BY RowFacts DEF Left
<1> QED
  BY <1>1 DEF Follows, BeginsOrEnds, KeepsLease, Phase, Waiting

\* Claim charges an attempt, and only a row without a live lease is claimable.
LEMMA ClaimedFollows ==
    ASSUME NEW row, RowOK(row), NEW w \in Worker, NEW q, Claimable(row, q)
    PROVE  Follows(row, Claimed(row, w))
<1>1. /\ row \in Row /\ row.attempt \in Nat /\ row.max \in Nat /\ row.attempt < row.max
      /\ row.lease # "live" /\ Phase(row) \in {"waiting", "running"}
  BY RowFacts DEF Claimable, Stolen, Phase, Waiting
<1> DEFINE a == row.attempt + 1
<1>2. Claimed(row, w) = [row EXCEPT !.status = "running", !.attempt = a,
                                    !.owner = w, !.lease = "live"]
  BY DEF Claimed
<1>3. /\ Claimed(row, w).status = "running" /\ Claimed(row, w).max = row.max
      /\ Claimed(row, w).attempt = a
  BY <1>1, <1>2 DEF Row
<1>4. Left(row) > 0 /\ Left(Claimed(row, w)) = Left(row) - 1
  BY <1>1, <1>3 DEF Left
<1> QED
  BY <1>1, <1>3, <1>4 DEF Follows, MovesOn, KeepsLease

\* Suspend gives the attempt back.
LEMMA SuspendedFollows ==
    ASSUME NEW row, RowOK(row), row.status = "running"
    PROVE  Follows(row, Suspended(row))
<1> DEFINE a == Greatest(row.attempt - 1, 0)
<1>1. /\ row \in Row /\ row.attempt \in Nat /\ row.max \in Nat /\ 1 <= row.attempt
  BY OwnedRange
<1>2. a = row.attempt - 1
  BY <1>1 DEF Greatest
<1>3. Suspended(row) = [[row EXCEPT !.owner = NoWorker, !.lease = "none"]
                           EXCEPT !.status = "queued", !.runAfter = "ahead", !.attempt = a]
  BY DEF Suspended, Released
<1>4. /\ Suspended(row).status = "queued" /\ Suspended(row).max = row.max
      /\ Suspended(row).attempt = a
  BY <1>1, <1>3 DEF Row
<1>5. Left(Suspended(row)) = Left(row) + 1
  BY <1>1, <1>2, <1>4 DEF Left
<1> QED
  BY <1>4, <1>5 DEF Follows, MovesOn, KeepsLease, Phase, Waiting

\* Fail retries only with an attempt left.
LEMMA FailedFollows ==
    ASSUME NEW row, RowOK(row), row.status = "running", NEW permanent \in BOOLEAN
    PROVE  Follows(row, Failed(row, permanent))
<1> DEFINE s == NextStatusAfterFailure(row.attempt, row.max, permanent)
           d == IF s = "dead_letter" THEN "past" ELSE "ahead"
<1>1. row \in Row /\ row.attempt \in Nat /\ row.max \in Nat
  BY OwnedRange
<1>2. s = "dead_letter" \/ (s = "retrying" /\ row.attempt < row.max)
  BY <1>1 DEF NextStatusAfterFailure
<1>3. Failed(row, permanent) = [[row EXCEPT !.owner = NoWorker, !.lease = "none"]
                                   EXCEPT !.status = s, !.runAfter = d]
  BY DEF Failed, Released
<1> HIDE DEF s, d
<1>4. /\ Failed(row, permanent).status = s /\ Failed(row, permanent).max = row.max
      /\ Failed(row, permanent).attempt = row.attempt
  BY <1>1, <1>3 DEF Row
<1>5. /\ Left(Failed(row, permanent)) = Left(row)
      /\ s = "retrying" => Left(row) > 0
  BY <1>1, <1>2, <1>4 DEF Left
<1> QED
  BY <1>2, <1>4, <1>5 DEF Follows, MovesOn, KeepsLease, Phase, Waiting

\* Complete and the sweep end a run, Cancel ends any active job.
LEMMA EndedFollows ==
    ASSUME NEW row, RowOK(row)
    PROVE  /\ row.status = "running" => /\ Follows(row, Succeeded(row))
                                        /\ Follows(row, DeadLettered(row))
           /\ Active(row) => Follows(row, Canceled(row))
<1>1. \A s \in Terminal :
         LET new == [Released(row) EXCEPT !.status = s]
         IN  /\ new.status = s /\ new.max = row.max /\ new.attempt = row.attempt
             /\ Left(new) = Left(row) /\ s # "running"
  BY RowFacts DEF Released, Row, Left, Terminal
<1>2. Active(row) => Phase(row) \in {"waiting", "running"}
  BY RowFacts DEF Active, Exists, Phase, Row, Status
<1>3. {"succeeded", "dead_letter", "canceled"} = Terminal
  BY DEF Terminal
<1> QED
  BY <1>1, <1>2, <1>3 DEF Follows, MovesOn, KeepsLease, Succeeded, DeadLettered, Canceled

\* RetryDeadLetter gives a dead job its whole budget again.
LEMMA RequeuedFollows ==
    ASSUME NEW row, RowOK(row), row.status = "dead_letter"
    PROVE  Follows(row, Requeued(row))
<1>1. row \in Row /\ row.max \in Nat
  BY RowFacts
<1>2. /\ Requeued(row).status = "queued" /\ Requeued(row).max = row.max
      /\ Requeued(row).attempt = 0
  BY <1>1 DEF Requeued, Released, Row
<1>3. Left(Requeued(row)) = Requeued(row).max
  BY <1>1, <1>2 DEF Left
<1> QED
  BY <1>2, <1>3 DEF Follows, MovesOn, KeepsLease, Phase, Waiting

\* Retention forgets jobs that ended well.
LEMMA PrunedFollows ==
    ASSUME NEW row, NEW q, Prunable(row, q)
    PROVE  Follows(row, Pruned)
<1>1. Pruned.status = "pruned" /\ Pruned.max = 3 /\ Pruned.attempt = 0
  BY DEF Pruned, Default
<1>2. Left(Pruned) = 3
  BY <1>1 DEF Left
<1> QED
  BY <1>1, <1>2 DEF Follows, BeginsOrEnds, KeepsLease, Prunable

\* Heartbeats, signals and time are no moves.
LEMMA QuietFollows ==
    ASSUME NEW row, RowOK(row)
    PROVE  /\ Follows(row, row) /\ Follows(row, Renewed(row)) /\ Follows(row, Woken(row))
           /\ Follows(row, [row EXCEPT !.lease = "expired"])
           /\ Follows(row, [row EXCEPT !.runAfter = "past"])
<1>1. row \in Row
  BY RowFacts
<1>2. Follows(row, row)
  BY StayFollows
<1>3. Follows(row, Renewed(row))
  BY <1>1, StayFollows DEF Renewed, Row
<1>4. Follows(row, [row EXCEPT !.lease = "expired"])
  BY <1>1, StayFollows DEF Row
<1>5. Follows(row, [row EXCEPT !.runAfter = "past"])
  BY <1>1, StayFollows DEF Row
<1>6. Follows(row, Woken(row))
  <2> DEFINE v == row.wake + 1
  <2>1. Woken(row) = [row EXCEPT !.runAfter = "past", !.wake = v]
    BY DEF Woken
  <2> HIDE DEF v
  <2> QED
    BY <1>1, <2>1, StayFollows DEF Row
<1> QED
  BY <1>2, <1>3, <1>4, <1>5, <1>6

-----------------------------------------------------------------------------
\* In a step that writes one row the others stay.
LEMMA OneRowFollows ==
    ASSUME StoreInv, NEW j \in Job, NEW row, SetRow(j, row), Follows(jobs[j], row)
    PROVE  \A i \in Job : Follows(jobs[i], jobs'[i])
BY QuietFollows DEF StoreInv, SetRow

LEMMA EnqueueFollows ==
    ASSUME StoreInv, NEW j \in Job, NEW q \in Queue \cup {NoQueue}, NEW m \in Int,
           NEW d \in {"past", "ahead"}, NEW k \in Key \cup {NoKey}, Enqueue(j, q, m, d, k)
    PROVE  \A i \in Job : Follows(jobs[i], jobs'[i])
<1> DEFINE row == Enqueued(q, m, d, k)
<1>1. row.status = "queued" /\ row.attempt = 0 /\ RowOK(row)
  BY EnqueuedOK DEF Enqueued, Default
<1>2. Follows(jobs[j], row)
  BY <1>1, CreatedFollows DEF Enqueue
<1> QED
  BY <1>2, OneRowFollows DEF Enqueue

\* Every step moves every row as JobLifecycle allows and respects live leases.
LEMMA FollowsNext ==
    ASSUME StoreInv, [Next]_jobs
    PROVE  \A j \in Job : Follows(jobs[j], jobs'[j])
<1> DEFINE Goal == \A j \in Job : Follows(jobs[j], jobs'[j])
<1>ok. \A j \in Job : RowOK(jobs[j])
  BY DEF StoreInv
<1>1. CASE RequestNext
  <2>1. ASSUME NEW j \in Job, NEW q \in Queue \cup {NoQueue},
               NEW m \in RequestedMax, NEW d \in {"past", "ahead"},
               NEW k \in Key \cup {NoKey}, Enqueue(j, q, m, d, k)
        PROVE  Goal
    BY <2>1, RequestAssumption, EnqueueFollows
  <2>2. ASSUME NEW j \in Job, Signal(j) PROVE Goal
    BY <2>2, <1>ok, QuietFollows, OneRowFollows DEF Signal
  <2>3. ASSUME NEW j \in Job, Cancel(j) PROVE Goal
    BY <2>3, <1>ok, EndedFollows, OneRowFollows DEF Cancel
  <2>4. ASSUME NEW j \in Job, RetryDeadLetter(j) PROVE Goal
    BY <2>4, <1>ok, RequeuedFollows, OneRowFollows DEF RetryDeadLetter
  <2>5. ASSUME NEW j \in Job, NEW i \in Job, Replay(j, i) PROVE Goal
    <3> DEFINE row == Copied(jobs[j])
    <3>1. row.status = "queued" /\ row.attempt = 0 /\ RowOK(row)
      BY <1>ok, RestartedOK DEF Copied, Default
    <3>2. Follows(jobs[i], row)
      BY <2>5, <3>1, CreatedFollows DEF Replay
    <3> QED
      BY <2>5, <3>2, OneRowFollows DEF Replay
  <2> QED
    BY <1>1, <2>1, <2>2, <2>3, <2>4, <2>5 DEF RequestNext
<1>2. CASE WorkerNext
  <2>1. ASSUME NEW w \in Worker, NEW q \in Queue, NEW S \in SUBSET Job,
               Claim(w, q, S)
        PROVE  Goal
    <3>1. \A j \in S : Follows(jobs[j], Claimed(jobs[j], w))
      BY <2>1, <1>ok, ClaimedFollows DEF Claim
    <3> QED
      BY <2>1, <3>1, <1>ok, QuietFollows DEF Claim
  <2>2. ASSUME NEW w \in Worker, NEW j \in Job, Heartbeat(w, j) PROVE Goal
    BY <2>2, <1>ok, QuietFollows, OneRowFollows DEF Heartbeat
  <2>3. ASSUME NEW w \in Worker, NEW j \in Job, NEW v \in 0..MaxWake,
               Suspend(w, j, v)
        PROVE  Goal
    BY <2>3, <1>ok, SuspendedFollows, OneRowFollows DEF Suspend, Parkable, Owned
  <2>4. ASSUME NEW w \in Worker, NEW j \in Job, Complete(w, j) PROVE Goal
    BY <2>4, <1>ok, EndedFollows, OneRowFollows DEF Complete, Owned
  <2>5. ASSUME NEW w \in Worker, NEW j \in Job, NEW permanent \in BOOLEAN,
               Fail(w, j, permanent)
        PROVE  Goal
    BY <2>5, <1>ok, FailedFollows, OneRowFollows DEF Fail, Owned
  <2> QED
    BY <1>2, <2>1, <2>2, <2>3, <2>4, <2>5 DEF WorkerNext
<1>3. CASE SweepNext
  <2>1. ASSUME NEW S \in SUBSET Job, DeadLetterExhausted(S) PROVE Goal
    <3>1. \A j \in S : Follows(jobs[j], DeadLettered(jobs[j]))
      BY <2>1, <1>ok, EndedFollows DEF DeadLetterExhausted, Exhausted, Stolen
    <3> QED
      BY <2>1, <3>1, <1>ok, QuietFollows DEF DeadLetterExhausted
  <2>2. ASSUME NEW S \in SUBSET Job, NEW q \in Queue, PruneCompleted(q, S)
        PROVE  Goal
    <3>1. \A j \in S : Follows(jobs[j], Pruned)
      BY <2>2, PrunedFollows DEF PruneCompleted
    <3> QED
      BY <2>2, <3>1, <1>ok, QuietFollows DEF PruneCompleted
  <2> QED
    BY <1>3, <2>1, <2>2 DEF SweepNext
<1>4. CASE TimeNext
  <2>1. ASSUME NEW j \in Job, LeaseExpires(j) PROVE Goal
    BY <2>1, <1>ok, QuietFollows, OneRowFollows DEF LeaseExpires
  <2>2. ASSUME NEW j \in Job, ComesDue(j) PROVE Goal
    BY <2>2, <1>ok, QuietFollows, OneRowFollows DEF ComesDue
  <2> QED
    BY <1>4, <2>1, <2>2 DEF TimeNext
<1>5. CASE UNCHANGED jobs
  BY <1>5, <1>ok, QuietFollows
<1> QED
  BY <1>1, <1>2, <1>3, <1>4, <1>5 DEF Next

-----------------------------------------------------------------------------
\* No statement takes a job from a worker whose lease is live (Claim's guard on
\* lease_expires_at, the owner tests of the others).
THEOREM LeaseKept == Spec => LiveLeaseIsKept
<1> DEFINE Kept == \A j \in Job :
               jobs[j].lease = "live" /\ jobs'[j].status = "running"
                   => /\ jobs'[j].owner = jobs[j].owner
                      /\ jobs'[j].attempt = jobs[j].attempt
<1>1. StoreInv /\ [Next]_jobs => [Kept]_jobs
  BY FollowsNext DEF Follows, KeepsLease
<1> QED
  BY <1>1, StoreInvariant, PTL DEF Spec, LiveLeaseIsKept

\* A row that follows takes a step of its own lifecycle.
LEMMA LifeStep ==
    ASSUME NEW j \in Job, Follows(jobs[j], jobs'[j])
    PROVE  \/ Life!Create(j) \/ Life!Start(j) \/ Life!Park(j) \/ Life!Retry(j)
           \/ Life!Finish(j) \/ Life!Revive(j) \/ Life!Forget(j) \/ Life!Stay(j)
<1> DEFINE old == jobs[j]
           new == jobs'[j]
<1>1. CASE BeginsOrEnds(old, new)
  BY <1>1 DEF BeginsOrEnds, Left, Phase, Waiting, Life!Create, Life!Forget,
              Life!Move, Life!Budget, Life!DefaultBudget
<1>2. CASE MovesOn(old, new)
  BY <1>2 DEF MovesOn, Left, Phase, Waiting, Life!Start, Life!Park, Life!Retry,
              Life!Finish, Life!Revive, Life!Stay, Life!Move, Life!Budget
<1> QED
  BY <1>1, <1>2 DEF Follows

\* The jobs table implements the lifecycle the documentation promises.
THEOREM StoreImplementsLifecycle == Spec => ImplementsLifecycle
<1>1. Init => Life!LifeInit
  BY DEF Init, Default, Phase, Waiting, Life!LifeInit, Life!DefaultBudget
<1>2. StoreInv /\ [Next]_jobs => [Life!LifeNext]_(Life!lifeVars)
  BY FollowsNext, LifeStep DEF Life!LifeNext
<1> QED
  BY <1>1, <1>2, StoreInvariant, PTL DEF Spec, ImplementsLifecycle, Life!LifeSpec

\* What a component that works on the table must leave true of it, wherever it
\* starts: the table's invariants, its leases, and the lifecycle's steps.
TableKept ==
    /\ []AttemptBudget /\ []RunningIsDue /\ []LeaseIffRunning
    /\ LiveLeaseIsKept
    /\ [][Life!LifeNext]_(Life!lifeVars)

\* A row follows another by one statement.
AllFollow == \A j \in Job : Follows(jobs[j], jobs'[j])

LEMMA StoreInvSuffices == StoreInv => AttemptBudget /\ RunningIsDue /\ LeaseIffRunning
BY DEF StoreInv, RowOK, AttemptBudget, RunningIsDue, LeaseIffRunning

\* Components show these two of their behaviours.
LEMMA KeepsTable == []StoreInv /\ [][AllFollow]_jobs => TableKept
<1> DEFINE Kept == \A j \in Job :
               jobs[j].lease = "live" /\ jobs'[j].status = "running"
                   => /\ jobs'[j].owner = jobs[j].owner
                      /\ jobs'[j].attempt = jobs[j].attempt
<1>1. [AllFollow]_jobs => [Kept]_jobs
  BY DEF AllFollow, Follows, KeepsLease
<1>2. [AllFollow]_jobs => [Life!LifeNext]_(Life!lifeVars)
  <2>1. AllFollow => Life!LifeNext
    BY LifeStep DEF AllFollow, Life!LifeNext
  <2>2. UNCHANGED jobs => UNCHANGED Life!lifeVars
    BY DEF Life!lifeVars
  <2> QED
    BY <2>1, <2>2
<1> QED
  BY <1>1, <1>2, StoreInvSuffices, PTL DEF TableKept, LiveLeaseIsKept

-----------------------------------------------------------------------------
(***************************************************************************)
(* Sums over finite sets, for the modules that count rows and add up       *)
(* amounts: MapThenSumSet takes the elements in an order nobody knows, and *)
(* the result does not depend on it.                                       *)
(*                                                                         *)
(* Induction over finite sets is used in the form SmallestSet gives it:    *)
(* among the sets that refute a statement there is a smallest one.         *)
(***************************************************************************)
\* The sum of f over S.
Sum(f, S) == MapThenSumSet(LAMBDA x : f[x], S)

Pick(s) == CHOOSE x \in s : TRUE

\* One step of the fold, and a function on the subsets of S that folds.
FoldStep(f, g, s) == IF s = {} THEN 0 ELSE f[Pick(s)] + g[s \ {Pick(s)}]
Adds(g, f, S) == g = [s \in SUBSET S |-> FoldStep(f, g, s)]

\* Any set of finite sets has a member no other one is inside of.
LEMMA SmallestSet ==
    ASSUME NEW S, NEW T, T \subseteq FiniteSubsetsOf(S), T # {}
    PROVE  \E A \in T : \A B \in T : ~(B \subseteq A /\ B # A)
<1>1. IsWellFoundedOn(StrictSubsetOrdering(S), FiniteSubsetsOf(S))
  BY FS_StrictSubsetOrderingWellFounded
<1>2. PICK A \in T : \A B \in T : ~(<<B, A>> \in StrictSubsetOrdering(S))
  BY <1>1, WFMin
<1>3. \A B \in T : ~(B \subseteq A /\ B # A)
  BY <1>2 DEF StrictSubsetOrdering, FiniteSubsetsOf
<1> QED
  BY <1>3

\* The element a fold takes out.
LEMMA Picked ==
    ASSUME NEW S, NEW A \in FiniteSubsetsOf(S), A # {}
    PROVE  /\ Pick(A) \in A
           /\ A \ {Pick(A)} \in FiniteSubsetsOf(S)
           /\ A \ {Pick(A)} \subseteq A /\ A \ {Pick(A)} # A
<1>1. Pick(A) \in A
  BY DEF Pick
<1>2. IsFiniteSet(A \ {Pick(A)})
  BY FS_RemoveElement DEF FiniteSubsetsOf
<1> QED
  BY <1>1, <1>2 DEF FiniteSubsetsOf

\* Folding functions agree where both are defined.
LEMMA AddsAgree ==
    ASSUME NEW f, NEW S, NEW g, Adds(g, f, S), NEW T, NEW h, Adds(h, f, T),
           NEW A \in FiniteSubsetsOf(S), A \subseteq T
    PROVE  g[A] = h[A]
<1> DEFINE Bad == {B \in FiniteSubsetsOf(S) : B \subseteq T /\ g[B] # h[B]}
<1>1. SUFFICES ASSUME Bad # {} PROVE FALSE
  OBVIOUS
<1>2. Bad \subseteq FiniteSubsetsOf(S)
  OBVIOUS
<1> HIDE DEF Bad
<1>3. PICK B \in Bad : \A C \in Bad : ~(C \subseteq B /\ C # B)
  BY <1>1, <1>2, SmallestSet
<1>4. B \in SUBSET S /\ B \in SUBSET T /\ g[B] = FoldStep(f, g, B) /\ h[B] = FoldStep(f, h, B)
  BY <1>2 DEF Adds, FiniteSubsetsOf, Bad
<1>5. B # {} /\ g[B] # h[B]
  BY <1>4 DEF FoldStep, Bad
<1> DEFINE C == B \ {Pick(B)}
<1>6. C \in FiniteSubsetsOf(S) /\ C \subseteq B /\ C # B
  BY <1>2, <1>5, Picked
<1>7. g[C] = h[C]
  BY <1>3, <1>4, <1>6 DEF Bad
<1> QED
  BY <1>4, <1>5, <1>7 DEF FoldStep

\* A finite set has a folding function.
LEMMA AddsExists ==
    ASSUME NEW f, NEW S, IsFiniteSet(S)
    PROVE  \E g : Adds(g, f, S)
<1> DEFINE Bad == {B \in FiniteSubsetsOf(S) : ~\E g : Adds(g, f, B)}
<1>1. SUFFICES ASSUME Bad # {} PROVE FALSE
  BY DEF FiniteSubsetsOf
<1>2. Bad \subseteq FiniteSubsetsOf(S)
  OBVIOUS
<1> HIDE DEF Bad
<1>3. PICK A \in Bad : \A C \in Bad : ~(C \subseteq A /\ C # A)
  BY <1>1, <1>2, SmallestSet
<1>4. A \in FiniteSubsetsOf(S) /\ A \subseteq S /\ IsFiniteSet(A) /\ ~\E g : Adds(g, f, A)
  BY DEF FiniteSubsetsOf, Bad
<1>5. \A B \in SUBSET A : B \in FiniteSubsetsOf(S) /\ B \in FiniteSubsetsOf(A)
  BY <1>4, FS_Subset DEF FiniteSubsetsOf
<1> DEFINE G(B) == CHOOSE g : Adds(g, f, B)
           V(B) == G(B)[B]
           h == [B \in SUBSET A |->
                   IF B # A THEN V(B)
                   ELSE IF A = {} THEN 0 ELSE f[Pick(A)] + V(A \ {Pick(A)})]
<1>6. \A B \in SUBSET A : B # A => Adds(G(B), f, B)
  <2> TAKE B \in SUBSET A
  <2> HAVE B # A
  <2>1. \E g : Adds(g, f, B)
    BY <1>3, <1>5 DEF Bad
  <2> QED
    BY <2>1
<1>7. ASSUME NEW B \in SUBSET A
      PROVE  h[B] = FoldStep(f, h, B)
  <2> DEFINE C == B \ {Pick(B)}
  <2>1. CASE B = {}
    <3>1. CASE B = A
      BY <2>1, <3>1 DEF FoldStep
    <3>2. CASE B # A
      <4>1. Adds(G(B), f, B) /\ h[B] = G(B)[B]
        BY <1>6, <3>2
      <4>2. G(B)[B] = FoldStep(f, G(B), B)
        BY <4>1 DEF Adds
      <4> QED
        BY <2>1, <4>1, <4>2 DEF FoldStep
    <3> QED
      BY <3>1, <3>2
  <2>2. CASE B # {}
    <3>1. C \in SUBSET A /\ C # A /\ C \in SUBSET B /\ C # B
      BY <1>5, <2>2, Picked
    <3>2. h[C] = V(C)
      BY <3>1
    <3>3. CASE B = A
      BY <2>2, <3>2, <3>3 DEF FoldStep
    <3>4. CASE B # A
      <4>1. Adds(G(B), f, B) /\ Adds(G(C), f, C) /\ h[B] = G(B)[B]
        BY <1>6, <3>1, <3>4
      <4>2. C \in FiniteSubsetsOf(B)
        BY <1>5, <3>1 DEF FiniteSubsetsOf
      <4> HIDE DEF G, C
      <4>3. G(B)[C] = G(C)[C]
        BY <4>1, <4>2, AddsAgree
      <4>4. G(B)[B] = FoldStep(f, G(B), B)
        BY <4>1 DEF Adds
      <4> QED
        BY <2>2, <3>2, <4>1, <4>3, <4>4 DEF FoldStep, C
    <3> QED
      BY <3>3, <3>4
  <2> QED
    BY <2>1, <2>2
<1> HIDE DEF h
<1>8. h = [B \in SUBSET A |-> FoldStep(f, h, B)]
  <2>1. h = [B \in SUBSET A |-> h[B]]
    BY DEF h
  <2> QED
    BY <1>7, <2>1
<1> QED
  BY <1>4, <1>8 DEF Adds

\* The sum over a set is what is taken out and the sum over the rest.
LEMMA SumPicks ==
    ASSUME NEW f, NEW S, IsFiniteSet(S)
    PROVE  Sum(f, S) = IF S = {} THEN 0 ELSE f[Pick(S)] + Sum(f, S \ {Pick(S)})
<1> DEFINE G(B) == CHOOSE g : Adds(g, f, B)
           C == S \ {Pick(S)}
<1>1. \A B : Sum(f, B) = G(B)[B]
  BY DEF Sum, MapThenSumSet, MapThenFoldSet, Adds, FoldStep, Pick
<1>2. \A B : IsFiniteSet(B) => Adds(G(B), f, B)
  <2> TAKE B
  <2> HAVE IsFiniteSet(B)
  <2>1. \E g : Adds(g, f, B)
    BY AddsExists
  <2> QED
    BY <2>1
<1> HIDE DEF G
<1>3. G(S)[S] = FoldStep(f, G(S), S)
  BY <1>2 DEF Adds
<1>4. CASE S = {}
  BY <1>1, <1>3, <1>4 DEF FoldStep
<1>5. CASE S # {}
  <2>1. S \in FiniteSubsetsOf(S)
    BY DEF FiniteSubsetsOf
  <2>2. C \in FiniteSubsetsOf(S) /\ C \subseteq S /\ IsFiniteSet(C)
    BY <1>5, <2>1, Picked DEF FiniteSubsetsOf
  <2>3. Adds(G(S), f, S) /\ Adds(G(C), f, C)
    BY <1>2, <2>2
  <2>4. G(S)[C] = G(C)[C]
    BY <2>2, <2>3, AddsAgree
  <2> QED
    BY <1>1, <1>3, <1>5, <2>4 DEF FoldStep
<1> QED
  BY <1>4, <1>5

LEMMA SumEmpty == \A f : Sum(f, {}) = 0
BY SumPicks, FS_EmptySet

\* Sums of integers are integers, and sums of naturals naturals.
LEMMA SumType ==
    ASSUME NEW N \in {Int, Nat}, NEW f, NEW S, IsFiniteSet(S), \A x \in S : f[x] \in N
    PROVE  Sum(f, S) \in N
<1> DEFINE Bad == {B \in FiniteSubsetsOf(S) : Sum(f, B) \notin N}
<1>1. SUFFICES ASSUME Bad # {} PROVE FALSE
  BY DEF FiniteSubsetsOf
<1>2. Bad \subseteq FiniteSubsetsOf(S)
  OBVIOUS
<1> HIDE DEF Bad
<1>3. PICK B \in Bad : \A C \in Bad : ~(C \subseteq B /\ C # B)
  BY <1>1, <1>2, SmallestSet
<1>4. B \subseteq S /\ IsFiniteSet(B) /\ B \in FiniteSubsetsOf(S) /\ Sum(f, B) \notin N
  BY <1>2 DEF FiniteSubsetsOf, Bad
<1>5. B # {}
  BY <1>4, SumEmpty
<1>6. Pick(B) \in B /\ Sum(f, B \ {Pick(B)}) \in N
  BY <1>3, <1>4, <1>5, Picked DEF Bad
<1>7. Sum(f, B) = f[Pick(B)] + Sum(f, B \ {Pick(B)})
  BY <1>4, <1>5, SumPicks
<1> QED
  BY <1>4, <1>6, <1>7

\* Any element may be taken out.
LEMMA SumRemoves ==
    ASSUME NEW f, NEW S, IsFiniteSet(S), \A x \in S : f[x] \in Int, NEW x \in S
    PROVE  Sum(f, S) = f[x] + Sum(f, S \ {x})
<1> DEFINE Fair(B) == \A y \in B : Sum(f, B) = f[y] + Sum(f, B \ {y})
           Bad == {B \in FiniteSubsetsOf(S) : ~Fair(B)}
<1>1. SUFFICES ASSUME Bad # {} PROVE FALSE
  BY DEF FiniteSubsetsOf
<1>2. Bad \subseteq FiniteSubsetsOf(S)
  OBVIOUS
<1> HIDE DEF Bad
<1>3. PICK B \in Bad : \A C \in Bad : ~(C \subseteq B /\ C # B)
  BY <1>1, <1>2, SmallestSet
<1>4. B \subseteq S /\ IsFiniteSet(B) /\ B \in FiniteSubsetsOf(S) /\ ~Fair(B)
  BY <1>2 DEF FiniteSubsetsOf, Bad
<1>5. PICK y \in B : Sum(f, B) # f[y] + Sum(f, B \ {y})
  BY <1>4
<1> DEFINE z == Pick(B)
<1>6. z \in B /\ Sum(f, B) = f[z] + Sum(f, B \ {z})
  BY <1>4, <1>5, SumPicks, Picked
<1> HIDE DEF z
<1>7. z # y
  BY <1>5, <1>6
<1>8. \A w \in B : /\ IsFiniteSet(B \ {w}) /\ B \ {w} \in FiniteSubsetsOf(S)
                   /\ B \ {w} \subseteq B /\ B \ {w} # B
  BY <1>4, FS_RemoveElement DEF FiniteSubsetsOf
<1>9. Fair(B \ {z}) /\ Fair(B \ {y})
  BY <1>3, <1>6, <1>8 DEF Bad
<1>10. /\ Sum(f, B \ {z}) = f[y] + Sum(f, (B \ {z}) \ {y})
       /\ Sum(f, B \ {y}) = f[z] + Sum(f, (B \ {y}) \ {z})
  BY <1>6, <1>7, <1>9
<1>11. (B \ {z}) \ {y} = (B \ {y}) \ {z}
  OBVIOUS
<1>12. Sum(f, (B \ {y}) \ {z}) \in Int /\ f[y] \in Int /\ f[z] \in Int
  <2>1. IsFiniteSet((B \ {y}) \ {z}) /\ (B \ {y}) \ {z} \subseteq S
    BY <1>4, <1>8, FS_RemoveElement
  <2> QED
    BY <1>4, <1>6, <2>1, SumType
<1> DEFINE rest == Sum(f, (B \ {y}) \ {z})
<1>13. /\ Sum(f, B \ {z}) = f[y] + rest /\ Sum(f, B \ {y}) = f[z] + rest
       /\ rest \in Int
  BY <1>10, <1>11, <1>12
<1> HIDE DEF rest
<1>14. Sum(f, B) = f[y] + Sum(f, B \ {y})
  BY <1>6, <1>12, <1>13
<1> QED
  BY <1>5, <1>14

LEMMA SumAdds ==
    ASSUME NEW f, NEW S, IsFiniteSet(S), NEW x, x \notin S, \A y \in S \cup {x} : f[y] \in Int
    PROVE  Sum(f, S \cup {x}) = f[x] + Sum(f, S)
<1>1. IsFiniteSet(S \cup {x}) /\ (S \cup {x}) \ {x} = S
  BY FS_AddElement
<1> QED
  BY <1>1, SumRemoves

\* The elements of J whose class under g lies in D.
Within(J, g, D) == {j \in J : g[j] \in D}

\* Counted class by class they are all there.
LEMMA CountByClass ==
    ASSUME NEW J, IsFiniteSet(J), NEW g, NEW D, IsFiniteSet(D), NEW f,
           \A d \in D : f[d] = Cardinality(Within(J, g, {d}))
    PROVE  Sum(f, D) = Cardinality(Within(J, g, D))
<1> DEFINE Of(E) == Within(J, g, E)
           Bad == {E \in FiniteSubsetsOf(D) : Sum(f, E) # Cardinality(Of(E))}
<1>1. SUFFICES ASSUME Bad # {} PROVE FALSE
  BY DEF FiniteSubsetsOf
<1>2. Bad \subseteq FiniteSubsetsOf(D)
  OBVIOUS
<1>f. \A E : IsFiniteSet(Of(E)) /\ Cardinality(Of(E)) \in Nat
  <2> TAKE E
  <2>1. Of(E) \subseteq J
    BY DEF Within
  <2> QED
    BY <2>1, FS_Subset, FS_CardinalityType
<1> HIDE DEF Bad
<1>3. PICK B \in Bad : \A C \in Bad : ~(C \subseteq B /\ C # B)
  BY <1>1, <1>2, SmallestSet
<1>4. B \subseteq D /\ IsFiniteSet(B) /\ B \in FiniteSubsetsOf(D) /\ Sum(f, B) # Cardinality(Of(B))
  BY <1>2 DEF FiniteSubsetsOf, Bad
<1>5. B # {}
  <2>1. SUFFICES ASSUME B = {} PROVE FALSE
    OBVIOUS
  <2>2. Of({}) = {} /\ Sum(f, {}) = 0
    BY SumEmpty DEF Within
  <2>3. Cardinality(Of({})) = 0
    BY <2>2, FS_EmptySet
  <2> QED
    BY <1>4, <2>1, <2>2, <2>3
<1> DEFINE x == Pick(B)
           C == B \ {x}
<1>6. x \in B /\ C \in FiniteSubsetsOf(D) /\ C \subseteq B /\ C # B
  BY <1>4, <1>5, Picked
<1>7. Sum(f, B) = f[x] + Sum(f, C)
  BY <1>4, <1>5, SumPicks
<1> HIDE DEF x
<1>8. Sum(f, C) = Cardinality(Of(C))
  BY <1>3, <1>6 DEF Bad
<1>9. f[x] = Cardinality(Of({x}))
  <2>1. x \in D
    BY <1>4, <1>6
  <2> QED
    BY <2>1
<1>10. Of(B) = Of({x}) \cup Of(C) /\ Of({x}) \cap Of(C) = {}
  BY <1>6 DEF Within
<1> HIDE DEF Of, C
<1>11. Cardinality(Of(B)) = Cardinality(Of({x})) + Cardinality(Of(C)) - Cardinality({})
  <2>1. \A U, V : IsFiniteSet(U) /\ IsFiniteSet(V) =>
           Cardinality(U \cup V) = Cardinality(U) + Cardinality(V) - Cardinality(U \cap V)
    BY FS_Union
  <2>2. IsFiniteSet(Of({x})) /\ IsFiniteSet(Of(C))
    BY <1>f
  <2>3. Cardinality(Of({x}) \cup Of(C))
           = Cardinality(Of({x})) + Cardinality(Of(C)) - Cardinality(Of({x}) \cap Of(C))
    BY <2>1, <2>2
  <2> QED
    BY <1>10, <2>3
<1>12. Cardinality(Of(B)) = Cardinality(Of({x})) + Cardinality(Of(C))
  BY <1>f, <1>11, FS_EmptySet
<1> QED
  BY <1>4, <1>7, <1>8, <1>9, <1>12
=============================================================================
