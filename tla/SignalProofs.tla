---------------------------- MODULE SignalProofs ----------------------------
(***************************************************************************)
(* Proofs about signal delivery, for every number of senders, workers,     *)
(* waits and signals, and every sharing of idempotency keys.               *)
(*                                                                         *)
(* The reader addresses the mailbox by position (OFFSET over ORDER BY id), *)
(* so the first part is about positions: a row's is the number of rows     *)
(* before it.  They are told apart, leave no gap, and stay what they are   *)
(* when a row with a greater id is added.                                  *)
(***************************************************************************)
EXTENDS SignalDelivery, JobStoreProofs

Mailbox(R) == IsFiniteSet(R) /\ \A a \in R : a.id \in Nat /\ \A b \in R : a.id = b.id => a = b

Before(R, row) == {other \in R : other.id < row.id}
Position(R, row) == Cardinality(Before(R, row))

\* A position is a number.
LEMMA PositionType ==
    ASSUME NEW R, Mailbox(R), NEW row
    PROVE  Position(R, row) \in Nat /\ IsFiniteSet(Before(R, row))
BY FS_Subset, FS_CardinalityType DEF Mailbox, Before, Position

\* Positions grow with the ids.
LEMMA PositionGrows ==
    ASSUME NEW R, Mailbox(R), NEW a \in R, NEW b \in R, a.id < b.id
    PROVE  Position(R, a) < Position(R, b)
<1>1. Before(R, a) \subseteq Before(R, b) /\ a \in Before(R, b) /\ a \notin Before(R, a)
  BY DEF Mailbox, Before
<1>2. IsFiniteSet(Before(R, b)) /\ Position(R, a) \in Nat /\ Position(R, b) \in Nat
  BY PositionType
<1>3. Cardinality(Before(R, a)) <= Cardinality(Before(R, b))
      /\ Cardinality(Before(R, a)) # Cardinality(Before(R, b))
  BY <1>1, <1>2, FS_Subset
<1> QED
  BY <1>2, <1>3 DEF Position

\* No two rows have one position.
LEMMA PositionUnique ==
    ASSUME NEW R, Mailbox(R), NEW a \in R, NEW b \in R, Position(R, a) = Position(R, b)
    PROVE  a = b
<1>1. Position(R, a) \in Nat /\ a.id \in Nat /\ b.id \in Nat
  BY PositionType DEF Mailbox
<1>2. ~(a.id < b.id) /\ ~(b.id < a.id)
  BY <1>1, PositionGrows
<1> QED
  BY <1>1, <1>2 DEF Mailbox

\* A mailbox that has a row at some position has one at every smaller one.
LEMMA NoGap ==
    ASSUME NEW R, Mailbox(R), NEW b \in R, NEW i \in Nat, i <= Position(R, b)
    PROVE  \E a \in R : Position(R, a) = i
<1> DEFINE Late == {r \in R : i <= Position(R, r)}
           T == {Before(R, r) : r \in Late}
<1>1. T \subseteq FiniteSubsetsOf(R) /\ T # {}
  <2>1. \A r \in R : Before(R, r) \in FiniteSubsetsOf(R)
    BY PositionType DEF FiniteSubsetsOf, Before
  <2>2. Before(R, b) \in T
    OBVIOUS
  <2> QED
    BY <2>1, <2>2
<1> HIDE DEF T
<1>2. PICK A \in T : \A B \in T : ~(B \subseteq A /\ B # A)
  BY <1>1, SmallestSet
<1>3. PICK a \in Late : A = Before(R, a)
  BY DEF T
<1>4. \A r \in Before(R, a) : Position(R, r) < i
  <2> SUFFICES ASSUME NEW r \in Before(R, a), ~(Position(R, r) < i)
               PROVE  FALSE
    OBVIOUS
  <2>1. r \in R /\ r.id < a.id /\ Position(R, r) \in Nat
    BY PositionType DEF Before
  <2>2. Before(R, r) \in T
    BY <2>1 DEF T
  <2>3. Before(R, r) \subseteq Before(R, a) /\ r \notin Before(R, r)
    BY <2>1, <1>3 DEF Before, Mailbox
  <2> QED
    BY <1>2, <1>3, <2>2, <2>3
<1>5. a \in R /\ Position(R, a) \in Nat /\ i <= Position(R, a)
  BY <1>3, PositionType
<1>6. ~(i < Position(R, a))
  <2> SUFFICES ASSUME i < Position(R, a)
               PROVE  FALSE
    OBVIOUS
  <2> DEFINE f == [r \in Before(R, a) |-> Position(R, r)]
  <2>1. \A r \in Before(R, a) : Position(R, r) \in 0..(i - 1)
    BY <1>4, PositionType
  <2>2. f \in [Before(R, a) -> 0..(i - 1)]
    BY <2>1
  <2>3. IsFiniteSet(0..(i - 1)) /\ Cardinality(0..(i - 1)) = i
    BY FS_Interval
  <2>4. IsFiniteSet(Before(R, a)) /\ Cardinality(0..(i - 1)) < Cardinality(Before(R, a))
    BY <2>3, PositionType DEF Position
  <2> HIDE DEF f
  <2>5. PICK x \in Before(R, a), y \in Before(R, a) : x # y /\ f[x] = f[y]
    BY <2>2, <2>3, <2>4, FS_PigeonHole
  <2>6. Position(R, x) = Position(R, y)
    BY <2>5 DEF f
  <2>7. x \in R /\ y \in R
    BY DEF Before
  <2> QED
    BY <2>5, <2>6, <2>7, PositionUnique
<1> QED
  BY <1>5, <1>6

\* A row that comes last moves no other.
LEMMA PositionsStay ==
    ASSUME NEW R, NEW new, \A r \in R : r.id < new.id /\ r.id \in Nat, new.id \in Nat
    PROVE  \A r \in R : Position(R \cup {new}, r) = Position(R, r)
<1> TAKE r \in R
<1>1. Before(R \cup {new}, r) = Before(R, r)
  BY DEF Before
<1> QED
  BY <1>1 DEF Position

\* One more delivery.
LEMMA MailboxGrows ==
    ASSUME NEW R, Mailbox(R), NEW new, new.id \in Nat, \A r \in R : r.id # new.id
    PROVE  Mailbox(R \cup {new})
BY FS_AddElement DEF Mailbox

\* GetSignalAt reads by position.
LEMMA ReadsByPosition ==
    \A i : SignalAt(i) = {row \in signals : Position(signals, row) = i}
BY DEF SignalAt, Earlier, Position, Before

-----------------------------------------------------------------------------
(***************************************************************************)
(* The inductive invariant.                                                *)
(***************************************************************************)
RunRecord == [pc : Executing \cup {"idle", "suspend", "complete"}, wake : Nat,
              read : 0..MaxSends, got : Seq(1..MaxSends)]

RunOK(r) ==
    /\ Len(r.got) <= Waits
    /\ r.pc \in Executing => Len(r.got) < Waits
    /\ r.pc \in {"check", "insert"} => r.read # 0

DShape ==
    /\ sends \in 0..MaxSends
    /\ send \in [Sender -> [pc : {"idle", "inserted", "locked", "missed", "acked", "refused"},
                            id : 0..MaxSends]]
    /\ signals \subseteq [id : 1..MaxSends, key : Key \cup {NoKey}]
    /\ saved \in [0..Waits - 1 -> 0..MaxSends]
    /\ run \in [Worker -> RunRecord]
    /\ \A w \in Worker : RunOK(run[w])

\* DeliveredOnce holds because of what is not committed yet: an open insert
\* excludes its key from the mailbox and from every other open insert.
Posted ==
    /\ Mailbox(signals)
    /\ \A row \in signals : row.id <= sends
    /\ \A s \in Sender : Open(s) =>
          /\ send[s].id \in 1..sends
          /\ ~Duplicate(s)
          /\ \A row \in signals : row.id # send[s].id
    /\ \A s, t \in Sender : Open(s) /\ Open(t) /\ s # t =>
          send[s].id # send[t].id /\ ~SameKey(s, t)
    /\ DeliveredOnce

\* Without overlap the open insert, if any, has the greatest id, so a commit
\* never moves a row that somebody has read.
Ordered ==
    ~overlapped =>
        /\ \A s, t \in Sender : Open(s) /\ Open(t) => s = t
        /\ \A s \in Sender : Open(s) => \A row \in signals : row.id < send[s].id
        /\ \A w \in Worker : run[w].pc \in {"check", "insert"} =>
              \E row \in SignalAt(Index(w)) : row.id = run[w].read
        /\ \A i \in 0..Waits - 1 : saved[i] # 0 =>
              \E row \in SignalAt(i) : row.id = saved[i]

Asleep(row) == row.status = "queued" /\ row.runAfter = "ahead"

\* An owner that is about to park with the current wake version has found its
\* position empty, and it still is: a delivery that woke the job would have
\* bumped the version, and one that missed it found no owner and locks the row,
\* so that nobody can claim it and park it until the signal is there.
Awake ==
    /\ \A w \in Worker : run[w].wake <= job.wake
    /\ \A w \in Worker : run[w].pc = "suspend" /\ run[w].wake = job.wake /\ Owned(job, w)
                            => SignalAt(Index(w)) = {}
    /\ \A s \in Sender : send[s].pc = "missed" => job.status # "running" /\ ~Asleep(job)
    /\ Asleep(job) => \A i \in 0..Waits - 1 : SignalAt(i) # {} => saved[i] # 0

DInv == StoreInv /\ DShape /\ Posted /\ Ordered /\ RunsAgree /\ Awake

-----------------------------------------------------------------------------
(***************************************************************************)
(* What happens to the job.                                                *)
(***************************************************************************)
LEMMA DeliveryTableStep == StoreInv /\ [DeliveryNext]_deliveryVars => [Next]_jobs
<1> SUFFICES ASSUME StoreInv, [DeliveryNext]_deliveryVars
             PROVE  [Next]_jobs
  OBVIOUS
<1>1. Waiter \in Job /\ jobs[Waiter] \in Row
  BY DeliveryAssumption DEF StoreInv
<1>2. CASE UNCHANGED deliveryVars
  BY <1>2 DEF deliveryVars
<1>3. CASE SenderNext
  BY <1>1, <1>3 DEF SenderNext, SendInsert, SendLock, SendNoop, SendWake, SendMiss, SendCommit, SendAgain,
                    Next, RequestNext
<1>4. ASSUME NEW w \in Worker,
             ClaimWaiter(w) \/ Load(w) \/ Poll(w) \/ Check(w) \/ Insert(w) \/ Finish(w)
      PROVE  [Next]_jobs
  <2>1. CASE ClaimWaiter(w)
    <3>1. job.queue \in Queue /\ {Waiter} \in SUBSET Job
      BY <1>1 DEF job, Row
    <3>2. Claim(w, job.queue, {Waiter})
      BY <2>1 DEF ClaimWaiter
    <3> QED
      BY <3>1, <3>2 DEF Next, WorkerNext
  <2>2. CASE Load(w) \/ Poll(w) \/ Check(w) \/ Insert(w)
    BY <2>2 DEF Load, Poll, Check, Insert
  <2>3. CASE Finish(w)
    <3>1. CASE Suspend(w, Waiter, run[w].wake)
      <4>1. run[w].wake \in 0..MaxWake
        BY <1>1, <3>1 DEF Suspend, Parkable, Row
      <4> QED
        BY <1>1, <3>1, <4>1 DEF Next, WorkerNext
    <3>2. CASE Complete(w, Waiter) \/ Fail(w, Waiter, FALSE)
      BY <1>1, <3>2 DEF Next, WorkerNext
    <3>3. CASE UNCHANGED jobs
      BY <3>3
    <3> QED
      BY <2>3, <3>1, <3>2, <3>3 DEF Finish
  <2> QED
    BY <1>4, <2>1, <2>2, <2>3
<1>5. CASE Outside
  <2>1. {Waiter} \in SUBSET Job
    BY <1>1
  <2> QED
    BY <1>1, <1>5, <2>1 DEF Outside, Next, RequestNext, SweepNext, TimeNext
<1> QED
  BY <1>2, <1>3, <1>4, <1>5 DEF DeliveryNext, RunNext

\* Only a park puts a job to sleep, only a signal moves its wake version and
\* only a claim gives it an owner.
Still(new, row) ==
    /\ new.wake = row.wake
    /\ new.status = "running" => row.status = "running"
    /\ \A w : Owned(new, w) => Owned(row, w)
    /\ Asleep(new) => Asleep(row)

LEMMA RowsStill ==
    ASSUME NEW row \in Row
    PROVE  /\ Still(Succeeded(row), row)
           /\ Still(Failed(row, FALSE), row)
           /\ Still(Canceled(row), row)
           /\ Still(DeadLettered(row), row)
           /\ Still(Requeued(row), row)
           /\ Still([row EXCEPT !.runAfter = "past"], row)
           /\ Still([row EXCEPT !.lease = "expired"], row)
<1>1. Still(Succeeded(row), row)
  BY DEF Row, Still, Asleep, Owned, Succeeded, Released
<1>2. Still(Failed(row, FALSE), row)
  BY DEF Row, Still, Asleep, Owned, Failed, NextStatusAfterFailure, Released
<1>3. Still(Canceled(row), row)
  BY DEF Row, Still, Asleep, Owned, Canceled, Released
<1>4. Still(DeadLettered(row), row)
  BY DEF Row, Still, Asleep, Owned, DeadLettered, Released
<1>5. Still(Requeued(row), row)
  BY DEF Row, Still, Asleep, Owned, Requeued, Released
<1>6. Still([row EXCEPT !.runAfter = "past"], row)
  BY DEF Row, Still, Asleep, Owned
<1>7. Still([row EXCEPT !.lease = "expired"], row)
  BY DEF Row, Still, Asleep, Owned
<1> QED
  BY <1>1, <1>2, <1>3, <1>4, <1>5, <1>6, <1>7

LEMMA JobStill ==
    ASSUME StoreInv,
           \/ \E w \in Worker : Complete(w, Waiter) \/ Fail(w, Waiter, FALSE)
           \/ \/ Cancel(Waiter) \/ RetryDeadLetter(Waiter)
              \/ LeaseExpires(Waiter) \/ ComesDue(Waiter)
              \/ DeadLetterExhausted({Waiter})
           \/ UNCHANGED jobs
    PROVE  Still(job', job)
<1>1. Waiter \in Job /\ jobs \in [Job -> Row] /\ job \in Row
  BY DeliveryAssumption DEF StoreInv, job
<1>2. ASSUME NEW x, SetRow(Waiter, x)
      PROVE  job' = x
  BY <1>1, <1>2 DEF SetRow, job
<1>3. CASE DeadLetterExhausted({Waiter})
  <2>1. job' = DeadLettered(job)
    BY <1>1, <1>3 DEF DeadLetterExhausted, job
  <2> QED
    BY <1>1, <2>1, RowsStill
<1>4. CASE \E w \in Worker : Complete(w, Waiter) \/ Fail(w, Waiter, FALSE)
  <2>1. job' = Succeeded(job) \/ job' = Failed(job, FALSE)
    BY <1>2, <1>4 DEF Complete, Fail, job
  <2> QED
    BY <1>1, <2>1, RowsStill
<1>5. CASE Cancel(Waiter) \/ RetryDeadLetter(Waiter) \/ LeaseExpires(Waiter) \/ ComesDue(Waiter)
  <2>1. \/ job' = Canceled(job)
        \/ job' = Requeued(job)
        \/ job' = [job EXCEPT !.lease = "expired"]
        \/ job' = [job EXCEPT !.runAfter = "past"]
    BY <1>2, <1>5 DEF Cancel, RetryDeadLetter, LeaseExpires, ComesDue, job
  <2> QED
    BY <1>1, <2>1, RowsStill
<1>6. CASE UNCHANGED jobs
  BY <1>6 DEF Still, job
<1> QED
  BY <1>3, <1>4, <1>5, <1>6

-----------------------------------------------------------------------------
(***************************************************************************)
(* Steps of the senders.                                                   *)
(***************************************************************************)
Sent == [pc : {"idle", "inserted", "locked", "missed", "acked", "refused"}, id : 0..MaxSends]

\* A sender that opens no transaction, and is acknowledged only if its key is
\* in the mailbox.
LEMMA SendMoves ==
    ASSUME DInv, NEW s \in Sender, NEW r \in Sent,
           send' = [send EXCEPT ![s] = r],
           r.pc \in {"inserted", "locked", "missed"} => Open(s) /\ r.id = send[s].id,
           r.pc = "missed" => ~Active(job),
           r.pc = "acked" => \E row \in signals : row.key = KeyOf[s],
           UNCHANGED <<jobs, sends, signals, saved, run, overlapped>>
    PROVE  DShape' /\ Posted' /\ Ordered' /\ RunsAgree' /\ Awake'
<1> USE DEF DInv
<1>1. send \in [Sender -> Sent]
  BY DEF DShape, Sent
<1>2. send' \in [Sender -> Sent]
  BY <1>1
<1>3. \A t \in Sender : Open(t)' => Open(t) /\ send'[t].id = send[t].id
  BY <1>1 DEF Open
<1>4. \A t \in Sender : send'[t].pc = "acked" => \E row \in signals : row.key = KeyOf[t]
  BY <1>1 DEF Posted, DeliveredOnce
<1>5. DShape'
  BY <1>2 DEF DShape, Sent
<1>6. \A t \in Sender : Duplicate(t)' = Duplicate(t)
  BY DEF Duplicate
<1>7. Posted'
  <2>1. DeliveredOnce'
    BY <1>4 DEF Posted, DeliveredOnce
  <2>2. \A t \in Sender : Open(t)' => /\ send'[t].id \in 1..sends
                                      /\ ~Duplicate(t)
                                      /\ \A row \in signals : row.id # send'[t].id
    BY <1>3 DEF Posted
  <2>3. \A t, u \in Sender : Open(t)' /\ Open(u)' /\ t # u =>
           send'[t].id # send'[u].id /\ ~SameKey(t, u)
    BY <1>3 DEF Posted
  <2> QED
    BY <1>6, <2>1, <2>2, <2>3 DEF Posted, SameKey, Mailbox
<1>8. Ordered'
  BY <1>3 DEF Ordered, SignalAt, Earlier, Index
<1>9. RunsAgree'
  BY DEF RunsAgree
<1>10. \A t \in Sender : send'[t].pc = "missed" => job.status # "running" /\ ~Asleep(job)
  <2>1. ~Active(job) => job.status # "running" /\ ~Asleep(job)
    BY DEF Active, Exists, NoRow, Terminal, Asleep
  <2> QED
    BY <1>1, <2>1 DEF Awake
<1>11. Awake'
  BY <1>10 DEF Awake, Asleep, Owned, SignalAt, Earlier, Index, job
<1> QED
  BY <1>5, <1>7, <1>8, <1>9, <1>11

LEMMA SendQuietKeeps ==
    ASSUME DInv, NEW s \in Sender, SendLock(s) \/ SendNoop(s) \/ SendMiss(s) \/ SendAgain(s)
    PROVE  DShape' /\ Posted' /\ Ordered' /\ RunsAgree' /\ Awake'
<1>1. send \in [Sender -> Sent]
  BY DEF DInv, DShape, Sent
<1>2. CASE SendNoop(s)
  <2> DEFINE d(pc) == [send[s] EXCEPT !.pc = pc]
  <2>1. \A pc \in {"acked", "refused"} : d(pc) \in Sent /\ d(pc).pc = pc
    BY <1>1 DEF Sent
  <2>2. PICK pc \in {"acked", "refused"} :
           send' = [send EXCEPT ![s] = d(pc)] /\ (pc = "acked" => Duplicate(s))
    BY <1>2 DEF SendNoop, Sends
  <2> HIDE DEF d
  <2>3. d(pc).pc = "acked" => \E row \in signals : row.key = KeyOf[s]
    BY <2>1, <2>2 DEF Duplicate
  <2>4. d(pc).pc \notin {"inserted", "locked", "missed"}
    BY <2>1
  <2>5. UNCHANGED <<jobs, sends, signals, saved, run, overlapped>>
    BY <1>2 DEF SendNoop
  <2> QED
    BY <2>1, <2>2, <2>3, <2>4, <2>5, SendMoves
<1>3. CASE SendMiss(s)
  <2> DEFINE d == [send[s] EXCEPT !.pc = "missed"]
  <2>1. d \in Sent /\ d.pc = "missed" /\ d.id = send[s].id
    BY <1>1 DEF Sent
  <2>2. send' = [send EXCEPT ![s] = d] /\ Open(s)
    BY <1>3 DEF SendMiss, Sends, Open
  <2>3. UNCHANGED <<jobs, sends, signals, saved, run, overlapped>> /\ ~Active(job)
    BY <1>3 DEF SendMiss
  <2> HIDE DEF d
  <2> QED
    BY <2>1, <2>2, <2>3, SendMoves
<1>4. CASE SendAgain(s)
  <2>1. Idle \in Sent /\ Idle.pc = "idle"
    BY DeliveryAssumption DEF Idle, Sent
  <2>2. send' = [send EXCEPT ![s] = Idle] /\ UNCHANGED <<jobs, sends, signals, saved, run, overlapped>>
    BY <1>4 DEF SendAgain
  <2> QED
    BY <2>1, <2>2, SendMoves
<1>5. CASE SendLock(s)
  <2> DEFINE d == [send[s] EXCEPT !.pc = "locked"]
  <2>1. d \in Sent /\ d.pc = "locked" /\ d.id = send[s].id
    BY <1>1 DEF Sent
  <2>2. send' = [send EXCEPT ![s] = d] /\ Open(s)
    BY <1>5 DEF SendLock, Sends, Open
  <2>3. UNCHANGED <<jobs, sends, signals, saved, run, overlapped>>
    BY <1>5 DEF SendLock
  <2> HIDE DEF d
  <2> QED
    BY <2>1, <2>2, <2>3, SendMoves
<1> QED
  BY <1>2, <1>3, <1>4, <1>5

\* A new transaction draws the greatest id so far.
LEMMA SendInsertKeeps ==
    ASSUME DInv, NEW s \in Sender, SendInsert(s)
    PROVE  DShape' /\ Posted' /\ Ordered' /\ RunsAgree' /\ Awake'
<1> USE DEF DInv
<1> DEFINE n == sends + 1
<1>1. /\ send \in [Sender -> Sent] /\ sends \in 0..MaxSends /\ sends < MaxSends
      /\ MaxSends \in Nat
  BY DeliveryAssumption DEF DShape, Sent, SendInsert
<1>2. n \in 1..MaxSends /\ sends' = n /\ sends < n /\ n \in Nat
  BY <1>1 DEF SendInsert
<1>3. UNCHANGED <<jobs, signals, saved, run>> /\ ~Duplicate(s) /\ ~Blocked(s)
  BY DEF SendInsert
<1>4. send' = [send EXCEPT ![s] = [pc |-> "inserted", id |-> n]]
  BY DEF SendInsert
<1>5. overlapped' = (overlapped \/ \E t \in Sender : Open(t))
  BY DEF SendInsert
<1> HIDE DEF n
<1>6. send' \in [Sender -> Sent] /\ send'[s].id = n /\ send'[s].pc = "inserted"
  BY <1>1, <1>2, <1>4 DEF Sent
<1>7. \A t \in Sender : t # s => send'[t] = send[t] /\ Open(t)' = Open(t)
  BY <1>1, <1>4 DEF Open
<1>8. DShape'
  BY <1>1, <1>2, <1>3, <1>6 DEF DShape, Sent
<1>9. \A row \in signals : row.id <= sends /\ row.id \in Nat /\ row.id <= n /\ row.id < n
  BY <1>1, <1>2 DEF Posted, Mailbox
<1>10. Posted'
  <2>1. \A t \in Sender : Duplicate(t)' = Duplicate(t)
    BY <1>3 DEF Duplicate
  <2>2. DeliveredOnce'
    BY <1>3, <1>6, <1>7 DEF Posted, DeliveredOnce
  <2>3. \A t \in Sender : Open(t)' => /\ send'[t].id \in 1..n
                                      /\ ~Duplicate(t)
                                      /\ \A row \in signals : row.id # send'[t].id
    <3> TAKE t \in Sender
    <3>1. CASE t = s
      BY <1>2, <1>3, <1>6, <1>9, <3>1
    <3>2. CASE t # s
      BY <1>1, <1>2, <1>7, <3>2 DEF Posted
    <3> QED
      BY <3>1, <3>2
  <2>4. \A t, u \in Sender : Open(t)' /\ Open(u)' /\ t # u =>
           send'[t].id # send'[u].id /\ ~SameKey(t, u)
    <3> SUFFICES ASSUME NEW t \in Sender, NEW u \in Sender, Open(t)', Open(u)', t # u
                 PROVE  send'[t].id # send'[u].id /\ ~SameKey(t, u)
      OBVIOUS
    <3>1. CASE t # s /\ u # s
      BY <1>7, <3>1 DEF Posted
    <3>2. \A v \in Sender : v # s /\ Open(v)' => send'[v].id # n /\ ~SameKey(s, v) /\ ~SameKey(v, s)
      BY <1>1, <1>2, <1>3, <1>7 DEF Posted, Blocked, SameKey
    <3> QED
      BY <1>6, <3>1, <3>2
  <2> QED
    BY <1>2, <1>3, <1>9, <2>1, <2>2, <2>3, <2>4 DEF Posted, SameKey, Mailbox
<1>11. Ordered'
  <2> SUFFICES ASSUME ~overlapped'
               PROVE  /\ \A t, u \in Sender : Open(t)' /\ Open(u)' => t = u
                      /\ \A t \in Sender : Open(t)' => \A row \in signals : row.id < send'[t].id
    BY <1>3, <1>5 DEF Ordered, SignalAt, Earlier, Index
  <2>1. \A t \in Sender : Open(t)' => t = s
    BY <1>5, <1>7
  <2> QED
    BY <1>6, <1>9, <2>1
<1>12. RunsAgree' /\ Awake'
  BY <1>3, <1>6, <1>7 DEF RunsAgree, Awake, Asleep, Owned, SignalAt, Earlier, Index, job
<1> QED
  BY <1>8, <1>10, <1>11, <1>12

\* A delivery: the row of an open transaction is committed.
LEMMA Delivered ==
    ASSUME DInv, NEW s \in Sender, Open(s),
           signals' = signals \cup {SignalRow(s)}, Sends(s, "acked"),
           UNCHANGED <<sends, saved, run, overlapped>>
    PROVE  DShape' /\ Posted' /\ Ordered' /\ RunsAgree'
<1> USE DEF DInv
<1> DEFINE new == SignalRow(s)
<1>1. /\ send \in [Sender -> Sent] /\ sends \in 0..MaxSends /\ MaxSends \in Nat
      /\ send[s].id \in 1..sends /\ send[s].id \in 1..MaxSends
  BY DeliveryAssumption DEF DShape, Sent, Posted
<1>2. /\ new \in [id : 1..MaxSends, key : Key \cup {NoKey}]
      /\ new.id = send[s].id /\ new.key = KeyOf[s] /\ new.id \in Nat
      /\ \A row \in signals : row.id # new.id
  BY <1>1, DeliveryAssumption DEF SignalRow, Posted
<1> HIDE DEF new
<1>3. signals' = signals \cup {new}
  BY DEF new
<1>4. /\ send' \in [Sender -> Sent] /\ send'[s].pc = "acked"
      /\ \A t \in Sender : t # s => send'[t] = send[t]
  <2> DEFINE d == [send[s] EXCEPT !.pc = "acked"]
  <2>1. d \in Sent /\ d.pc = "acked"
    BY <1>1 DEF Sent
  <2>2. send' = [send EXCEPT ![s] = d]
    BY DEF Sends
  <2> HIDE DEF d
  <2> QED
    BY <1>1, <2>1, <2>2
<1>5. \A t \in Sender : Open(t)' => t # s /\ Open(t) /\ send'[t].id = send[t].id
  BY <1>4 DEF Open
<1>6. DShape'
  BY <1>2, <1>3, <1>4 DEF DShape, Sent
<1>7. Mailbox(signals')
  BY <1>2, <1>3, MailboxGrows DEF Posted
<1>8. Posted'
  <2>1. \A a \in signals : a.key = KeyOf[s] => KeyOf[s] = NoKey
    BY DEF Posted, Duplicate
  <2>2. DeliveredOnce'
    <3>1. \A t \in Sender : send'[t].pc = "acked" => \E row \in signals' : row.key = KeyOf[t]
      BY <1>2, <1>3, <1>4 DEF Posted, DeliveredOnce
    <3>2. \A a, b \in signals' : a.key = b.key /\ a.key # NoKey => a = b
      BY <1>2, <1>3, <2>1 DEF Posted, DeliveredOnce
    <3> QED
      BY <3>1, <3>2 DEF DeliveredOnce
  <2>3. \A t \in Sender : Open(t)' => /\ send'[t].id \in 1..sends
                                      /\ ~Duplicate(t)'
                                      /\ \A row \in signals' : row.id # send'[t].id
    <3> SUFFICES ASSUME NEW t \in Sender, Open(t)'
                 PROVE  /\ send'[t].id \in 1..sends
                        /\ ~Duplicate(t)'
                        /\ \A row \in signals' : row.id # send'[t].id
      OBVIOUS
    <3>1. t # s /\ Open(t) /\ send'[t].id = send[t].id
      BY <1>5
    <3>2. ~SameKey(t, s) /\ send[t].id # send[s].id
      BY <3>1 DEF Posted
    <3>3. ~Duplicate(t)'
      BY <1>2, <1>3, <3>1, <3>2 DEF Posted, Duplicate, SameKey
    <3> QED
      BY <1>2, <1>3, <3>1, <3>2, <3>3 DEF Posted
  <2>4. \A t, u \in Sender : Open(t)' /\ Open(u)' /\ t # u =>
           send'[t].id # send'[u].id /\ ~SameKey(t, u)
    BY <1>5 DEF Posted
  <2>5. \A row \in signals' : row.id <= sends
    BY <1>1, <1>2, <1>3 DEF Posted
  <2> QED
    BY <1>7, <2>2, <2>3, <2>4, <2>5 DEF Posted, SameKey
<1>9. Ordered'
  <2> SUFFICES ASSUME ~overlapped
               PROVE  /\ \A t, u \in Sender : Open(t)' /\ Open(u)' => t = u
                      /\ \A t \in Sender : Open(t)' => \A row \in signals' : row.id < send'[t].id
                      /\ \A w \in Worker : run[w].pc \in {"check", "insert"} =>
                            \E row \in SignalAt(Index(w))' : row.id = run[w].read
                      /\ \A i \in 0..Waits - 1 : saved[i] # 0 =>
                            \E row \in SignalAt(i)' : row.id = saved[i]
    BY DEF Ordered
  <2>1. \A t \in Sender : ~Open(t)'
    BY <1>5 DEF Ordered
  <2>2. \A row \in signals : row.id < new.id /\ row.id \in Nat
    BY <1>2 DEF Ordered, Posted, Mailbox
  <2>3. \A row \in signals : Position(signals', row) = Position(signals, row)
    BY <1>2, <1>3, <2>2, PositionsStay
  <2>4. \A i : SignalAt(i) = {row \in signals : Position(signals, row) = i}
    BY ReadsByPosition
  <2>5. \A i : SignalAt(i)' = {row \in signals' : Position(signals', row) = i}
    BY DEF SignalAt, Earlier, Position, Before
  <2>6. \A i : SignalAt(i) \subseteq SignalAt(i)'
    BY <1>3, <2>3, <2>4, <2>5
  <2>7. \A w \in Worker : SignalAt(Index(w)) \subseteq SignalAt(Index(w))'
    <3> TAKE w \in Worker
    <3> DEFINE i == Index(w)
    <3>1. i' = i
      BY DEF Index
    <3>2. SignalAt(i) \subseteq {row \in signals' : Position(signals', row) = i}
      BY <2>5, <2>6
    <3>3. SignalAt(i)' = {row \in signals' : Position(signals', row) = i'}
      BY DEF SignalAt, Earlier, Position, Before
    <3> QED
      BY <3>1, <3>2, <3>3
  <2>8. \A w \in Worker : run[w].pc \in {"check", "insert"} =>
            \E row \in SignalAt(Index(w))' : row.id = run[w].read
    BY <2>7 DEF Ordered
  <2>9. \A i \in 0..Waits - 1 : saved[i] # 0 => \E row \in SignalAt(i)' : row.id = saved[i]
    BY <2>6 DEF Ordered
  <2> QED
    BY <2>1, <2>8, <2>9
<1>10. RunsAgree'
  BY DEF RunsAgree
<1> QED
  BY <1>6, <1>8, <1>9, <1>10

\* A delivery that wakes the job bumps the version every run has read, and a
\* transaction that missed it, if any, finds it neither running nor asleep still.
LEMMA SendWakeKeeps ==
    ASSUME DInv, NEW s \in Sender, SendWake(s)
    PROVE  DShape' /\ Posted' /\ Ordered' /\ RunsAgree' /\ Awake'
<1>1. DShape' /\ Posted' /\ Ordered' /\ RunsAgree'
  BY Delivered DEF SendWake, Open
<1>2. job.wake \in Nat /\ job'.wake = job.wake + 1 /\ ~Asleep(job') /\ job'.status = job.status
  <2>1. job \in Row /\ job' = Woken(job)
    BY DeliveryAssumption DEF DInv, StoreInv, SendWake, Signal, SetRow, job
  <2> QED
    BY <2>1, RequestAssumption DEF Row, Woken, Asleep
<1>3. \A w \in Worker : run'[w].wake <= job'.wake /\ run'[w].wake # job'.wake
  <2>1. \A w \in Worker : run[w].wake \in Nat /\ run[w].wake <= job.wake /\ run' = run
    BY DEF DInv, DShape, RunRecord, Awake, SendWake
  <2> QED
    BY <1>2, <2>1
<1>4. \A t \in Sender : send'[t].pc = "missed" => send[t].pc = "missed"
  BY DEF SendWake, Sends, DInv, DShape
<1>5. Awake'
  BY <1>2, <1>3, <1>4 DEF DInv, Awake
<1> QED
  BY <1>1, <1>5

\* One that finds the job ended leaves a signal that woke nobody: but nobody
\* runs, so nobody is about to park.
LEMMA SendCommitKeeps ==
    ASSUME DInv, NEW s \in Sender, SendCommit(s)
    PROVE  DShape' /\ Posted' /\ Ordered' /\ RunsAgree' /\ Awake'
<1>1. DShape' /\ Posted' /\ Ordered' /\ RunsAgree'
  BY Delivered DEF SendCommit, Open
<1>2. job' = job /\ job.status # "running" /\ ~Asleep(job)
  BY DEF DInv, Awake, SendCommit, job
<1>3. \A t \in Sender : send'[t].pc = "missed" => send[t].pc = "missed"
  BY DEF SendCommit, Sends, DInv, DShape
<1>4. run' = run
  BY DEF SendCommit
<1>5. Awake'
  BY <1>2, <1>3, <1>4 DEF DInv, Awake, Owned
<1> QED
  BY <1>1, <1>5

-----------------------------------------------------------------------------
(***************************************************************************)
(* Steps of the runs.                                                      *)
(***************************************************************************)
LEMMA ElementType ==
    ASSUME NEW S, NEW q \in Seq(S), NEW i \in 1..Len(q)
    PROVE  q[i] \in S
OBVIOUS

\* What a step of run w makes of the job: it may claim it, if no sender holds the
\* row, and may put it to sleep only with all its signals consumed.
Handled(w) ==
    /\ job'.wake = job.wake
    /\ \A v \in Worker : v # w /\ Owned(job', v) => Owned(job, v)
    /\ job'.status = "running" => job.status = "running" \/ ~Locked
    /\ Asleep(job') => \/ Asleep(job)
                       \/ /\ job.status = "running"
                          /\ \A i \in 0..Waits - 1 : SignalAt(i) # {} => saved[i] # 0

LEMMA StillHandled ==
    ASSUME Still(job', job), NEW w \in Worker
    PROVE  Handled(w)
BY DEF Still, Handled

\* Whatever the workflow was promised of a run's next state r.
LEMMA RunChanges ==
    ASSUME DInv, NEW w \in Worker, NEW r \in RunRecord, RunOK(r),
           run' = [run EXCEPT ![w] = r],
           UNCHANGED <<sends, send, signals, overlapped>>,
           saved' \in [0..Waits - 1 -> 0..MaxSends],
           \A i \in 0..Waits - 1 : saved[i] # 0 => saved'[i] = saved[i],
           ~overlapped => \A i \in 0..Waits - 1 : saved[i] = 0 /\ saved'[i] # 0
               => \E row \in SignalAt(i) : row.id = saved'[i],
           \A i \in 1..Len(r.got) : r.got[i] = saved'[i - 1],
           ~overlapped /\ r.pc \in {"check", "insert"}
               => \E row \in SignalAt(Len(r.got)) : row.id = r.read,
           Handled(w), r.wake <= job.wake,
           r.pc = "suspend" /\ r.wake = job.wake => SignalAt(Len(r.got)) = {}
    PROVE  DShape' /\ Posted' /\ Ordered' /\ RunsAgree' /\ Awake'
<1> USE DEF DInv
<1>1. run \in [Worker -> RunRecord] /\ \A v \in Worker : RunOK(run[v])
  BY DEF DShape
<1>2. \A v \in Worker : run'[v] = IF v = w THEN r ELSE run[v]
  BY <1>1
<1>3. DShape'
  <2>1. run' \in [Worker -> RunRecord] /\ \A v \in Worker : RunOK(run'[v])
    BY <1>1
  <2> QED
    BY <2>1 DEF DShape
<1>4. Posted'
  <2>1. \A s \in Sender : Open(s)' = Open(s) /\ Duplicate(s)' = Duplicate(s)
    BY DEF Open, Duplicate
  <2> QED
    BY <2>1 DEF Posted, DeliveredOnce, Mailbox, SameKey
<1>6. Ordered'
  <2>1. \A v \in Worker : ~overlapped /\ run'[v].pc \in {"check", "insert"} =>
           \E row \in SignalAt(Len(run'[v].got)) : row.id = run'[v].read
    BY <1>2 DEF Ordered, Index
  <2>2. ~overlapped => \A i \in 0..Waits - 1 : saved'[i] # 0 =>
           \E row \in SignalAt(i) : row.id = saved'[i]
    BY DEF Ordered
  <2>3. \A s \in Sender : Open(s)' = Open(s)
    BY DEF Open
  <2> QED
    BY <2>1, <2>2, <2>3 DEF Ordered, SignalAt, Earlier, Index
<1>7. RunsAgree'
  <2> SUFFICES ASSUME NEW v \in Worker, NEW i \in 1..Len(run'[v].got)
               PROVE  run'[v].got[i] = saved'[i - 1]
    BY DEF RunsAgree
  <2>1. CASE v = w
    BY <1>2, <2>1
  <2>2. CASE v # w
    <3>1. run'[v] = run[v] /\ run[v].got \in Seq(1..MaxSends) /\ Len(run[v].got) <= Waits
      BY <1>1, <1>2, <2>2 DEF RunRecord, RunOK
    <3>5. i \in 1..Len(run[v].got) /\ Len(run[v].got) \in Nat
      BY <3>1
    <3>6. run[v].got[i] \in 1..MaxSends
      BY <3>1, <3>5, ElementType
    <3>2. run[v].got[i] = saved[i - 1] /\ run[v].got[i] # 0
      BY <3>5, <3>6, DeliveryAssumption DEF RunsAgree
    <3>3. i - 1 \in 0..Waits - 1
      BY <3>1, <3>5, DeliveryAssumption
    <3> QED
      BY <3>1, <3>2, <3>3
  <2> QED
    BY <2>1, <2>2
<1>8. Awake'
  <2>1. \A v \in Worker : run'[v].wake <= job'.wake
    BY <1>2 DEF Awake, Handled
  <2>2. \A v \in Worker : run'[v].pc = "suspend" /\ run'[v].wake = job'.wake /\ Owned(job', v)
                           => SignalAt(Len(run'[v].got)) = {}
    BY <1>2 DEF Awake, Handled, Index
  <2>3. Asleep(job') => \A i \in 0..Waits - 1 : SignalAt(i) # {} => saved'[i] # 0
    BY DEF Awake, Handled
  <2>4. \A s \in Sender : send[s].pc = "missed" => job'.status # "running" /\ ~Asleep(job')
    BY DEF Awake, Handled, Locked
  <2> QED
    BY <2>1, <2>2, <2>3, <2>4 DEF Awake, SignalAt, Earlier, Index
<1> QED
  BY <1>3, <1>4, <1>6, <1>7, <1>8

\* What a run looks like once it was given a signal.
LEMMA GivenEffect ==
    ASSUME NEW w \in Worker, run \in [Worker -> RunRecord], RunOK(run[w]),
           run[w].pc \in Executing, NEW id \in 1..MaxSends, Given(w, id)
    PROVE  \E r \in RunRecord :
              /\ RunOK(r) /\ run' = [run EXCEPT ![w] = r]
              /\ r.pc \in {"load", "complete"} /\ r.wake = run[w].wake
              /\ Len(r.got) = Index(w) + 1 /\ r.got[Index(w) + 1] = id
              /\ \A i \in 1..Index(w) : r.got[i] = run[w].got[i]
<1> DEFINE old == run[w]
           got == Append(old.got, id)
           pc == IF Len(got) = Waits THEN "complete" ELSE "load"
           r == [old EXCEPT !.pc = pc, !.got = got, !.read = 0]
<1>1. old \in RunRecord /\ old.got \in Seq(1..MaxSends) /\ Len(old.got) \in Nat /\ Len(old.got) < Waits
  BY DEF RunRecord, RunOK
<1>2. /\ got \in Seq(1..MaxSends) /\ Len(got) = Len(old.got) + 1 /\ got[Len(old.got) + 1] = id
      /\ \A i \in 1..Len(old.got) : got[i] = old.got[i]
  BY <1>1
<1>3. run' = [run EXCEPT ![w] = r]
  BY <1>1 DEF Given, RunRecord
<1> HIDE DEF got
<1>4. /\ r \in RunRecord /\ r.pc = pc /\ r.got = got /\ r.wake = old.wake
      /\ pc \in {"load", "complete"}
  <2>1. pc \in {"load", "complete"} /\ 0 \in 0..MaxSends
    BY DeliveryAssumption
  <2> HIDE DEF pc
  <2> QED
    BY <1>1, <1>2, <2>1 DEF RunRecord, Executing
<1>5. RunOK(r)
  BY <1>1, <1>2, <1>4, DeliveryAssumption DEF RunOK, Executing
<1> HIDE DEF r, pc, old
<1>6. Index(w) = Len(old.got) /\ run[w] = old
  BY DEF Index, old
<1> QED
  BY <1>2, <1>3, <1>4, <1>5, <1>6

\* A run that is given the signal its wait is, or now becomes, checkpointed with.
LEMMA GivenKeeps ==
    ASSUME DInv, NEW w \in Worker, run[w].pc \in Executing, NEW id \in 1..MaxSends,
           Given(w, id), UNCHANGED <<jobs, sends, send, signals, overlapped>>,
           saved' = [saved EXCEPT ![Index(w)] = id], saved[Index(w)] \in {0, id},
           ~overlapped /\ saved[Index(w)] = 0 => \E row \in SignalAt(Index(w)) : row.id = id
    PROVE  DShape' /\ Posted' /\ Ordered' /\ RunsAgree' /\ Awake'
<1>1. /\ run \in [Worker -> RunRecord] /\ RunOK(run[w])
      /\ saved \in [0..Waits - 1 -> 0..MaxSends]
  BY DEF DInv, DShape
<1>2. PICK r \in RunRecord :
         /\ RunOK(r) /\ run' = [run EXCEPT ![w] = r]
         /\ r.pc \in {"load", "complete"} /\ r.wake = run[w].wake
         /\ Len(r.got) = Index(w) + 1 /\ r.got[Index(w) + 1] = id
         /\ \A i \in 1..Index(w) : r.got[i] = run[w].got[i]
  BY <1>1, GivenEffect
<1>3. Index(w) \in 0..Waits - 1 /\ Waits \in Nat /\ MaxSends \in Nat
  <2>1. run[w].got \in Seq(1..MaxSends) /\ Len(run[w].got) < Waits
    BY <1>1 DEF RunRecord, RunOK
  <2> QED
    BY <2>1, DeliveryAssumption DEF Index
<1>4. saved' \in [0..Waits - 1 -> 0..MaxSends] /\ saved'[Index(w)] = id
      /\ \A i \in 0..Waits - 1 : i # Index(w) => saved'[i] = saved[i]
  BY <1>1, <1>3
<1>5. \A i \in 1..Len(r.got) : r.got[i] = saved'[i - 1]
  <2> SUFFICES ASSUME NEW i \in 1..Index(w) + 1
               PROVE  r.got[i] = saved'[i - 1]
    BY <1>2
  <2>1. CASE i = Index(w) + 1
    BY <1>2, <1>3, <1>4, <2>1
  <2>2. CASE i # Index(w) + 1
    <3>1. i \in 1..Index(w) /\ i - 1 \in 0..Waits - 1 /\ i - 1 # Index(w)
      BY <1>3, <2>2
    <3>2. r.got[i] = run[w].got[i] /\ run[w].got[i] = saved[i - 1]
      BY <1>2, <3>1 DEF DInv, RunsAgree, Index
    <3> QED
      BY <1>4, <3>1, <3>2
  <2> QED
    BY <2>1, <2>2
<1>6. \A i \in 0..Waits - 1 : saved[i] # 0 => saved'[i] = saved[i]
  BY <1>4
<1>7. ~overlapped => \A i \in 0..Waits - 1 : saved[i] = 0 /\ saved'[i] # 0
         => \E row \in SignalAt(i) : row.id = saved'[i]
  BY <1>4
<1>8. r.wake <= job.wake /\ Handled(w)
  BY <1>2 DEF DInv, Awake, Handled, job
<1>9. r.pc \notin {"check", "insert", "suspend"}
  BY <1>2
<1> QED
  BY <1>2, <1>4, <1>5, <1>6, <1>7, <1>8, <1>9, RunChanges

\* A step of a run that changes nothing but the run.
LEMMA QuietRun ==
    ASSUME DInv, NEW w \in Worker, NEW r \in RunRecord, RunOK(r),
           run' = [run EXCEPT ![w] = r],
           UNCHANGED <<jobs, sends, send, signals, saved, overlapped>>,
           r.wake <= job.wake, r.got = run[w].got \/ r.got = <<>>,
           r.pc \in {"check", "insert"} /\ ~overlapped
               => \E row \in SignalAt(Len(r.got)) : row.id = r.read,
           r.pc = "suspend" /\ r.wake = job.wake => SignalAt(Len(r.got)) = {}
    PROVE  DShape' /\ Posted' /\ Ordered' /\ RunsAgree' /\ Awake'
<1>1. saved' \in [0..Waits - 1 -> 0..MaxSends] /\ Handled(w)
  BY DEF DInv, DShape, Handled, job
<1>2. \A i \in 1..Len(r.got) : r.got[i] = saved'[i - 1]
  <2>1. CASE r.got = run[w].got
    BY <2>1 DEF DInv, RunsAgree
  <2>2. CASE r.got = <<>>
    BY <2>2
  <2> QED
    BY <2>1, <2>2
<1> QED
  BY <1>1, <1>2, RunChanges

LEMMA RestingOK ==
    Resting \in RunRecord /\ RunOK(Resting) /\ Resting.wake = 0 /\ Resting.pc = "idle"
    /\ Resting.got = <<>>
BY DeliveryAssumption DEF Resting, RunRecord, RunOK, Executing

\* A run that only moves on, or looks at the mailbox.
LEMMA MovesOK ==
    ASSUME DInv, NEW w \in Worker, run[w].pc \in Executing
    PROVE  /\ \A pc \in {"poll", "suspend"} :
                 LET r == [run[w] EXCEPT !.pc = pc]
                 IN  r \in RunRecord /\ RunOK(r) /\ r.pc = pc /\ r.wake <= job.wake
                     /\ r.got = run[w].got /\ r.wake = run[w].wake
           /\ \A id \in 1..MaxSends :
                 LET r == [run[w] EXCEPT !.pc = "check", !.read = id]
                 IN  r \in RunRecord /\ RunOK(r) /\ r.pc = "check" /\ r.wake <= job.wake
                     /\ r.got = run[w].got /\ r.read = id
           /\ run[w].pc = "check" =>
                 LET r == [run[w] EXCEPT !.pc = "insert"]
                 IN  r \in RunRecord /\ RunOK(r) /\ r.pc = "insert" /\ r.wake <= job.wake
                     /\ r.got = run[w].got /\ r.read = run[w].read
<1>1. run[w] \in RunRecord /\ RunOK(run[w]) /\ run[w].wake <= job.wake /\ MaxSends \in Nat
  BY DeliveryAssumption DEF DInv, DShape, Awake
<1>2. ASSUME NEW pc \in {"poll", "suspend"}
      PROVE  LET r == [run[w] EXCEPT !.pc = pc]
             IN  r \in RunRecord /\ RunOK(r) /\ r.pc = pc /\ r.wake <= job.wake
                 /\ r.got = run[w].got /\ r.wake = run[w].wake
  BY <1>1 DEF RunRecord, RunOK, Executing
<1>3. ASSUME NEW id \in 1..MaxSends
      PROVE  LET r == [run[w] EXCEPT !.pc = "check", !.read = id]
             IN  r \in RunRecord /\ RunOK(r) /\ r.pc = "check" /\ r.wake <= job.wake
                 /\ r.got = run[w].got /\ r.read = id
  <2>1. id \in 0..MaxSends /\ id # 0
    BY <1>1
  <2> QED
    BY <1>1, <2>1 DEF RunRecord, RunOK, Executing
<1>4. ASSUME run[w].pc = "check"
      PROVE  LET r == [run[w] EXCEPT !.pc = "insert"]
             IN  r \in RunRecord /\ RunOK(r) /\ r.pc = "insert" /\ r.wake <= job.wake
                 /\ r.got = run[w].got /\ r.read = run[w].read
  BY <1>1, <1>4 DEF RunRecord, RunOK, Executing
<1> QED
  BY <1>2, <1>3, <1>4

LEMMA LoadKeeps ==
    ASSUME DInv, NEW w \in Worker, Load(w)
    PROVE  DShape' /\ Posted' /\ Ordered' /\ RunsAgree' /\ Awake'
<1>1. run \in [Worker -> RunRecord] /\ saved \in [0..Waits - 1 -> 0..MaxSends] /\ RunOK(run[w])
  BY DEF DInv, DShape
<1>2. run[w].pc = "load" /\ run[w].pc \in Executing
  BY DEF Load, Executing
<1>3. Index(w) \in 0..Waits - 1 /\ MaxSends \in Nat
  BY <1>1, <1>2, DeliveryAssumption DEF RunRecord, RunOK, Index
<1>4. CASE saved[Index(w)] # 0
  <2>1. Given(w, saved[Index(w)]) /\ saved[Index(w)] \in 1..MaxSends
    BY <1>1, <1>3, <1>4 DEF Load
  <2>2. saved' = [saved EXCEPT ![Index(w)] = saved[Index(w)]]
    BY <1>1 DEF Load
  <2>3. UNCHANGED <<jobs, sends, send, signals, overlapped>>
    BY DEF Load
  <2> QED
    BY <1>2, <1>4, <2>1, <2>2, <2>3, GivenKeeps
<1>5. CASE saved[Index(w)] = 0
  <2> DEFINE r == [run[w] EXCEPT !.pc = "poll"]
  <2>1. /\ r \in RunRecord /\ RunOK(r) /\ r.pc = "poll" /\ r.wake <= job.wake
        /\ r.got = run[w].got
    BY <1>2, MovesOK
  <2>2. run' = [run EXCEPT ![w] = r] /\ UNCHANGED <<jobs, sends, send, signals, saved, overlapped>>
    BY <1>1, <1>5 DEF Load, Moves
  <2> HIDE DEF r
  <2> QED
    BY <2>1, <2>2, QuietRun
<1> QED
  BY <1>4, <1>5

LEMMA PollKeeps ==
    ASSUME DInv, NEW w \in Worker, Poll(w)
    PROVE  DShape' /\ Posted' /\ Ordered' /\ RunsAgree' /\ Awake'
<1>1. run \in [Worker -> RunRecord] /\ signals \subseteq [id : 1..MaxSends, key : Key \cup {NoKey}]
  BY DEF DInv, DShape
<1>2. run[w].pc \in Executing
  BY DEF Poll, Executing
<1>3. UNCHANGED <<jobs, sends, send, signals, saved, overlapped>>
  BY DEF Poll
<1>4. CASE SignalAt(Index(w)) = {}
  <2> DEFINE r == [run[w] EXCEPT !.pc = "suspend"]
  <2>1. /\ r \in RunRecord /\ RunOK(r) /\ r.pc = "suspend" /\ r.wake <= job.wake
        /\ r.got = run[w].got
    BY <1>2, MovesOK
  <2>2. run' = [run EXCEPT ![w] = r]
    BY <1>1, <1>4 DEF Poll, Moves
  <2>3. SignalAt(Len(r.got)) = {}
    BY <1>4, <2>1 DEF Index
  <2> HIDE DEF r
  <2> QED
    BY <1>3, <2>1, <2>2, <2>3, QuietRun
<1>5. ASSUME NEW row \in SignalAt(Index(w)),
             run' = [run EXCEPT ![w].pc = "check", ![w].read = row.id]
      PROVE  DShape' /\ Posted' /\ Ordered' /\ RunsAgree' /\ Awake'
  <2> DEFINE r == [run[w] EXCEPT !.pc = "check", !.read = row.id]
  <2>1. row.id \in 1..MaxSends
    BY <1>1, <1>5 DEF SignalAt
  <2>2. /\ r \in RunRecord /\ RunOK(r) /\ r.pc = "check" /\ r.wake <= job.wake
        /\ r.got = run[w].got /\ r.read = row.id
    BY <1>2, <2>1, MovesOK
  <2>3. run' = [run EXCEPT ![w] = r]
    BY <1>1, <1>5
  <2> HIDE DEF r
  <2>4. \E x \in SignalAt(Len(r.got)) : x.id = r.read
    BY <1>5, <2>2 DEF Index
  <2> QED
    BY <1>3, <2>2, <2>3, <2>4, QuietRun
<1> QED
  BY <1>4, <1>5 DEF Poll

LEMMA CheckKeeps ==
    ASSUME DInv, NEW w \in Worker, Check(w)
    PROVE  DShape' /\ Posted' /\ Ordered' /\ RunsAgree' /\ Awake'
<1>1. run \in [Worker -> RunRecord] /\ saved \in [0..Waits - 1 -> 0..MaxSends] /\ RunOK(run[w])
  BY DEF DInv, DShape
<1>2. run[w].pc = "check" /\ run[w].pc \in Executing
  BY DEF Check, Executing
<1>3. Index(w) \in 0..Waits - 1 /\ MaxSends \in Nat
  BY <1>1, <1>2, DeliveryAssumption DEF RunRecord, RunOK, Index
<1>4. UNCHANGED <<jobs, sends, send, signals, saved, overlapped>>
  BY DEF Check
<1>5. CASE saved[Index(w)] # 0
  <2>1. Given(w, saved[Index(w)]) /\ saved[Index(w)] \in 1..MaxSends
    BY <1>1, <1>3, <1>5 DEF Check
  <2>2. saved' = [saved EXCEPT ![Index(w)] = saved[Index(w)]]
    BY <1>1, <1>4
  <2> QED
    BY <1>2, <1>4, <1>5, <2>1, <2>2, GivenKeeps
<1>6. CASE saved[Index(w)] = 0 /\ Owned(job, w)
  <2> DEFINE r == [run[w] EXCEPT !.pc = "insert"]
  <2>1. /\ r \in RunRecord /\ RunOK(r) /\ r.pc = "insert" /\ r.wake <= job.wake
        /\ r.got = run[w].got /\ r.read = run[w].read
    BY <1>2, MovesOK
  <2>2. run' = [run EXCEPT ![w] = r]
    BY <1>1, <1>6 DEF Check, Moves
  <2> HIDE DEF r
  <2>3. ~overlapped => \E row \in SignalAt(Len(r.got)) : row.id = r.read
    BY <1>2, <2>1 DEF DInv, Ordered, Index
  <2> QED
    BY <1>4, <2>1, <2>2, <2>3, QuietRun
<1>7. CASE saved[Index(w)] = 0 /\ ~Owned(job, w)
  <2>1. run' = [run EXCEPT ![w] = Resting]
    BY <1>7 DEF Check
  <2>2. Resting.wake <= job.wake
    BY RestingOK, <1>1, DeliveryAssumption, RequestAssumption DEF DInv, StoreInv, job, Row
  <2> QED
    BY <1>4, <2>1, <2>2, RestingOK, QuietRun
<1> QED
  BY <1>5, <1>6, <1>7

LEMMA InsertKeeps ==
    ASSUME DInv, NEW w \in Worker, Insert(w)
    PROVE  DShape' /\ Posted' /\ Ordered' /\ RunsAgree' /\ Awake'
<1>1. /\ run \in [Worker -> RunRecord] /\ RunOK(run[w])
      /\ saved \in [0..Waits - 1 -> 0..MaxSends]
  BY DEF DInv, DShape
<1>2. run[w].pc = "insert" /\ run[w].pc \in Executing
  BY DEF Insert, Executing
<1>3. Index(w) \in 0..Waits - 1 /\ MaxSends \in Nat /\ run[w].read \in 1..MaxSends
  BY <1>1, <1>2, DeliveryAssumption DEF RunRecord, RunOK, Index
<1>4. Stored(w) \in 1..MaxSends
  BY <1>1, <1>3 DEF Stored
<1>5. Given(w, Stored(w)) /\ UNCHANGED <<jobs, sends, send, signals, overlapped>>
  BY DEF Insert
<1>6. saved' = [saved EXCEPT ![Index(w)] = Stored(w)]
  BY <1>1, <1>3 DEF Insert, Stored
<1>7. saved[Index(w)] \in {0, Stored(w)}
  BY DEF Stored
<1>8. ~overlapped /\ saved[Index(w)] = 0 => \E row \in SignalAt(Index(w)) : row.id = Stored(w)
  BY <1>2 DEF DInv, Ordered, Stored
<1> QED
  BY <1>2, <1>4, <1>5, <1>6, <1>7, <1>8, GivenKeeps

\* A run that begins or ends, together with what that makes of the job.
LEMMA RunEnds ==
    ASSUME DInv, NEW w \in Worker, NEW r \in RunRecord, RunOK(r),
           r.got = <<>>, r.pc \in {"idle", "load"}, r.wake <= job.wake,
           run' = [run EXCEPT ![w] = r],
           UNCHANGED <<sends, send, signals, saved, overlapped>>,
           Handled(w)
    PROVE  DShape' /\ Posted' /\ Ordered' /\ RunsAgree' /\ Awake'
<1>1. saved' \in [0..Waits - 1 -> 0..MaxSends]
  BY DEF DInv, DShape
<1>2. \A i \in 1..Len(r.got) : r.got[i] = saved'[i - 1]
  OBVIOUS
<1>3. r.pc \notin {"check", "insert", "suspend"}
  OBVIOUS
<1> QED
  BY <1>1, <1>2, <1>3, RunChanges

LEMMA ClaimWaiterKeeps ==
    ASSUME DInv, NEW w \in Worker, ClaimWaiter(w)
    PROVE  DShape' /\ Posted' /\ Ordered' /\ RunsAgree' /\ Awake'
<1> DEFINE r == [Resting EXCEPT !.pc = "load", !.wake = job.wake]
<1>1. job.wake \in Nat
  BY DeliveryAssumption, RequestAssumption DEF DInv, StoreInv, job, Row
<1>2. /\ r \in RunRecord /\ RunOK(r) /\ r.got = <<>> /\ r.pc = "load" /\ r.wake <= job.wake
  <2>1. r \in RunRecord /\ r.got = Resting.got /\ r.pc = "load" /\ r.wake = job.wake
    BY <1>1, RestingOK DEF RunRecord, Executing
  <2> HIDE DEF r
  <2>2. r.got = <<>>
    BY <2>1, RestingOK
  <2>3. Len(r.got) = 0
    BY <2>2
  <2> QED
    BY <1>1, <2>1, <2>2, <2>3, DeliveryAssumption DEF RunOK
<1>3. /\ run' = [run EXCEPT ![w] = r]
      /\ UNCHANGED <<sends, send, signals, saved, overlapped>>
  BY DEF ClaimWaiter
<1> HIDE DEF r
<1>4. Handled(w)
  <2>1. job \in Row /\ job' = Claimed(job, w) /\ ~Locked
    BY DeliveryAssumption DEF ClaimWaiter, Claim, DInv, StoreInv, job
  <2> QED
    BY <2>1 DEF Handled, Claimed, Owned, Asleep, Row
<1> QED
  BY <1>2, <1>3, <1>4, RunEnds

\* The park of a run with the current version: what it skipped it consumed
\* before, and nothing lies at or after its position.
LEMMA ParkOK ==
    ASSUME DInv, NEW w \in Worker, run[w].pc = "suspend", run[w].wake = job.wake, Owned(job, w),
           NEW i \in 0..Waits - 1, SignalAt(i) # {}
    PROVE  saved[i] # 0
<1>1. run[w] \in RunRecord /\ MaxSends \in Nat /\ Waits \in Nat
  BY DeliveryAssumption DEF DInv, DShape
<1>2. Index(w) \in Nat /\ run[w].got \in Seq(1..MaxSends)
  BY <1>1 DEF RunRecord, Index
<1>3. SignalAt(Index(w)) = {}
  BY DEF DInv, Awake
<1>4. PICK b \in signals : Position(signals, b) = i
  BY ReadsByPosition
<1>5. i < Index(w)
  <2> SUFFICES ASSUME Index(w) <= i
               PROVE  FALSE
    BY <1>1, <1>2
  <2>1. Mailbox(signals)
    BY DEF DInv, Posted
  <2>2. \E a \in signals : Position(signals, a) = Index(w)
    BY <1>2, <1>4, <2>1, NoGap
  <2> QED
    BY <1>3, <2>2, ReadsByPosition
<1>6. i + 1 \in 1..Len(run[w].got)
  BY <1>1, <1>2, <1>5 DEF Index
<1>7. run[w].got[i + 1] = saved[(i + 1) - 1] /\ (i + 1) - 1 = i
  BY <1>1, <1>6 DEF DInv, RunsAgree
<1>8. run[w].got[i + 1] \in 1..MaxSends
  BY <1>2, <1>6, ElementType
<1> QED
  BY <1>1, <1>7, <1>8

LEMMA FinishKeeps ==
    ASSUME DInv, NEW w \in Worker, Finish(w)
    PROVE  DShape' /\ Posted' /\ Ordered' /\ RunsAgree' /\ Awake'
<1>1. /\ run' = [run EXCEPT ![w] = Resting]
      /\ UNCHANGED <<sends, send, signals, saved, overlapped>>
  BY DEF Finish
<1>2. job \in Row /\ job.wake \in Nat /\ Resting.wake <= job.wake
  BY RestingOK, DeliveryAssumption, RequestAssumption DEF DInv, StoreInv, job, Row
<1>3. CASE run[w].pc = "suspend" /\ Suspend(w, Waiter, run[w].wake)
  <2>1. job' = Suspended(job) /\ run[w].wake = job.wake /\ Owned(job, w)
    BY <1>3, DeliveryAssumption DEF Suspend, Parkable, SetRow, job, DInv, StoreInv
  <2>2. \A i \in 0..Waits - 1 : SignalAt(i) # {} => saved[i] # 0
    BY <1>3, <2>1, ParkOK
  <2>3. Handled(w)
    BY <1>2, <2>1, <2>2 DEF Handled, Suspended, Released, Owned, Row
  <2> QED
    BY <1>1, <1>2, <2>3, RestingOK, RunEnds
<1>4. CASE Complete(w, Waiter) \/ Fail(w, Waiter, FALSE) \/ UNCHANGED jobs
  <2>1. Handled(w)
    BY <1>4, JobStill, StillHandled DEF DInv
  <2> QED
    BY <1>1, <1>2, <2>1, RestingOK, RunEnds
<1> QED
  BY <1>3, <1>4 DEF Finish

LEMMA OutsideDeliveryKeeps ==
    ASSUME DInv, Outside
    PROVE  DShape' /\ Posted' /\ Ordered' /\ RunsAgree' /\ Awake'
<1>1. UNCHANGED <<sends, send, signals, saved, run, overlapped>>
  BY DEF Outside
<1>2. Still(job', job)
  BY JobStill DEF DInv, Outside
<1>3. DShape' /\ Posted' /\ Ordered' /\ RunsAgree'
  BY <1>1 DEF DInv, DShape, Posted, Mailbox, DeliveredOnce, Open, Duplicate, SameKey,
              Ordered, RunsAgree, SignalAt, Earlier, Index
<1>4. Awake'
  BY <1>1, <1>2 DEF DInv, Awake, Still, SignalAt, Earlier, Index
<1> QED
  BY <1>3, <1>4

-----------------------------------------------------------------------------
LEMMA DInvNext == DInv /\ [DeliveryNext]_deliveryVars => DInv'
<1> SUFFICES ASSUME DInv, [DeliveryNext]_deliveryVars
             PROVE  DInv'
  OBVIOUS
<1>1. StoreInv'
  BY DeliveryTableStep, StoreInvNext DEF DInv
<1>2. CASE UNCHANGED deliveryVars
  <2>1. DShape' /\ Posted' /\ Ordered' /\ RunsAgree'
    BY <1>2 DEF deliveryVars, DInv, DShape, Posted, Mailbox, DeliveredOnce, Open, Duplicate,
                SameKey, Ordered, RunsAgree, SignalAt, Earlier, Index
  <2>2. Awake'
    BY <1>2 DEF deliveryVars, DInv, Awake, Asleep, Owned, SignalAt, Earlier, Index, job
  <2> QED
    BY <1>1, <2>1, <2>2 DEF DInv
<1>3. CASE SenderNext
  <2>1. DShape' /\ Posted' /\ Ordered' /\ RunsAgree' /\ Awake'
    BY <1>3, SendQuietKeeps, SendInsertKeeps, SendWakeKeeps, SendCommitKeeps DEF SenderNext
  <2> QED
    BY <1>1, <2>1 DEF DInv
<1>4. CASE RunNext
  <2>1. DShape' /\ Posted' /\ Ordered' /\ RunsAgree' /\ Awake'
    BY <1>4, ClaimWaiterKeeps, LoadKeeps, PollKeeps, CheckKeeps, InsertKeeps, FinishKeeps DEF RunNext
  <2> QED
    BY <1>1, <2>1 DEF DInv
<1>5. CASE Outside
  BY <1>1, <1>5, OutsideDeliveryKeeps DEF DInv
<1> QED
  BY <1>2, <1>3, <1>4, <1>5 DEF DeliveryNext

LEMMA DInvInit == DeliveryInit => DInv
<1> SUFFICES ASSUME DeliveryInit
             PROVE  DInv
  OBVIOUS
<1>1. PICK m \in RequestedMax :
         jobs = [j \in Job |-> IF j = Waiter THEN Enqueued(DefaultQueue, m, "past", NoKey)
                               ELSE Default]
  BY DEF DeliveryInit
<1> DEFINE e == Enqueued(DefaultQueue, m, "past", NoKey)
<1>2. RowOK(e) /\ e \in Row
  <2>1. DefaultQueue \in Queue /\ NoKey \in Key \cup {NoKey}
    BY QueueAssumption
  <2> QED
    BY <2>1, RequestAssumption, EnqueuedOK DEF RowOK
<1>3. e.wake = 0 /\ e.runAfter = "past"
  BY DEF Enqueued, Default
<1>15. jobs = [j \in Job |-> IF j = Waiter THEN e ELSE Default]
  BY <1>1
<1> HIDE DEF e
<1>4. Default \in Row /\ RowOK(Default)
  BY DefaultOK DEF RowOK
<1>5. StoreInv
  BY <1>15, <1>2, <1>4 DEF StoreInv
<1>6. job = e
  BY <1>15, DeliveryAssumption DEF job
<1>7. run = [w \in Worker |-> Resting] /\ sends = 0 /\ signals = {} /\ overlapped = FALSE
      /\ send = [s \in Sender |-> Idle] /\ saved = [i \in 0..Waits - 1 |-> 0]
  BY DEF DeliveryInit
<1>8. Idle \in Sent /\ Idle.pc = "idle" /\ 0 \in 0..MaxSends
  BY DeliveryAssumption DEF Idle, Sent
<1>9. DShape
  BY <1>7, <1>8, RestingOK DEF DShape, Sent
<1>10. \A s \in Sender : ~Open(s) /\ send[s].pc # "acked" /\ send[s].pc # "missed"
  BY <1>7, <1>8 DEF Open
<1>11. Posted
  <2>1. IsFiniteSet({})
    BY FS_EmptySet
  <2> QED
    BY <1>7, <1>10, <2>1 DEF Posted, Mailbox, DeliveredOnce
<1>12. Ordered
  BY <1>7, <1>10, RestingOK DEF Ordered
<1>13. RunsAgree
  <2>1. \A w \in Worker : run[w].got = <<>>
    BY <1>7, RestingOK
  <2> QED
    BY <2>1 DEF RunsAgree
<1>14. Awake
  <2>1. \A w \in Worker : run[w].wake = 0 /\ run[w].pc = "idle"
    BY <1>7, RestingOK
  <2> QED
    BY <1>3, <1>6, <1>10, <2>1 DEF Awake, Asleep
<1> QED
  BY <1>5, <1>9, <1>11, <1>12, <1>13, <1>14 DEF DInv

\* The inductive invariant, for every instance.
THEOREM DeliveryInvariant == DeliverySpec => []DInv
<1> QED
  BY DInvInit, DInvNext, PTL DEF DeliverySpec

\* The mailbox, the senders and the runs stay well formed; in particular no
\* run waits for a signal past the last one its workflow asks for.
THEOREM DeliveryTypeCorrect == DeliverySpec => []DeliveryTypeOK
<1>1. DInv => DeliveryTypeOK
  <2> SUFFICES ASSUME DInv
               PROVE  DeliveryTypeOK
    OBVIOUS
  <2>1. jobs[Waiter] \in Row
    BY DeliveryAssumption DEF DInv, StoreInv
  <2>2. \A w \in Worker : /\ run[w].read \in 0..MaxSends
                          /\ run[w].got \in Seq(1..MaxSends) /\ Len(run[w].got) <= Waits
                          /\ run[w].pc \in Executing => Index(w) < Waits
    BY DEF DInv, DShape, RunRecord, RunOK, Index
  <2> QED
    BY <2>1, <2>2 DEF DInv, DShape, DeliveryTypeOK
<1> QED
  BY <1>1, DeliveryInvariant, PTL

\* Signal's acknowledgement means the signal is stored, and a key stores one,
\* however many callers retry it at once (ON CONFLICT DO NOTHING).
THEOREM DeliveryOnce == DeliverySpec => []DeliveredOnce
<1>1. DInv => DeliveredOnce
  BY DEF DInv, Posted
<1> QED
  BY <1>1, DeliveryInvariant, PTL

\* Suspend's wake_version fence closes the window between a run's last look at
\* the mailbox and its park, and the key-share lock of Signal's insert the one
\* between an UPDATE that found the job ended and the commit of its signal; for
\* every number of workers and senders.
THEOREM WaiterAwake == DeliverySpec => []NoDeliverySlept
<1>1. DInv => NoDeliverySlept
  BY DEF DInv, Awake, Asleep, NoDeliverySlept
<1> QED
  BY <1>1, DeliveryInvariant, PTL

\* SaveStep's first-write-wins: two workers that both run the workflow are
\* given the same signals, whatever they read from the mailbox.
THEOREM ExecutionsAgree == DeliverySpec => []RunsAgree
<1>1. DInv => RunsAgree
  BY DEF DInv
<1> QED
  BY <1>1, DeliveryInvariant, PTL

\* GetSignalAt's position is stable as long as Signal transactions do not
\* overlap: then waits are given the deliveries in their order.
THEOREM InOrder == DeliverySpec => []InOrderIfSerial
<1>1. DInv => InOrderIfSerial
  BY DEF DInv, Ordered, InOrderIfSerial
<1> QED
  BY <1>1, DeliveryInvariant, PTL

\* Signal's transaction in parts, and the runs that read the mailbox, use the
\* table as its statements do: leases, budgets and the lifecycle stay sound under them.
THEOREM DeliveryKeepsTable == DeliverySpec => TableKept
<1>1. DInv /\ [DeliveryNext]_deliveryVars => [AllFollow]_jobs
  BY DeliveryTableStep, FollowsNext DEF DInv, AllFollow
<1>2. DInv => StoreInv
  BY DEF DInv
<1> QED
  BY <1>1, <1>2, DeliveryInvariant, KeepsTable, PTL DEF DeliverySpec
=============================================================================
