--------------------------- MODULE SignalDelivery ---------------------------
(***************************************************************************)
(* The mailbox of one job, statement by statement: what Store.Signal's     *)
(* transaction and the runs that read the mailbox do to each other.        *)
(*                                                                         *)
(* PostgreSQL runs the transactions at READ COMMITTED.  The id of a signal *)
(* is drawn from a sequence when it is inserted; the row is visible when   *)
(* the transaction commits.  An UPDATE that hits the job's row locks it    *)
(* until the commit and shows its effect with it, so that update and the   *)
(* commit are one step here; an UPDATE that hits no row locks nothing, and *)
(* its commit is a step of its own.  The foreign key of an inserted signal *)
(* locks the job's row FOR KEY SHARE until the commit: statements that     *)
(* select the row FOR UPDATE wait (Fail) or skip it (Claim, the sweep),    *)
(* while plain UPDATEs pass.  The key is checked after the insert has      *)
(* looked at the job's status, in a step of its own.                       *)
(*                                                                         *)
(* Each worker runs the workflow in one slot: it consumes the signals      *)
(* #0 .. #Waits-1 of one name in turn and remembers what it was given.     *)
(***************************************************************************)
EXTENDS JobStore, Sequences

CONSTANTS
    Waiter,         \* the job signals are sent to
    Sender,         \* concurrent callers of Signal
    KeyOf,          \* the idempotency key each of them passes
    Waits,          \* how many signals the workflow waits for
    MaxSends        \* bound: how many signal ids are drawn

ASSUME DeliveryAssumption ==
    /\ Waiter \in Job
    /\ KeyOf \in [Sender -> Key \cup {NoKey}]
    /\ Waits \in Nat \ {0} /\ MaxSends \in Nat

VARIABLES
    sends,      \* how many signal ids the sequence has handed out
    send,       \* each sender's transaction
    signals,    \* the committed rows of job_signals
    saved,      \* the checkpoints: the id of the signal consumed as #i
    run,        \* what each worker does
    overlapped  \* history: two Signal transactions were open at once

deliveryVars == <<jobs, sends, send, signals, saved, run, overlapped>>

job == jobs[Waiter]

-----------------------------------------------------------------------------
(***************************************************************************)
(* Signal.  A sender has "inserted" its row, then holds the job's row      *)
(* ("locked"), then may have "missed" the job: found none to wake.         *)
(***************************************************************************)
Idle == [pc |-> "idle", id |-> 0]
Open(s) == send[s].pc \in {"inserted", "locked", "missed"}
Locked == \E s \in Sender : send[s].pc \in {"locked", "missed"}

SignalRow(s) == [id |-> send[s].id, key |-> KeyOf[s]]

Sends(s, pc) == send' = [send EXCEPT ![s].pc = pc]

SameKey(s, t) == KeyOf[s] # NoKey /\ KeyOf[t] = KeyOf[s]

Duplicate(s) == KeyOf[s] # NoKey /\ \E row \in signals : row.key = KeyOf[s]

BugBlocked(s) == FALSE

\* The unique index makes an insert wait for an open one with the same key.
Blocked(s) == \E t \in Sender : Open(t) /\ SameKey(s, t)

\* INSERT .. SELECT .. WHERE the job is active, ON CONFLICT DO NOTHING.
SendInsert(s) ==
    /\ send[s].pc = "idle"
    /\ Active(job) /\ ~Duplicate(s) /\ ~Blocked(s)
    /\ sends < MaxSends
    /\ sends' = sends + 1
    /\ send' = [send EXCEPT ![s] = [pc |-> "inserted", id |-> sends + 1]]
    /\ overlapped' = (overlapped \/ \E t \in Sender : Open(t))
    /\ UNCHANGED <<jobs, signals, saved, run>>

\* The foreign key's check.
SendLock(s) ==
    /\ send[s].pc = "inserted"
    /\ Sends(s, "locked")
    /\ UNCHANGED <<jobs, sends, signals, saved, run, overlapped>>

\* No row was inserted: a duplicate is a success, else the job has ended.
SendNoop(s) ==
    /\ send[s].pc = "idle"
    /\ \/ Duplicate(s) /\ Sends(s, "acked")
       \/ ~Active(job) /\ ~Duplicate(s) /\ Sends(s, "refused")
    /\ UNCHANGED <<jobs, sends, signals, saved, run, overlapped>>

\* The last UPDATE finds the job active: it waits for whoever holds the row,
\* then wakes the waiter and commits.
SendWake(s) ==
    /\ send[s].pc = "locked"
    /\ Signal(Waiter)
    /\ signals' = signals \cup {SignalRow(s)}
    /\ Sends(s, "acked")
    /\ UNCHANGED <<sends, saved, run, overlapped>>

\* The job ended after the insert read its status: the UPDATE wakes nobody.
SendMiss(s) ==
    /\ send[s].pc = "locked" /\ ~Active(job)
    /\ Sends(s, "missed")
    /\ UNCHANGED <<jobs, sends, signals, saved, run, overlapped>>

SendCommit(s) ==
    /\ send[s].pc = "missed"
    /\ signals' = signals \cup {SignalRow(s)}
    /\ Sends(s, "acked")
    /\ UNCHANGED <<jobs, sends, saved, run, overlapped>>

\* The transaction rolls back (an error, a lost connection), or the answer is
\* lost after the commit; either way the caller may send again.
SendAgain(s) ==
    /\ Open(s) \/ (send[s].pc = "acked" /\ KeyOf[s] # NoKey)
    /\ send' = [send EXCEPT ![s] = Idle]
    /\ UNCHANGED <<jobs, sends, signals, saved, run, overlapped>>

-----------------------------------------------------------------------------
(***************************************************************************)
(* A run: claim, WaitSignalAt #0, #1, .., then one final write.            *)
(***************************************************************************)
Executing == {"load", "poll", "check", "insert"}

Resting == [pc |-> "idle", wake |-> 0, read |-> 0, got |-> <<>>]

Index(w) == Len(run[w].got)
Moves(w, pc) == run' = [run EXCEPT ![w].pc = pc]

\* GetSignalAt: the index-th committed row ORDER BY id.
BugEarlier(row) == {other \in signals : other.id > row.id}

Earlier(row) == {other \in signals : other.id < row.id}
SignalAt(index) == {row \in signals : Cardinality(Earlier(row)) = index}

BugGiven(w, id) ==
    LET got == Append(run[w].got, id)
    IN  run' = [run EXCEPT ![w].pc = IF Len(got) > Waits THEN "complete" ELSE "load",
                           ![w].got = got, ![w].read = 0]

\* The run is given signal id for its current wait.
Given(w, id) ==
    LET got == Append(run[w].got, id)
    IN  run' = [run EXCEPT ![w].pc = IF Len(got) = Waits THEN "complete" ELSE "load",
                           ![w].got = got, ![w].read = 0]

ClaimWaiter(w) ==
    /\ run[w].pc = "idle" /\ ~Locked
    /\ Claim(w, job.queue, {Waiter})
    /\ run' = [run EXCEPT ![w] = [Resting EXCEPT !.pc = "load", !.wake = job.wake]]
    /\ UNCHANGED <<sends, send, signals, saved, overlapped>>

Load(w) ==
    /\ run[w].pc = "load"
    /\ IF saved[Index(w)] # 0 THEN Given(w, saved[Index(w)]) ELSE Moves(w, "poll")
    /\ UNCHANGED <<jobs, sends, send, signals, saved, overlapped>>

Poll(w) ==
    /\ run[w].pc = "poll"
    /\ IF SignalAt(Index(w)) = {} THEN Moves(w, "suspend")
       ELSE \E row \in SignalAt(Index(w)) :
               run' = [run EXCEPT ![w].pc = "check", ![w].read = row.id]
    /\ UNCHANGED <<jobs, sends, send, signals, saved, overlapped>>

\* RunStep looks for the checkpoint again; SaveStep checks the owner.  (A run
\* that is not the owner can only fail, and Fail rejects it.)
Check(w) ==
    /\ run[w].pc = "check"
    /\ IF saved[Index(w)] # 0 THEN Given(w, saved[Index(w)])
       ELSE IF Owned(job, w) THEN Moves(w, "insert")
       ELSE run' = [run EXCEPT ![w] = Resting]
    /\ UNCHANGED <<jobs, sends, send, signals, saved, overlapped>>

BugStored(w) == run[w].read

\* First write wins: the loser of a race continues with the winner's signal.
Stored(w) == IF saved[Index(w)] = 0 THEN run[w].read ELSE saved[Index(w)]

Insert(w) ==
    /\ run[w].pc = "insert"
    /\ saved' = [saved EXCEPT ![Index(w)] = IF @ = 0 THEN run[w].read ELSE @]
    /\ Given(w, Stored(w))
    /\ UNCHANGED <<jobs, sends, send, signals, overlapped>>

\* The final write; one that is rejected or errs changes nothing.  A store call
\* may fail, or the context be canceled, anywhere before.
Finish(w) ==
    /\ \/ run[w].pc = "suspend"  /\ Suspend(w, Waiter, run[w].wake)
       \/ run[w].pc = "complete" /\ Complete(w, Waiter)
       \/ run[w].pc \in Executing /\ ~Locked /\ Fail(w, Waiter, FALSE)
       \/ run[w].pc # "idle" /\ UNCHANGED jobs
    /\ run' = [run EXCEPT ![w] = Resting]
    /\ UNCHANGED <<sends, send, signals, saved, overlapped>>

-----------------------------------------------------------------------------
\* Operators and time.
Outside ==
    /\ \/ Cancel(Waiter) \/ RetryDeadLetter(Waiter)
       \/ LeaseExpires(Waiter) \/ ComesDue(Waiter)
       \/ ~Locked /\ DeadLetterExhausted({Waiter})
    /\ UNCHANGED <<sends, send, signals, saved, run, overlapped>>

DeliveryInit ==
    /\ \E m \in RequestedMax :
          jobs = [j \in Job |-> IF j = Waiter
                                THEN Enqueued(DefaultQueue, m, "past", NoKey)
                                ELSE Default]
    /\ sends = 0
    /\ send = [s \in Sender |-> Idle]
    /\ signals = {}
    /\ saved = [i \in 0..Waits - 1 |-> 0]
    /\ run = [w \in Worker |-> Resting]
    /\ overlapped = FALSE

SenderNext ==
    \E s \in Sender : \/ SendInsert(s) \/ SendLock(s) \/ SendNoop(s) \/ SendWake(s)
                      \/ SendMiss(s) \/ SendCommit(s) \/ SendAgain(s)

RunNext ==
    \E w \in Worker : \/ ClaimWaiter(w) \/ Load(w) \/ Poll(w) \/ Check(w)
                      \/ Insert(w) \/ Finish(w)

DeliveryNext == SenderNext \/ RunNext \/ Outside

DeliverySpec == DeliveryInit /\ [][DeliveryNext]_deliveryVars

-----------------------------------------------------------------------------
(***************************************************************************)
(* What delivery guarantees.                                               *)
(***************************************************************************)
\* The mailbox, the senders and the runs are well formed.
DeliveryTypeOK ==
    /\ jobs[Waiter] \in Row
    /\ sends \in 0..MaxSends
    /\ send \in [Sender -> [pc : {"idle", "inserted", "locked", "missed", "acked", "refused"},
                            id : 0..MaxSends]]
    /\ signals \subseteq [id : 1..MaxSends, key : Key \cup {NoKey}]
    /\ saved \in [0..Waits - 1 -> 0..MaxSends]
    /\ \A w \in Worker :
          /\ run[w].read \in 0..MaxSends
          /\ run[w].got \in Seq(1..MaxSends) /\ Len(run[w].got) <= Waits
          /\ run[w].pc \in Executing => Index(w) < Waits

\* However senders overlap, roll back, lose their answer and send again, an
\* acknowledged signal is in the mailbox and an idempotency key is there once.
DeliveredOnce ==
    /\ \A s \in Sender :
          send[s].pc = "acked" => \E row \in signals : row.key = KeyOf[s]
    /\ \A a, b \in signals : a.key = b.key /\ a.key # NoKey => a = b

\* No waiter sleeps on a signal it could read: every delivery wakes the waiter in
\* its own transaction, and one that found it ended keeps it from running again
\* until the signal is there to be read, also when an operator revives the job
\* before the sender commits.
NoDeliverySlept ==
    job.status = "queued" /\ job.runAfter = "ahead"
        => \A i \in 0..Waits - 1 : SignalAt(i) # {} => saved[i] # 0

\* Duplicate executions agree: whatever a run was given for its waits is what
\* is checkpointed, although the mailbox may have changed under it.
RunsAgree ==
    \A w \in Worker : \A i \in 1..Len(run[w].got) : run[w].got[i] = saved[i - 1]

\* If no two Signal transactions overlap, the workflow consumes the mailbox
\* in order: wait #i is given the i-th delivery.
InOrderIfSerial ==
    ~overlapped =>
        \A i \in 0..Waits - 1 :
            saved[i] # 0 => \E row \in SignalAt(i) : row.id = saved[i]

\* internal/engine/signal.go: "Each delivery is checkpointed under its own
\* index", so no delivery is consumed by two waits.
EachDeliveryOnce ==
    \A i, k \in 0..Waits - 1 : saved[i] = saved[k] /\ saved[i] # 0 => i = k
=============================================================================
