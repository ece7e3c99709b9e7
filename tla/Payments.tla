------------------------------ MODULE Payments ------------------------------
(***************************************************************************)
(* The payouts service of examples/payments on the jobs table: the HTTP    *)
(* handler that accepts a payout, the ledger, the fake ACH rail, and the   *)
(* two workflows that move the money, executed at least once.              *)
(*                                                                         *)
(* Every transaction or autocommitted statement is a step.  A transaction  *)
(* is split where a read without a lock precedes the locked part           *)
(* (Ledger.Reserve).  SaveStep's ownership check and insert are one step   *)
(* here; Execution.tla takes them apart.  The original job of a workflow   *)
(* is identified with its idempotency key ("payout:<id>", "settle:<id>"):  *)
(* this worker sets no RetentionPeriod, so a key is never free again.  A   *)
(* replay is another job, without a key, for the same payout.  A canceled  *)
(* context is an error of the next call, at any call, or of none: the      *)
(* heartbeat that cancels may come late.  All payouts draw on one account. *)
(***************************************************************************)
EXTENDS JobStore, FiniteSetsExt

CONSTANTS
    Payout,             \* payout ids
    Copy,               \* the jobs there may be for one workflow of a payout:
    Original,           \* the one the service enqueues, and its replays
    Amount,             \* amount_cents of a payout
    ScenarioOf,         \* what the rail may do with a payout
    Opening,            \* the account's seeded balance
    FlakyFailures,      \* how often a flaky amount fails (2 in the code)
    PayoutAttempts,     \* WithMaxAttempts of the payout job (5)
    SettlementAttempts, \* settlementAttempts (10)
    Slot,               \* execution slots
    WorkerOf,           \* the worker id of a slot
    None,               \* no job
    Faults,             \* what may go wrong: "crash", "stall", "error"
    MaxTroubles         \* bound: how many faults and operator calls happen

PayJob(p)    == <<p, "payout", Original>>
SettleJob(p) == <<p, "settlement", Original>>

ASSUME PaymentsAssumption ==
    /\ Job = Payout \X {"payout", "settlement"} \X Copy /\ None \notin Job
    /\ Original \in Copy
    /\ Amount \in [Payout -> Nat \ {0}] /\ Opening \in Nat
    /\ ScenarioOf \in [Payout -> SUBSET {"ordinary", "flaky", "returned", "rejected"}]
    /\ {FlakyFailures, PayoutAttempts, SettlementAttempts} \subseteq Nat \ {0}
    /\ {PayoutAttempts, SettlementAttempts} \subseteq RequestedMax
    /\ WorkerOf \in [Slot -> Worker]
    /\ Faults \subseteq {"crash", "stall", "error"} /\ MaxTroubles \in Nat

VARIABLES
    run,        \* what each slot does
    saved,      \* the checkpoints: pairs of a job and a step name
    payouts,    \* the payouts table, with the scenario of each request
    request,    \* how far createPayout got
    balance,    \* accounts.balance_cents
    entries,    \* ledger_entries: pairs of a payout and a kind
    transfer,   \* bank_transfers.status by idempotency key; "early" and "due"
                \* are 'pending' before and after settle_after
    attempts,   \* bank_attempts, saturating at FlakyFailures + 1
    told,       \* notifications: what the customer was told of each payout
    overtaken,  \* history: a run of the payout workflow began while another
                \* of that payout went on
    troubles    \* how many faults and operator calls there were

money == <<balance, entries, transfer, attempts>>
payVars == <<jobs, run, saved, payouts, request, money, told, overtaken, troubles>>

-----------------------------------------------------------------------------
(***************************************************************************)
(* A run is at a program point (pc) of a checkpointed step, of abandon, or *)
(* about to make its final write.                                          *)
(***************************************************************************)
PayoutSteps == {"reserve-funds", "submit-ach", "schedule-settlement", "mark-submitted"}
SettleSteps == {"release-funds", "notify-returned", "post-ledger", "notify-paid"}

Calling    == {"load", "do", "lock", "attempt", "send", "save", "status", "close"}
Abandoning == {"abandon", "mark-failed", "tell-failed"}
Ending     == {"fail", "permanent", "complete"}

Idle == [pc |-> "idle", job |-> None, step |-> "none"]

RunState == [pc : Calling \cup Abandoning \cup Ending \cup {"idle"},
             job : Job \cup {None}, step : PayoutSteps \cup SettleSteps \cup {"none"}]

BugNextStep(step) ==
    CASE step = "reserve-funds"   -> "submit-ach"
      [] step = "submit-ach"      -> "mark-submitted"
      [] step = "release-funds"   -> "notify-returned"
      [] step = "post-ledger"     -> "notify-paid"
      [] OTHER                    -> "none"

NextStep(step) ==
    CASE step = "reserve-funds"       -> "submit-ach"
      [] step = "submit-ach"          -> "schedule-settlement"
      [] step = "schedule-settlement" -> "mark-submitted"
      [] step = "release-funds"       -> "notify-returned"
      [] step = "post-ledger"         -> "notify-paid"
      [] OTHER                        -> "none"

Trouble == troubles < MaxTroubles /\ troubles' = troubles + 1

At(s, pc) == run[s].pc = pc
Doing(s, step) == run[s].pc = "do" /\ run[s].step = step
P(s) == run[s].job[1]
Checkpoint(s) == <<run[s].job, run[s].step>>
Owns(s) == Owned(jobs[run[s].job], WorkerOf[s])
Running(s, j) == ~At(s, "idle") /\ run[s].job = j

\* Whichever job it belongs to, a run of the payout workflow moves the money.
Pays(j, p) == j[1] = p /\ j[2] = "payout"
Paying(s, p) == ~At(s, "idle") /\ Pays(run[s].job, p)

Goes(s, pc) == run' = [run EXCEPT ![s].pc = pc]
Begins(s, step) == run' = [run EXCEPT ![s].pc = "load", ![s].step = step]

\* After the last step the payout job returns; the settlement first writes
\* the payout's status.
Advances(s) ==
    IF NextStep(run[s].step) # "none" THEN Begins(s, NextStep(run[s].step))
    ELSE Goes(s, IF run[s].job[2] = "payout" THEN "complete" ELSE "close")

Started(j) == [Idle EXCEPT !.job = j,
                           !.pc = IF j[2] = "payout" THEN "load" ELSE "status",
                           !.step = IF j[2] = "payout" THEN "reserve-funds" ELSE "none"]

-----------------------------------------------------------------------------
(***************************************************************************)
(* RunStep: a checkpointed step is not run again; one that ran is          *)
(* checkpointed while its run still owns the job.                          *)
(***************************************************************************)
LoadStep(s) ==
    /\ At(s, "load")
    /\ IF Checkpoint(s) \in saved THEN Advances(s) ELSE Goes(s, "do")
    /\ UNCHANGED <<jobs, saved, payouts, request, money, told, overtaken, troubles>>

SaveStep(s) ==
    /\ At(s, "save")
    /\ IF Owns(s) THEN saved' = saved \cup {Checkpoint(s)} /\ Advances(s)
       ELSE Goes(s, "fail") /\ UNCHANGED saved
    /\ UNCHANGED <<jobs, payouts, request, money, told, overtaken, troubles>>

(***************************************************************************)
(* Ledger.                                                                 *)
(***************************************************************************)
Booked(p, kind) == <<p, kind>> \in entries

\* Post copies the hold, if there is one.
Posting(p) == IF Booked(p, "hold") THEN {<<p, "post">>} ELSE {}

BugReleasable(p) == Booked(p, "hold")

Releasable(p) == Booked(p, "hold") /\ ~Booked(p, "release")

\* Release credits the account only together with the entry it inserts.
Release(p) ==
    IF Releasable(p)
    THEN /\ entries' = entries \cup {<<p, "release">>}
         /\ balance' = balance + Amount[p]
    ELSE UNCHANGED <<entries, balance>>

\* Reserve, first statement: a hold that exists is reused.  It locks nothing.
FindHold(s) ==
    /\ Doing(s, "reserve-funds")
    /\ Goes(s, IF Booked(P(s), "hold") THEN "save" ELSE "lock")
    /\ UNCHANGED <<jobs, saved, payouts, request, money, told, overtaken, troubles>>

\* The rest, under the account's row lock: refuse, collide with a hold another
\* run inserted since, or hold and debit.
Reserve(s) ==
    /\ At(s, "lock")
    /\ \/ /\ balance < Amount[P(s)]
          /\ Goes(s, "abandon") /\ UNCHANGED <<entries, balance>>
       \/ /\ balance >= Amount[P(s)] /\ Booked(P(s), "hold")
          /\ Goes(s, "fail") /\ UNCHANGED <<entries, balance>>
       \/ /\ balance >= Amount[P(s)] /\ ~Booked(P(s), "hold")
          /\ entries' = entries \cup {<<P(s), "hold">>}
          /\ balance' = balance - Amount[P(s)]
          /\ Goes(s, "save")
    /\ UNCHANGED <<jobs, saved, payouts, request, transfer, attempts, told, overtaken, troubles>>

(***************************************************************************)
(* Bank.Submit: look the key up, count the attempt, decide, insert.        *)
(***************************************************************************)
LookUp(s) ==
    /\ Doing(s, "submit-ach")
    /\ Goes(s, IF transfer[P(s)] # "none" THEN "save" ELSE "attempt")
    /\ UNCHANGED <<jobs, saved, payouts, request, money, told, overtaken, troubles>>

BugOutcome(scenario, n) ==
    CASE scenario = "rejected" -> "abandon"
      [] scenario = "flaky" /\ n <= FlakyFailures -> "abandon"
      [] OTHER -> "send"

Outcome(scenario, n) ==
    CASE scenario = "rejected" -> "abandon"
      [] scenario = "flaky" /\ n <= FlakyFailures -> "fail"
      [] OTHER -> "send"

RecordAttempt(s) ==
    LET n == IF attempts[P(s)] > FlakyFailures THEN attempts[P(s)] ELSE attempts[P(s)] + 1
    IN  /\ At(s, "attempt")
        /\ attempts' = [attempts EXCEPT ![P(s)] = n]
        /\ Goes(s, Outcome(payouts[P(s)].scenario, n))
        /\ UNCHANGED <<jobs, saved, payouts, request, balance, entries, transfer,
                       told, overtaken, troubles>>

BugAccepted(p) == "early"

\* ON CONFLICT (idempotency_key) DO NOTHING.
Accepted(p) == IF transfer[p] = "none" THEN "early" ELSE transfer[p]

SendTransfer(s) ==
    /\ At(s, "send")
    /\ transfer' = [transfer EXCEPT ![P(s)] = Accepted(P(s))]
    /\ Goes(s, "save")
    /\ UNCHANGED <<jobs, saved, payouts, request, balance, entries, attempts,
                   told, overtaken, troubles>>

-----------------------------------------------------------------------------
(***************************************************************************)
(* The rest of payoutWorkflow.                                             *)
(***************************************************************************)
ScheduleSettlement(s) ==
    LET j == SettleJob(P(s))
    IN  /\ Doing(s, "schedule-settlement")
        /\ \/ Enqueue(j, DefaultQueue, SettlementAttempts, "ahead", NoKey)
           \/ jobs[j].status # "absent" /\ UNCHANGED jobs
        /\ Goes(s, "save")
        /\ UNCHANGED <<saved, payouts, request, money, told, overtaken, troubles>>

SetStatus(p, status) == payouts' = [payouts EXCEPT ![p].status = status]

MarkSubmitted(s) ==
    /\ Doing(s, "mark-submitted")
    /\ IF payouts[P(s)].status = "pending" THEN SetStatus(P(s), "submitted")
       ELSE UNCHANGED payouts
    /\ Goes(s, "save")
    /\ UNCHANGED <<jobs, saved, request, money, told, overtaken, troubles>>

Tell(p, what) == told' = [told EXCEPT ![p] = @ \cup {what}]

\* abandon, after a permanent failure of one of the first two steps: release
\* what is held, mark the payout and tell the customer.
AbandonRelease(s) ==
    /\ At(s, "abandon")
    /\ Release(P(s))
    /\ Goes(s, "mark-failed")
    /\ UNCHANGED <<jobs, saved, payouts, request, transfer, attempts, told, overtaken, troubles>>

AbandonMark(s) ==
    /\ At(s, "mark-failed")
    /\ SetStatus(P(s), "failed")
    /\ Goes(s, "tell-failed")
    /\ UNCHANGED <<jobs, saved, request, money, told, overtaken, troubles>>

AbandonTell(s) ==
    /\ At(s, "tell-failed")
    /\ Tell(P(s), "failed")
    /\ Goes(s, "permanent")
    /\ UNCHANGED <<jobs, saved, payouts, request, money, overtaken, troubles>>

-----------------------------------------------------------------------------
(***************************************************************************)
(* settlementWorkflow.                                                     *)
(***************************************************************************)
BugResolved(p) == IF transfer[p] = "due" THEN "cleared" ELSE transfer[p]

\* Bank.Status resolves a pending transfer once it is due.
Resolved(p) ==
    IF transfer[p] # "due" THEN transfer[p]
    ELSE IF payouts[p].scenario = "returned" THEN "returned" ELSE "settled"

CheckStatus(s) ==
    /\ At(s, "status")
    /\ transfer' = [transfer EXCEPT ![P(s)] = Resolved(P(s))]
    /\ CASE Resolved(P(s)) = "returned" -> Begins(s, "release-funds")
         [] Resolved(P(s)) = "settled"  -> Begins(s, "post-ledger")
         [] OTHER                       -> Goes(s, "fail")
    /\ UNCHANGED <<jobs, saved, payouts, request, balance, entries, attempts,
                   told, overtaken, troubles>>

ReleaseFunds(s) ==
    /\ Doing(s, "release-funds")
    /\ Release(P(s))
    /\ Goes(s, "save")
    /\ UNCHANGED <<jobs, saved, payouts, request, transfer, attempts, told, overtaken, troubles>>

PostLedger(s) ==
    /\ Doing(s, "post-ledger")
    /\ entries' = entries \cup Posting(P(s))
    /\ Goes(s, "save")
    /\ UNCHANGED <<jobs, saved, payouts, request, balance, transfer, attempts,
                   told, overtaken, troubles>>

Notify(s) ==
    /\ \/ Doing(s, "notify-paid") /\ Tell(P(s), "paid")
       \/ Doing(s, "notify-returned") /\ Tell(P(s), "returned")
    /\ Goes(s, "save")
    /\ UNCHANGED <<jobs, saved, payouts, request, money, overtaken, troubles>>

Close(s) ==
    /\ At(s, "close")
    /\ SetStatus(P(s), IF run[s].step = "notify-paid" THEN "paid" ELSE "returned")
    /\ Goes(s, "complete")
    /\ UNCHANGED <<jobs, saved, request, money, told, overtaken, troubles>>

-----------------------------------------------------------------------------
(***************************************************************************)
(* The worker around the workflows.                                        *)
(***************************************************************************)
ClaimJob(s, j) ==
    /\ At(s, "idle")
    /\ Claim(WorkerOf[s], DefaultQueue, {j})
    /\ run' = [run EXCEPT ![s] = Started(j)]
    /\ overtaken' = overtaken \cup {p \in Payout : Pays(j, p) /\ \E t \in Slot : Paying(t, p)}
    /\ UNCHANGED <<saved, payouts, request, money, told, troubles>>

\* The final write; one the store rejects changes nothing.
Finish(s) ==
    LET w == WorkerOf[s]  j == run[s].job
    IN  /\ \/ At(s, "complete")  /\ Complete(w, j)
           \/ At(s, "fail")      /\ Fail(w, j, FALSE)
           \/ At(s, "permanent") /\ Fail(w, j, TRUE)
           \/ run[s].pc \in Ending /\ ~Owns(s) /\ UNCHANGED jobs
        /\ run' = [run EXCEPT ![s] = Idle]
        /\ UNCHANGED <<saved, payouts, request, money, told, overtaken, troubles>>

\* A call errs.  What abandon joins to its cause stays permanent.
Errs(s) ==
    /\ Trouble
    /\ "error" \in Faults
    /\ \/ run[s].pc \in Calling /\ Goes(s, "fail")
       \/ run[s].pc \in Abandoning /\ Goes(s, "permanent")
       \/ run[s].pc \in Ending /\ run' = [run EXCEPT ![s] = Idle]
    /\ UNCHANGED <<jobs, saved, payouts, request, money, told, overtaken>>

Crash(w) ==
    /\ Trouble
    /\ "crash" \in Faults
    /\ \E s \in Slot : WorkerOf[s] = w /\ ~At(s, "idle")
    /\ run' = [s \in Slot |-> IF WorkerOf[s] = w THEN Idle ELSE run[s]]
    /\ UNCHANGED <<jobs, saved, payouts, request, money, told, overtaken>>

(***************************************************************************)
(* createPayout: the row, then the job.  (The row's job_id is for display.) *)
(***************************************************************************)
InsertPayout(p) ==
    /\ request[p] = "none"
    /\ \E scenario \in ScenarioOf[p] : payouts' = [payouts EXCEPT ![p] = [status |-> "pending", scenario |-> scenario]]
    /\ request' = [request EXCEPT ![p] = "inserted"]
    /\ UNCHANGED <<jobs, run, saved, money, told, overtaken, troubles>>

EnqueuePayout(p) ==
    /\ request[p] = "inserted"
    /\ Enqueue(PayJob(p), DefaultQueue, PayoutAttempts, "past", NoKey)
    /\ request' = [request EXCEPT ![p] = "enqueued"]
    /\ UNCHANGED <<run, saved, payouts, money, told, overtaken, troubles>>

\* The enqueue errs: the row stays, without a job, and nothing tries again.
RefuseRequest(p) ==
    /\ "error" \in Faults /\ Trouble
    /\ request[p] = "inserted"
    /\ request' = [request EXCEPT ![p] = "refused"]
    /\ UNCHANGED <<jobs, run, saved, payouts, money, told, overtaken>>

\* Operators and time.  A replay runs the workflow again for the same payout,
\* under a job of its own, also beside the job it copies.
Operator(j) ==
    /\ Trouble
    /\ \/ Cancel(j) \/ RetryDeadLetter(j)
       \/ \E c \in Copy \ {Original} : Replay(j, <<j[1], j[2], c>>)
    /\ UNCHANGED <<run, saved, payouts, request, money, told, overtaken>>

Attended(j) == \E s \in Slot : Running(s, j) /\ Owns(s)

TimePasses(j) ==
    /\ \/ ComesDue(j) /\ UNCHANGED troubles
       \/ LeaseExpires(j) /\ ~Attended(j) /\ UNCHANGED troubles
       \/ LeaseExpires(j) /\ Attended(j) /\ "stall" \in Faults /\ Trouble
    /\ UNCHANGED <<run, saved, payouts, request, money, told, overtaken>>

LagElapses(p) ==
    /\ transfer[p] = "early"
    /\ transfer' = [transfer EXCEPT ![p] = "due"]
    /\ UNCHANGED <<jobs, run, saved, payouts, request, balance, entries, attempts,
                   told, overtaken, troubles>>

Sweep ==
    /\ \E S \in SUBSET Job : DeadLetterExhausted(S)
    /\ UNCHANGED <<run, saved, payouts, request, money, told, overtaken, troubles>>

-----------------------------------------------------------------------------
PayInit ==
    /\ Init
    /\ run = [s \in Slot |-> Idle]
    /\ saved = {}
    /\ payouts = [p \in Payout |-> [status |-> "absent", scenario |-> "none"]]
    /\ request = [p \in Payout |-> "none"]
    /\ balance = Opening
    /\ entries = {}
    /\ transfer = [p \in Payout |-> "none"]
    /\ attempts = [p \in Payout |-> 0]
    /\ told = [p \in Payout |-> {}]
    /\ overtaken = {}
    /\ troubles = 0

Proceed(s) ==
    \/ LoadStep(s) \/ SaveStep(s) \/ FindHold(s) \/ Reserve(s) \/ LookUp(s)
    \/ RecordAttempt(s) \/ SendTransfer(s) \/ ScheduleSettlement(s)
    \/ MarkSubmitted(s) \/ AbandonRelease(s) \/ AbandonMark(s) \/ AbandonTell(s)
    \/ CheckStatus(s) \/ ReleaseFunds(s) \/ PostLedger(s) \/ Notify(s) \/ Close(s)
    \/ Finish(s)

Claims == \E s \in Slot, j \in Job : ClaimJob(s, j)

PayNext ==
    \/ Claims \/ Sweep
    \/ \E s \in Slot : Proceed(s) \/ Errs(s)
    \/ \E w \in Worker : Crash(w)
    \/ \E p \in Payout : InsertPayout(p) \/ EnqueuePayout(p) \/ RefuseRequest(p) \/ LagElapses(p)
    \/ \E j \in Job : Operator(j) \/ TimePasses(j)

PaySpec == PayInit /\ [][PayNext]_payVars

-----------------------------------------------------------------------------
(***************************************************************************)
(* What the service guarantees.                                            *)
(***************************************************************************)
\* The tables and the runs are well formed.
PayTypeOK ==
    /\ run \in [Slot -> RunState]
    /\ saved \subseteq Job \X (PayoutSteps \cup SettleSteps)
    /\ payouts \in [Payout -> [status : {"absent", "pending", "submitted", "failed", "paid", "returned"},
                              scenario : {"none", "ordinary", "flaky", "returned", "rejected"}]]
    /\ request \in [Payout -> {"none", "inserted", "enqueued", "refused"}]
    /\ entries \subseteq Payout \X {"hold", "post", "release"}
    /\ transfer \in [Payout -> {"none", "early", "due", "settled", "returned"}]
    /\ attempts \in [Payout -> 0..FlakyFailures + 1]
    /\ told \in [Payout -> SUBSET {"failed", "returned", "paid"}]

\* Money is neither made nor lost: however often the steps of a payout run, in
\* however many runs at once, the account is debited once per hold, credited
\* once per release, and never overdrawn.
Total(kind) == MapThenSumSet(LAMBDA p : Amount[p], {p \in Payout : Booked(p, kind)})

Conserved == balance >= 0 /\ balance = Opening - Total("hold") + Total("release")

Gone(p) == transfer[p] \in {"early", "due", "settled"}
Held(p) == Booked(p, "hold") /\ ~Booked(p, "release")

\* Money the rail moves is money the ledger holds, whatever crashes, is retried
\* and is replayed: no hold is missing or released under a transfer that was not
\* returned.  It needs that no two runs of the payout workflow overlap, be it by
\* a steal or by a replay beside its original: a run that was overtaken may
\* release the hold of the one that overtook it.
CoveredIfSerial == \A p \in Payout : Gone(p) /\ p \notin overtaken => Held(p)

\* What the customer is told and shown is what happened at the rail, and stays
\* so: a settled transfer stays settled although a stale run submits it again.
TruthTold ==
    \A p \in Payout :
        /\ Booked(p, "post") \/ "paid" \in told[p] => transfer[p] = "settled"
        /\ "returned" \in told[p] => transfer[p] = "returned" /\ Booked(p, "release")
        /\ payouts[p].status = "paid" => Booked(p, "post")

\* Held money is never forgotten: until it is posted or released there is a
\* job that will see to it, or one an operator finds dead-lettered or canceled,
\* also when the payout job ends or is lost between the transfer and the
\* settlement it schedules.
HeldMoneyIsWatched ==
    \A p \in Payout :
        Held(p) => \/ Booked(p, "post")
                   \/ \E j \in {PayJob(p), SettleJob(p)} :
                         Active(jobs[j]) \/ jobs[j].status \in {"dead_letter", "canceled"}

\* examples/payments/ledger.go of ErrInsufficientFunds, the one refusal a payout
\* without a rejected destination can meet: "the same request will be refused
\* the same way on every attempt".  So a refused payout is never sent.
RefusedAlike ==
    \A p \in Payout :
        payouts[p].scenario = "ordinary" /\ "failed" \in told[p] => transfer[p] = "none"
=============================================================================
