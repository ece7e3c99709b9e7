# workrail, specified

TLA+ modules, TLC configurations and TLAPS proofs for workrail, a durable
workflow engine in Go on one PostgreSQL database. The specifications are
translated from the code; where the code and its documentation disagree, a run
shows it (see *Where the code and its documentation disagree*).

Run anything from this directory:

    tlc -config JobStore.cfg MCJobStore.tla      # model-check
    tlapm JobStoreProofs.tla                     # check proofs

## 1. The system

| Component | Source | State | Operations |
|---|---|---|---|
| Jobs table | `internal/store/postgres/store.go`, `internal/engine/job.go`, `migrations/001`, `007` | one row per job: status, queue, attempt, max_attempts, run_after, lease (owner, deadline), wake_version, idempotency key | Enqueue, Claim, Heartbeat, Suspend, Signal, Complete, Fail, Cancel, RetryDeadLetter, Replay, DeadLetterExhausted, PruneCompleted |
| Worker runtime | `internal/engine/worker.go` | slots (a semaphore of Concurrency), one goroutine and one heartbeat goroutine per running job, two tickers | claim loop, run a job, heartbeat, one final write, sweep, prune, drain |
| Durable steps | `internal/engine/steps.go`, `migrations/003` | `job_steps`: (job, name) to result | GetStep, SaveStep (first write wins) |
| Signals | `internal/engine/signal.go`, `migrations/005`, `006` | `job_signals`: mailbox rows with a serial id and an optional idempotency key | Signal, GetSignalAt, WaitSignalAt |
| Compensation | `internal/engine/compensate.go` | none in the database | look a job up, run the hook of its type, record an event |
| Timers, children | `internal/engine/sleep.go`, `children.go`, `migrations/008` | checkpoints; `parent_id` | Sleep, ExecuteChild |
| Registry, activities, sequences | `internal/engine/workflows.go`, `activities.go` | maps filled at start; checkpoint scopes | dispatch, ExecuteActivity, sequence |
| History | `job_events` in `store.go` | append-only rows | appendEvent, RecordEvent |
| Migrations | `internal/migrations` | `schema_migrations` | Up |
| API, dashboard, SDK, CLI | `internal/api`, `workrail.go`, `cmd/workrail` | none, except the dashboard's sign-in limiter | each handler is one store call |
| Configuration, metrics, redaction | `internal/config`, `observability`, `redact` | none that the engine reads back | |
| Payments example | `examples/payments` | accounts, ledger entries, payouts, bank transfers | reserve, submit, settle, release |

**How they interact.** Everything goes through the database. Clients and
operators (API, dashboard, SDK, CLI) and the workers never talk to each other:
a worker learns of a signal, a cancel or a steal only when a statement of its
own does not find the row it expected. A worker's loop claims rows with
`FOR UPDATE SKIP LOCKED`, starts a goroutine per row, and sweeps; a run calls
the store for every checkpoint and mailbox check; its heartbeat goroutine
extends the lease and cancels the run's context when the lease is gone; after
the workflow returns exactly one of Suspend, Fail and Complete is issued, and
Fail may call the compensation hook.

**What is hard.** Leases end without their owner noticing, so two executions of
one job overlap; a signal races the park of the run that just found no signal;
checkpoints are written after an ownership check that locks nothing; sequences
hand out signal ids in another order than transactions commit; a refused or
lost answer leaves a row to be recovered by time alone; attempts are charged
and given back by different statements; processes die between any two steps.

**What makes each component correct.**

* Jobs table: a live lease is exclusive; attempts are charged and returned so
  that no job runs more often than its budget or waits without an attempt left;
  a row has an owner and a deadline exactly while it runs; terminal jobs stay
  terminal unless an operator revives a dead one; dead ones are never pruned.
* Worker runtime: only the run that holds the latest claim writes the outcome;
  every abandoned job is taken up again or ended.
* Steps and signals: duplicate executions agree on every checkpoint; a
  checkpointed wait stands for a delivery; an acknowledged signal is in the
  mailbox, once per idempotency key, and wakes its waiter; waits consume the
  mailbox in order.
* Compensation: only dead jobs are unwound, each at least once unless a fault
  eats it, and at most once.
* Timers and children: every run of a parent watches the same child and sleeps
  to the same deadline; a name is enqueued once; a parent succeeds after its
  children; a parent that waits ends.
* History: each attempt, ending and revival of a job is in its trail, although
  some statements append their event after they have committed.
* Dashboard: a page put together from several statements is no older than its
  row, a walk over the pages of the job list is complete, and the overview's
  numbers agree.
* Payments: money is neither made nor lost; what the bank moves is held in the
  ledger; what a customer is told is what happened; held money is not forgotten.

`PROJECT.json` lists each hazard with its line and the properties that cover it.

## 2. The modules

    JobLifecycle <--implements-- JobStore <--implements-- Execution
                                    ^
            +-------------+---------+-+----------+----------+
            |             |           |          |          |
     SignalDelivery  Compensation  Children  Payments    History
                                                            ^
                                                            |
                                                         Console

(`JobLifecycle` is instantiated with a refinement mapping; the other arrows
upwards are EXTENDS.)

| Module | Models | State |
|---|---|---|
| `JobLifecycle` | the promise: each job is a small state machine with an account of attempts | `phase`, `budget`, `left` |
| `JobStore` | the jobs table, an action per SQL statement (or per transaction that changes rows) | `jobs` |
| `Execution` | the table composed with worker processes that run a workflow of signal waits | + `run`, `mail`, `saved`, `holder` (history) |
| `SignalDelivery` | one job's mailbox, statement by statement, with concurrent senders and runs | `jobs`, `sends`, `send`, `signals`, `saved`, `run`, `overlapped` (history) |
| `Compensation` | what follows a dead-lettering, in the run and in the loop of a worker | `jobs`, `work`, `reaped`, `comp`, `revivals`; `died`, `undone`, `lost` (history) |
| `Children` | a parent workflow that makes a list of ExecuteChild and Sleep calls, call by call | `jobs`, `run`, `saved`, `timers`, `elapsed`; `kids`, `succeeded` (history) |
| `Payments` | the payouts service: request, ledger, rail, both workflows, the worker | `jobs`, `run`, `saved`, `payouts`, `request`, `balance`, `entries`, `transfer`, `attempts`, `told`; `overtaken` (history) |
| `History` | the audit trail every statement leaves | `jobs`, `events`, `owed`, `steps`, `signals`, `written`; `forgiven` (history) |
| `Console` | the dashboard's pages and the list endpoint's paging over `History` | + `page` |
| `JobStoreProofs`, `ExecutionProofs`, `SignalProofs`, `CompensationProofs`, `ChildrenProofs`, `PaymentsProofs`, `HistoryProofs`, `ConsoleProofs` | theorems; `JobStoreProofs` also holds the lemmas about sums | |
| `MC*` | the instances TLC checks | |

**JobStore.** The effect of a statement on a row is an operator (`Claimed`,
`Suspended`, `Failed`, ..), its WHERE clause another (`Claimable`, `Parkable`,
`Exhausted`, ..), and the action is the guard and the update. Callers are as
general as SQL allows: any worker, any job, any wake version, at any time.
`now()` is not a number: a row says whether `run_after` and the lease deadline
are in the past or ahead, and `LeaseExpires` and `ComesDue` let time pass. That
loses the order in which rows are claimed (`ORDER BY run_after, created_at`),
which no property is about. SKIP LOCKED is the freedom to claim or sweep any
subset of the rows that qualify. An idempotent enqueue that hits an existing
row changes nothing but `updated_at`, so it is no step.

**Execution.** A slot's `pc` goes through the store calls of `WaitSignalAt` and
`RunStep` (`load`, `poll`, `recheck`, `check`, `insert`) to one final write.
`check` and `insert` are the two statements of SaveStep, a transaction that
locks nothing in between. The heartbeat goroutine is `Renew` and `LoseLease`;
after the context is canceled only SaveStep still works (it runs on
`context.WithoutCancel`). `Faults` says what may go wrong: `crash` (the process
dies and restarts with the same id), `stall` (heartbeats fail or are late, a
shutdown cancels the context), `error` (a store call fails, the workflow returns
an error, plain or permanent, or a claim's answer is lost). A shutdown that
drains is a worker that happens not to claim.

**SignalDelivery.** Signal's transaction is split at the points other
transactions can see at READ COMMITTED: the insert (draws the id), the last
UPDATE (takes the job's row lock, so its effect and the commit are one step), or
an UPDATE that hits no row and a commit of its own. The unique index blocks a
second insert of a key while the first is open. Rollbacks and lost answers let a
sender try again. The signal's foreign key (`migrations/005`) locks the job's
row `FOR KEY SHARE` until the commit: the statements that select the row
`FOR UPDATE` are held off (Fail waits; Claim and the sweep skip the row), plain
UPDATEs are not. The lock comes after the insert has looked at the job's status
(`SendLock` is a step of its own), so the job may be dead when it is locked and
be revived by a `dlq retry` before the commit. No worker can claim it until
then, though, and none can park it: a delivery that woke nobody is not slept on.

**Compensation.** `compensate` is its look-up and its hook, two steps with
anything in between. Answers may be lost, workers may crash, may lack the hook,
and operators may revive jobs. A hook that returns an error is one that ran:
its `job.compensation_failed` event (`compensate.go:54`) is only a record.

**Children.** A call is `RunStep` (the checkpointed identity: enqueue or
compute a deadline, check the owner, insert; first write wins) and a look
(`GetJob`, or the clock) that returns, fails, or parks. Children are rows like
any other: they are claimed, complete, fail, are canceled, revived and deleted
by retention at any time. A deadline is a number that elapses some time; that
the worker's clock and the database's differ is that `Elapses` and `TimerFires`
are independent. The workers share one clock: skew between two of them is left
out. A call in the frame of an activity has its own checkpoint, the
same idempotency key, and no queue (`ChildQueue`), as `pushFrame` leaves it.
Calls of one name in different activities therefore share one child;
`WatchesOne` and `SpawnedOnce` accept that, the documentation asks for names
unique in the workflow.

**Payments.** A slot walks the checkpointed steps of a workflow; inside a step
each transaction or autocommitted statement is an action. `Reserve` is its
look for a hold (no lock) and the rest under the account's lock; `Submit` is
look-up, attempt counter, insert. `abandon` is release, mark, tell. The worker
around it claims, finishes, crashes, errs, and stalls past its lease; operators
cancel, retry and replay. The HTTP request is a row and then an enqueue, which
may fail. A job is a payout, a workflow and a `Copy`: the original is identified
with its idempotency key (`payout:<id>`, `settle:<id>`), which is exact because
this worker deletes nothing; a replay has no key and checkpoints of its own, but
moves the money of the same payout id (`Pays`), and what it enqueues has the
original's key. A payout is `overtaken` once a run of its payout workflow began
while another one went on, be it of the same job (a steal) or of another (a
replay). A transfer
is `early` or `due` before it resolves. Here SaveStep is one action; its two
statements are `Execution`'s and `Children`'s subject.

**History.** A trail is a count per event type. A statement that appends its
event in its own transaction does both in one action (`Log`); Complete, Cancel,
RetryDeadLetter and Replay commit first and owe the event (`Owe`), which is
appended later, or lost with its caller (`AppendOwed`, `LoseOwed`). The
mutating HTTP endpoints are these actions.

**Console.** One browser, one page at a time; each statement of `uiJob`,
`uiJobs` and `uiOverview` is a step and the tables move between them. `stayed`
and `deleted` in the page remember what a property needs; an open overview is
let go when a row changes, since nothing is promised across a change. A job
page's list of children and its parent (`dashboard.go:449`, `462`) are left out.

## 3. The runs

| Run | Bounds | Result |
|---|---|---|
| `jobstore` | 2 ids, 2 workers, 2 queues, 1 key, budgets 1, 2 and 3, 1 wake | 230,740 states; all hold |
| `execution` | 1 job, 2 single-slot workers, 2 waits, 2 signals, 2 attempts, all faults, fairness | 200,314 states; all hold |
| `signal_delivery` | 3 senders (2 share a key), 2 ids drawn, 2 workers (symmetric), 2 waits | 1,677,000 states; all hold |
| `compensation` | 2 jobs, 2 workers (1 hooked), 2 attempts, crash and error, 1 revival, fairness | 305,322 states; all hold |
| `children` | a parent with 2 slots on 2 workers; a child in an activity, a timer, a child of the same name; room for 4 children; 4 deadlines, 2 faults or operator calls, fairness | 279,086 states; all hold |
| `payments` | 2 payouts of 1 unit on an account of 1, every scenario for the first and a rejected second, 2 workers (symmetric), 2 attempts, 1 flaky failure, 1 replay of each workflow, 1 fault or operator call | 1,098,562 states; all hold |
| `console` | 2 jobs, the younger watched, 1 worker, 1 step name, 6 events, pages of 1 row | 1,123,206 states; all hold |
| `refused_park`, `shared_worker_id`, `signal_order`, `compensation_once`, `hold_released` | as above, faults as stated below | violated, see section 5 |

Why the bounds are enough. Statements touch one row or a set of rows
independently, except for the idempotency key and Replay, which relate two; two
ids cover both, and batches. Two workers are an owner and a thief; a third adds
no relation between a run and a row that two do not have. Two attempts give a
job a first attempt that is retried or stolen and a last one that is not. Two
waits are needed for a wait that finds an older delivery consumed, two signals
for their order, a third sender for a duplicate that overlaps an unrelated one.
One revival lets a job die twice. Two calls of one name, in and out of an
activity, share a child, and a timer between them lets the parent park, be
stolen and deleted; a fourth child id is one more than retention makes the run
use. Two payouts compete for one unit, so the refusal, the return of the money
and its reuse all occur; one fault suffices for an overlap, a crash between any
two steps, or an operator's retry. (The pair of a canceled and a retried job, or
two crashes, is left to the proofs, and so is a replay with a fault.) One replay
beside its original is the overlap of two jobs; a replay of a replay differs in
nothing the code looks at. `FlakyFailures` is 1 instead of 2, which
keeps a first call that fails and a second that does not. Six events see a job
claimed, failed, revived and ended while a page is read. A page of one row makes
a walk of several pages out of two jobs; the overview's cut-offs (12 and 10
rows) are not reached with two, and are left to `OverviewsAgree`.

The proofs of section 4 remove these bounds for every safety property of every
passing run.

Deadlock is not checked anywhere: all jobs may have ended, or the bounds on
signals, faults and events be used up, and then nothing is left to do.

**Properties.** One type invariant per module. The others:

* Jobs table: `AttemptBudget`, `RunningIsDue`, `LeaseIffRunning`,
  `LiveLeaseIsKept`, `ImplementsLifecycle`.
* Execution: `NoLostWakeup` (no job naps while its mailbox holds a signal it
  waits for), `ConsumedDelivered`, `WritesAreFenced`, `LiveRunEndsItself` (a run
  with a live lease is ended by a cancel or by a final write of its own worker;
  `LiveLeaseIsKept` says who may hold the row while it stays running, this one
  who may end it), `Settles` (a job whose signals are delivered ends).
* Signals: `DeliveredOnce`, `NoDeliverySlept` (no waiter sleeps on a signal it
  could read), `RunsAgree`, `InOrderIfSerial`.
* Compensation: `OnlyTheDead`, `EventuallyUnwound`.
* Children: `WatchesOne` (runs that overlap or follow one another agree on the
  child or deadline of a call), `SpawnedOnce` (the window between the enqueue
  and its checkpoint makes no second child, unless retention deleted the first),
  `SucceedsOnChildren`, `ParentEnds`.
* Payments: `Conserved` (the balance is the opening balance less the holds plus
  the releases, and never negative), `CoveredIfSerial` (a transfer that is out
  has its hold, unless runs of the payout workflow have overlapped), `TruthTold` (a
  posting or a notice agrees with the rail, for good), `HeldMoneyIsWatched`
  (held money has a job, or an operator, that will see to it).
* History: `AttemptsExplained` (attempts charged are claims less refunds and
  write-offs), `EndingsStand` (a success or a cancel in the trail is final),
  `OneRevivalPerDeath`.
* Console: `PageNotBehind`, `WalkComplete`, `OverviewAgrees`.

Every one of them has a mutant: a `Bug...` operator beside a definition, which
changes it the way a slip in that statement would, and which makes TLC find the
property violated. (`BugParkableUnfenced`, for instance, is Suspend without
`AND wake_version = $4`, the state of the code before migration 007.)

**Fairness.** Three liveness properties are checked, each under the weak
fairness its code has a reason for; nothing is assumed of faults, clients,
signals, operators, retention or heartbeats.

* `FairExecSpec`: what a run does by itself, each worker's claiming, the sweep,
  and time. Goroutines are scheduled, store calls return within their
  five-second timeout, the loop polls by ticker, deadlines pass. Claiming is
  weakly fair because an unclaimed row stays claimable until somebody claims,
  cancels or wakes it.
* `FairCompSpec`: look-ups and hooks go on.
* `FairChildSpec`: the same as for `Execution` of the parent; a child that can be
  claimed is claimed, a child's workflow returns, leases and timers run out,
  deadlines pass. The runs' bounds on faults make failures finite, which the
  attempts' budget does as well.

## 4. The proofs

Checked by TLAPS for every set of jobs, workers, slots, queues, keys, payouts,
senders and calls, every budget and every bound, from the named assumptions on
the constants in the modules.

| Theorem | States |
|---|---|
| `TypeCorrect`, `BudgetKept`, `RunningDue`, `LeaseOwned` | the invariants of `JobStore` |
| `LeaseKept` | `LiveLeaseIsKept` |
| `StoreImplementsLifecycle` | the table implements `JobLifecycle` |
| `ExecTypeCorrect`, `WakeupsKept`, `CheckpointsSound` | the invariants of `Execution` |
| `ExecImplementsStore` | `Execution` implements `JobStore` with the identity mapping, so every theorem about the table holds of the composition |
| `LiveRunsKept` | `LiveRunEndsItself`, shared worker ids included |
| `FinalWritesFenced`, `ParksFenced` | `WritesAreFenced` and `ParkIsFenced`, provided no two slots share a worker id |
| `DeliveryTypeCorrect`, `DeliveryOnce`, `WaiterAwake`, `ExecutionsAgree`, `InOrder` | the invariants of `SignalDelivery` |
| `CompTypeCorrect`, `OnlyDeadUnwound` | the invariants of `Compensation` |
| `ChildTypeCorrect`, `WatchedOne`, `SpawnOnce`, `SuccessEarned` | the invariants of `Children` |
| `PayTypeCorrect`, `MoneyConserved`, `ToldTrue`, `TransfersCovered`, `HoldsWatched` | the invariants of `Payments` |
| `HistTypeCorrect`, `AttemptsAccounted`, `EndingsFinal`, `RevivalsBounded` | the invariants of `History` |
| `JobPageExplains`, `WalksComplete`, `OverviewsAgree` | `PageNotBehind`, `WalkComplete`, `OverviewAgrees` of `Console` |
| `HistImplementsStore`, `PayImplementsStore` | `History` and `Payments` implement `JobStore`, as `Execution` does |
| `ConsoleImplementsHistory` | `Console` implements `History` |
| `DeliveryKeepsTable`, `CompKeepsTable`, `ChildKeepsTable` | `TableKept` of the components that start with jobs in the table: its budgets, leases and due times hold, and rows take lifecycle steps only |

The arguments:

* *The table.* `RowOK` is inductive for a single row: a waiting row has an
  attempt left; a running one has been charged between 1 and max, is due and is
  owned. `AttemptBudget` alone is not inductive: that a park leaves an attempt
  to spend needs `attempt >= 1` while running, which needs the link between
  status and charge. Each statement's effect on a row is a lemma, and
  `StoreInvNext` lifts them to the table. Steps are treated alike:
  `Follows(old, new)` relates a row to its successor, and `FollowsNext` says
  that every statement makes every row follow. A component on top of the table
  has only to show that its steps are statements of the table (or leave it
  alone) to inherit the leases, the budgets and the lifecycle; `KeepsTable`
  turns that into `TableKept`. Most statements are
  `Calm`: they neither create, delete nor complete a row and keep its key; the
  modules on top of the table use that instead of the statements.
* *The fence.* `FenceInv`: a busy slot whose worker owns the row is the one that
  claimed last. It is inductive only if a worker id belongs to one slot; without
  that assumption it is false, which is what `shared_worker_id` shows.
* *Wake-ups.* `WakeInv` relates each run to its row: the wake version a run
  holds is at most the row's; a run about to park with the current version has
  seen every delivery (`mail <= at`); a run at wait `at` has all earlier
  checkpoints. When Suspend's fence passes, the mailbox therefore holds nothing
  the job still waits for. Neither the lease nor the worker id is needed, so the
  theorem holds with shared worker ids as well.
* *Signals.* The reader addresses the mailbox by position, so the lemmas are
  about positions (the number of rows before a row): they are unique, leave no
  gap, and stay when a row with a greater id is added. `Posted` relates a
  sender's progress to its row, `Awake` a delivery to the job's wake version: an
  owner about to park with the current version still finds its position empty,
  because a delivery that woke the job moved the version, and while one that
  missed it is uncommitted the job is neither running nor asleep, and cannot be
  claimed. `Ordered` relates positions to waits while no two sends have overlapped.
* *Compensation.* `Mourned`: who is about to be unwound has died, and what says
  dead has been counted. A look-up may be stale, but `died` only grows.
* *Children.* `Family`: a child keeps its key while it exists, so a second
  enqueue of its name finds it. `Sound`: a run that looks has its call's
  checkpoint, and all calls behind it are done, by the `succeeded` and `elapsed`
  sets that only grow. Deleting the parent voids both, so the invariant is
  conditional on the parent's existence, which a checkpoint's insert tests.
* *Payments.* The ledger, transfers and jobs only grow (`Grows`), so what a run
  has behind it (`RunOK`: a hold before a submission, a settled transfer before a
  posting, ..) survives other runs' steps, crashes and retries; `Saves` carries
  it across runs. What only a run alone can rely on (`Alone`: no transfer is
  there before it sends one; the hold it abandons belongs to a rejected payout)
  holds while the payout is not `overtaken`, and `Serial` says that then no
  second run of its payout workflow exists, in whichever of its jobs. A replay
  exists only beside its original (`Originated`). `Money` is the resulting account of one payout.
* *Money.* `Conserved` adds up amounts with a fold that takes the elements of a
  set in an unknown order. That the result does not depend on the order, and
  that one more element adds its amount (`SumAdds`), is proved by a smallest
  counterexample: strict inclusion is well founded on finite sets, so a set of
  counterexamples has a minimal member, and taking one element out of it
  contradicts it. `Balanced` then adds to `Conserved` that finitely many
  payouts have entries; each of the four steps that book anything is one case of
  `EntryAdds`. Nothing else about the runs is needed, so it holds through every
  overlap.
* *History.* `TrailOK` is a predicate on a row and its counts. The properties
  alone say nothing of an id without a row; that such an id has a clean trail
  makes them inductive. Cardinalities need finitely many jobs.

* *Console.* A page is read while the tables move, so `PageOK` relates what has
  been read to what the tables hold now. For a walk it is the cursor: everything
  listed is at or above it, every job that stayed and is above it has been
  listed (`WalkOK`). A list is the youngest rows below the cursor (`Top`), which
  are closed upwards, so the next cursor splits the jobs again; that a page with
  fewer rows than its limit is the last one needs the count (`TopSize`). For a
  job page it is the history: between two reads a job's counts only grow, a
  checkpoint or a signal together with its event, and a job that newly waits for
  a retry has a new failure (`Continues`), or retention deletes them all
  (`Vanishes`); `GoesNext` shows this of every step of `History`. Hence what is
  read later explains what was read before it, and the order of `JobReads`
  matters. The overview's sums over queues and statuses are counts of jobs by
  class (`CountByClass`), and `RowStatuses` says that the statuses the dashboard
  lists are those a row can have. `ConsoleAssumption` takes the queues to be
  finitely many, as there are finitely many jobs.

Only model-checked: liveness (`Settles`, `EventuallyUnwound`, `ParentEnds`),
which needs fairness and ENABLED, and the five violations of section 5, which
are counterexamples.

## 5. Where the code and its documentation disagree

Each of these runs checks one property that states what the repository says,
and TLC finds it violated.

1. `refused_park` (`WaitingIsFree`). "none consume retry attempts"
   (`docs/workflows.md:60`). A signal that beats the park makes Suspend refuse;
   the run then writes nothing at all, the job stays `running` until its lease
   expires, and the steal charges an attempt. No fault is involved. A job on its
   last attempt is dead-lettered by the sweep instead.
2. `shared_worker_id` (`ParkIsFenced`). A lease steal is said to make Suspend
   report false (`internal/engine/store.go:22`). Slots of one worker, and by
   default all workers of a host, share `lease_owner`, and a steal does not move
   `wake_version`: a stale run parks the job under the new run.
3. `signal_order` (`EachDeliveryOnce`). "a workflow can read a stream of signals
   in order" (`docs/workflows.md:69`). Two sends that overlap may commit in the
   opposite order of their ids; the mailbox shifts under the reader, one signal
   is consumed by two waits and the other by none. Without overlap the order is
   kept: `InOrderIfSerial` holds.
4. `compensation_once` (`UnwoundOnce`). "it runs once when a job of that type
   dead-letters" (`docs/workflows.md:99`). `compensate` is called after every
   recorded failure and decides by a later read; a slow run of an earlier
   attempt and the run that dead-letters the job both execute the hook.

5. `hold_released` (`RefusedAlike`). "the same request will be refused the same
   way on every attempt" (`examples/payments/ledger.go:12`). Reserve looks for
   its payout's hold before it locks the account. A run whose lease lapsed in
   between meets the balance its successor has debited, is refused, and abandons
   the payout: it releases the successor's hold and reports a failure, while the
   successor submits the transfer. A replay beside a payout that still runs
   does the same with no fault at all. Without overlap it cannot happen:
   `CoveredIfSerial` holds, and is proved.

Met while modelling, without a run of their own:

* "The child runs on the parent's queue" (`internal/engine/children.go`,
  `docs/workflows.md:93`): `pushFrame` (`internal/engine/activities.go:29`)
  copies the runner without its queue, so a child started inside an activity
  goes to the default queue, and waits forever where no worker serves that.
  `Children` has it (`ChildQueue`); its run serves both queues.
* A payout form submitted twice is two payouts
  (`examples/payments/http.go:44`): the id is made by the server, so the
  idempotency key protects the enqueue and not the request. Two payouts of one
  amount are two members of `Payout`.
* `Backoff` (`internal/engine/job.go:136`) shifts by `attempt - 1`: at attempt
  35 the product with a second wraps around 64 bits to a negative delay, before
  it is capped, so the retry is due at once; `docs/workflows.md:44` says "A
  failed attempt is retried with exponential backoff until `max_attempts` is
  spent". A delay is `ahead` until `ComesDue` in the models, and no run depends
  on its length.

## 6. What is not modelled, and why

* Values: payloads, results, error texts, trace ids, timestamps for display.
* Clock arithmetic: heartbeat interval, lease length, the two timers of a drain
  and the five-second timeouts are abstracted to "a lease may lapse under its
  owner" (`stall`) and "a context may be canceled".
* The registry's dispatch and the sequence workflow: a map filled at start, and
  a list of checkpointed steps, which `Children` and `Payments` walk.
* Migrations: one transaction under an advisory lock at start.
* Of the HTTP API and the dashboard: routing, decoding, tokens, sign-in with its
  limiter, redaction, markup.
* SDK, CLI, configuration, metrics, the embedded example: stateless wrappers.
  The default worker id (the host name) is the constant `WorkerOf` of
  `Execution` and `Payments`.
* Of the payments example: the list page, form decoding, seeding.

## 7. Plan

Done, in this order: `JobLifecycle`, `JobStore`, `Execution`, `SignalDelivery`,
`Compensation`, `History`, `Console`, `Children`, `Payments`; the proofs of every
safety property of their passing runs, and that each of them uses the jobs table
as its statements do.

Left, the most valuable first:

1. How often a dead-lettered job can be unwound: `compensation_once` refutes
   "once", and a bound by the failures of the job would say how far off it is.
2. Payments with two faults, and with a real `FlakyFailures`, on a larger machine.
3. `Backoff` with 64-bit width and the drain's two timers, if the code grows
   something that depends on them.
