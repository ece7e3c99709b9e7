------------------------------ MODULE Console ------------------------------
(***************************************************************************)
(* The dashboard and the list endpoints over the tables: pages that are    *)
(* put together from several statements, or from several requests, while   *)
(* workers, clients, operators and retention go on.                        *)
(*                                                                         *)
(* One browser is followed, with one page open at a time.  Each statement  *)
(* of a handler is a step.  Its buttons are the requests of History.tla:   *)
(* the store decides on them again, whatever the page still shows.         *)
(***************************************************************************)
EXTENDS History, Sequences, FiniteSetsExt

CONSTANTS
    BornAt,         \* the order of (created_at, id)
    UiJobsLimit     \* rows of a page of the job list (100 in the code)

\* created_at is the start of the inserting transaction: a job may appear after
\* younger ones.  Finitely many jobs are in finitely many queues.
ASSUME ConsoleAssumption ==
    /\ BornAt \in [Job -> Nat \ {0}]
    /\ \A i, j \in Job : BornAt[i] = BornAt[j] => i = j
    /\ UiJobsLimit \in 1..100
    /\ IsFiniteSet(Queue)

VARIABLE page       \* what the browser waits for or shows

consoleVars == <<histVars, page>>

Blank == [kind |-> "blank"]

\* The next statement of a page's handler, or that it is shown.
At(kind, next) == page.kind = kind /\ page.next = next

-----------------------------------------------------------------------------
(***************************************************************************)
(* Reads of the store.                                                     *)
(***************************************************************************)
ListLimit(n) == IF n <= 0 \/ n > 100 THEN 50 ELSE n

BugOlder(j, cursor) == cursor = 0 \/ BornAt[j] <= cursor

\* The keyset cursor; 0 is none.
Older(j, cursor) == cursor = 0 \/ BornAt[j] < cursor

NoFilter == ""

Matching(status) == {j \in Job : Exists(jobs[j]) /\ (status = NoFilter \/ jobs[j].status = status)}

\* The youngest n rows; a page shows them youngest first.
List(status, cursor, n) ==
    LET rows == {j \in Matching(status) : Older(j, cursor)}
    IN  {j \in rows : Cardinality({i \in rows : BornAt[i] > BornAt[j]}) < ListLimit(n)}

QueueDepth == [q \in Queue |-> [s \in Status |->
                  Cardinality({j \in Job : jobs[j].queue = q /\ jobs[j].status = s})]]

ParkedCount == Cardinality({j \in Job : jobs[j].status \in Waiting /\ jobs[j].runAfter = "ahead"})

-----------------------------------------------------------------------------
(***************************************************************************)
(* uiJob: the row, its events, steps and signals.                          *)
(***************************************************************************)
BugJobReads == <<"steps", "events", "signals">>

\* Store.Get's second statement, ListSteps, ListSignals.
JobReads == <<"events", "steps", "signals">>

Rows(j, what) ==
    CASE what = "events" -> events[j] [] what = "steps" -> steps[j] [] what = "signals" -> signals[j]

OpenJob(j) ==
    /\ page = Blank
    /\ Exists(jobs[j])
    /\ page' = [kind |-> "job", next |-> JobReads[1], job |-> j,
                status |-> jobs[j].status, attempt |-> jobs[j].attempt,
                events |-> NoEvents, steps |-> {}, signals |-> 0, deleted |-> FALSE]

AfterRead(what) ==
    LET n == CHOOSE i \in 1..3 : JobReads[i] = what
    IN  IF n < 3 THEN JobReads[n + 1] ELSE "shown"

ReadJob ==
    /\ page.kind = "job" /\ page.next # "shown"
    /\ page' = [page EXCEPT ![page.next] = Rows(page.job, page.next),
                            !.next = AfterRead(page.next)]

\* buildTimeline: the types of events that are worth a line; the raw list below
\* it has them all.
TitleOf(e) ==
    CASE e = "suspended" -> "Waiting"
      [] e \in {"failed_retrying", "failed_dead_letter"} -> "Attempt failed"
      [] e = "dead_lettered" -> "Dead-lettered"
      [] e = "dlq_retried" -> "Retried from dead letter"
      [] e = "canceled" -> "Canceled"
      [] e = "succeeded" -> "Succeeded"
      [] OTHER -> "none"

\* How many lines of a title the page shows.
Timeline(title) ==
    CASE title = "Step" -> Cardinality(page.steps)
      [] title = "Signal" -> page.signals
      [] OTHER -> MapThenSumSet(LAMBDA e : page.events[e], {e \in EventType : TitleOf(e) = title})

(***************************************************************************)
(* uiJobs, and its link to older rows, followed to the end.                *)
(***************************************************************************)
OpenList(status) ==
    /\ page = Blank
    /\ page' = [kind |-> "list", next |-> "rows", status |-> status, cursor |-> 0,
                listed |-> <<>>, stayed |-> Matching(NoFilter)]

\* The link is there when the page is full.
ReadList ==
    /\ At("list", "rows")
    /\ LET rows == List(page.status, page.cursor, UiJobsLimit)
           last == CHOOSE j \in rows : \A i \in rows : BornAt[j] <= BornAt[i]
       IN  page' = [page EXCEPT
                       !.listed = Append(@, rows),
                       !.cursor = IF rows = {} THEN @ ELSE BornAt[last],
                       !.next = IF Cardinality(rows) = UiJobsLimit THEN "rows" ELSE "shown"]

(***************************************************************************)
(* uiOverview: depths, the latest jobs, the dead letters, the parked count. *)
(***************************************************************************)
OpenOverview ==
    /\ page = Blank
    /\ page' = [kind |-> "overview", next |-> "jobs", depths |-> QueueDepth,
                jobs |-> {}, attention |-> {}, parked |-> 0]

ReadOverview ==
    /\ page.kind = "overview" /\ page.next # "shown"
    /\ page' = CASE page.next = "jobs" ->
                       [page EXCEPT !.next = "attention", !.jobs = List(NoFilter, 0, 12)]
                 [] page.next = "attention" ->
                       [page EXCEPT !.next = "parked", !.attention = List("dead_letter", 0, 10)]
                 [] page.next = "parked" ->
                       [page EXCEPT !.next = "shown", !.parked = ParkedCount]

BugIsParked(row) == row.status = "queued" /\ row.runAfter = "ahead"

\* The template's own idea of a parked job, evaluated row by row.
IsParked(row) == row.status \in Waiting /\ row.runAfter = "ahead"

\* (The seventh, 'failed', has no rows.)
DashboardStatuses == Waiting \cup {"running"} \cup Terminal

\* buildOverview: a queue's total, and a tile over all queues.
QueueTotal(q) == MapThenSumSet(LAMBDA s : page.depths[q][s], DashboardStatuses)
Tile(s) == MapThenSumSet(LAMBDA q : page.depths[q][s], Queue)

CloseTab == page # Blank /\ page.next = "shown" /\ page' = Blank

-----------------------------------------------------------------------------
ConsoleInit == HistInit /\ page = Blank

Browse ==
    /\ \/ \E j \in Watched : OpenJob(j)
       \/ ReadJob
       \/ \E status \in {NoFilter, "dead_letter"} : OpenList(status)
       \/ ReadList
       \/ OpenOverview
       \/ ReadOverview
       \/ CloseTab
    /\ UNCHANGED histVars

\* What the properties need to know of the tables while a page is read.  An
\* overview promises nothing across a change of the tables: it is let go.
Observed ==
    CASE page.kind = "list"     -> [page EXCEPT !.stayed = {j \in @ : Exists(jobs'[j])}]
      [] page.kind = "job"      -> [page EXCEPT !.deleted = @ \/ ~Exists(jobs'[page.job])]
      [] page.kind = "overview" -> IF jobs' = jobs THEN page ELSE Blank
      [] OTHER                  -> page

ConsoleNext == Browse \/ (HistNext /\ page' = Observed)

ConsoleSpec == ConsoleInit /\ [][ConsoleNext]_consoleVars

-----------------------------------------------------------------------------
(***************************************************************************)
(* What an operator may conclude from a page.                              *)
(***************************************************************************)
\* A job page is as new as its row, although each part of it is read later:
\* its events tell of every attempt the row counts, its timeline has a line for
\* the failure that a retrying or dead job shows and for all the steps and
\* signals the events announce, and nothing but deletion between the reads
\* makes it incomplete.
PageNotBehind ==
    page.kind = "job" /\ page.next = "shown" /\ ~page.deleted =>
        /\ page.attempt <= page.events["claimed"]
        /\ page.status = "retrying" => Timeline("Attempt failed") > 0
        /\ page.status = "dead_letter" =>
              Timeline("Attempt failed") + Timeline("Dead-lettered") > 0
        /\ page.events["step_completed"] <= Timeline("Step")
        /\ page.events["signaled"] <= Timeline("Signal")

\* Following "older" from page to page lists no job twice and in one order, and
\* misses no job that was there all the time, although jobs appear (also among
\* the older ones), move between statuses and are deleted on the way.
WalkComplete ==
    page.kind = "list" =>
        /\ \A m, n \in 1..Len(page.listed) :
              m < n => \A i \in page.listed[m], j \in page.listed[n] : BornAt[i] > BornAt[j]
        /\ page.status = NoFilter /\ page.next = "shown"
              => page.stayed \subseteq UNION {page.listed[m] : m \in 1..Len(page.listed)}

\* The overview's numbers come from four statements and two notions of parked
\* that the code keeps in step by hand.  When no row changed between the reads
\* they agree: every job is in its queue's total, the lists are cut off only
\* when their totals are beyond 12 and 10, and the parked tile counts no row
\* less than the list beside it shows as parked, and none more when the list
\* is complete.
OverviewAgrees ==
    page.kind = "overview" /\ page.next = "shown" =>
        LET total  == MapThenSumSet(QueueTotal, Queue)
            dead   == Tile("dead_letter")
            parked == Cardinality({j \in page.jobs : IsParked(jobs[j])})
        IN  /\ Cardinality(page.jobs) = IF total <= 12 THEN total ELSE 12
            /\ Cardinality(page.attention) = IF dead <= 10 THEN dead ELSE 10
            /\ parked <= page.parked
            /\ total <= 12 => page.parked = parked
=============================================================================
