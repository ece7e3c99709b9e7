--------------------------- MODULE HistoryProofs ---------------------------
(***************************************************************************)
(* Proofs about the audit trail, for every set of jobs and workers, every  *)
(* budget and every bound.  A statement touches the trail of one job at a  *)
(* time, so the invariant is a predicate on a row and what was written     *)
(* about it (TrailOK); each kind of statement has a lemma about that.      *)
(***************************************************************************)
EXTENDS History, JobStoreProofs, FiniteSetTheorems

CountsOK(ev, ow, f) == ev \in [EventType -> Nat] /\ ow \in [After -> Nat] /\ f \in Nat

Said(ev, ow, e) == ev[e] + ow[e]

\* The properties say nothing of an id without a row: that such an id starts
\* with a clean trail makes them inductive.
TrailOK(row, ev, ow, f) ==
    /\ CountsOK(ev, ow, f)
    /\ row.status = "absent" =>
          /\ f = 0 /\ ev["claimed"] = 0 /\ ev["suspended"] = 0
          /\ Said(ev, ow, "dlq_retried") = 0
    /\ Exists(row) =>
          /\ row.attempt + f + ev["suspended"] = ev["claimed"]
          /\ Said(ev, ow, "succeeded") + Said(ev, ow, "canceled") <= 1
          /\ Said(ev, ow, "dlq_retried") <= Deaths(ev)
    /\ row.status = "dead_letter" => Said(ev, ow, "dlq_retried") < Deaths(ev)
    /\ Said(ev, ow, "succeeded") > 0 => row.status \in {"succeeded", "pruned"}
    /\ Said(ev, ow, "canceled") > 0 => row.status \in {"canceled", "pruned"}

HistInv ==
    /\ StoreInv
    /\ events \in [Watched -> [EventType -> Nat]]
    /\ owed \in [Watched -> [After -> Nat]]
    /\ forgiven \in [Watched -> Nat]
    /\ steps \in [Watched -> SUBSET StepName]
    /\ signals \in [Watched -> Nat]
    /\ written \in Nat
    /\ \A j \in Watched : TrailOK(jobs[j], events[j], owed[j], forgiven[j])

-----------------------------------------------------------------------------
\* The names of events, told apart.
LEMMA Names ==
    /\ {"claimed", "suspended", "failed_retrying", "failed_dead_letter", "dead_lettered",
        "enqueued", "idempotent_hit", "step_completed", "signaled"} \subseteq EventType
    /\ After \subseteq EventType
    /\ {"succeeded", "canceled", "dlq_retried", "replayed"} \subseteq After
BY DEF EventType, OwnTx, After

\* What one more event does to a count.
LEMMA Bump ==
    ASSUME NEW T, NEW c \in [T -> Nat], NEW e \in T
    PROVE  /\ [c EXCEPT ![e] = @ + 1] \in [T -> Nat]
           /\ [c EXCEPT ![e] = @ + 1][e] = c[e] + 1
           /\ \A g \in T : g # e => [c EXCEPT ![e] = @ + 1][g] = c[g]
OBVIOUS

\* The counts the invariant looks at are numbers.
LEMMA Numbers ==
    ASSUME NEW ev, NEW ow, NEW f, CountsOK(ev, ow, f)
    PROVE  /\ \A e \in EventType : ev[e] \in Nat
           /\ \A e \in After : ow[e] \in Nat
           /\ f \in Nat /\ Deaths(ev) \in Nat
BY Names DEF CountsOK, Deaths

\* An event no property counts may be added to a trail.
LEMMA NeutralOK ==
    ASSUME NEW row, NEW ev, NEW ow, NEW f, TrailOK(row, ev, ow, f),
           NEW e \in {"enqueued", "idempotent_hit", "step_completed", "signaled"}
    PROVE  TrailOK(row, [ev EXCEPT ![e] = @ + 1], ow, f)
<1> DEFINE ev2 == [ev EXCEPT ![e] = @ + 1]
<1>1. CountsOK(ev, ow, f)
  BY DEF TrailOK
<1>2. /\ ev2 \in [EventType -> Nat] /\ ev2["claimed"] = ev["claimed"]
      /\ ev2["suspended"] = ev["suspended"]
      /\ \A g \in After : ev2[g] = ev[g]
      /\ ev2["failed_dead_letter"] = ev["failed_dead_letter"]
      /\ ev2["dead_lettered"] = ev["dead_lettered"]
  BY <1>1, Names, Bump DEF CountsOK, After
<1> HIDE DEF ev2
<1>3. \A g \in {"succeeded", "canceled", "dlq_retried"} : Said(ev2, ow, g) = Said(ev, ow, g)
  BY <1>2, Names DEF Said
<1>4. Deaths(ev2) = Deaths(ev)
  BY <1>2 DEF Deaths
<1>5. CountsOK(ev2, ow, f)
  BY <1>1, <1>2 DEF CountsOK
<1>6. TrailOK(row, ev2, ow, f)
  BY <1>2, <1>3, <1>4, <1>5 DEF TrailOK
<1> QED
  BY <1>6 DEF ev2

\* A row that only changes what no property looks at keeps its trail.
LEMMA SameOK ==
    ASSUME NEW row, NEW r, NEW ev, NEW ow, NEW f, TrailOK(row, ev, ow, f),
           r.status = row.status, r.attempt = row.attempt
    PROVE  TrailOK(r, ev, ow, f)
BY DEF TrailOK, Exists

\* Enqueue and Replay: a new row.
LEMMA NewOK ==
    ASSUME NEW row, NEW r, NEW ev, NEW ow, NEW f, TrailOK(row, ev, ow, f),
           row.status = "absent", r.status = "queued", r.attempt = 0
    PROVE  TrailOK(r, ev, ow, f)
<1>1. CountsOK(ev, ow, f)
  BY DEF TrailOK
<1>2. /\ \A g \in {"succeeded", "canceled", "dlq_retried"} : Said(ev, ow, g) \in Nat
      /\ Deaths(ev) \in Nat
  BY <1>1, Names, Numbers DEF Said
<1>3. Said(ev, ow, "succeeded") = 0 /\ Said(ev, ow, "canceled") = 0
  BY <1>2 DEF TrailOK
<1> QED
  BY <1>1, <1>2, <1>3 DEF TrailOK

\* Claim: one attempt, one event.
LEMMA ClaimedTrail ==
    ASSUME NEW row, NEW r, NEW ev, NEW ow, NEW f, TrailOK(row, ev, ow, f),
           row.status \in Waiting \cup {"running"}, row.attempt \in Nat,
           r.status = "running", r.attempt = row.attempt + 1
    PROVE  TrailOK(r, [ev EXCEPT !["claimed"] = @ + 1], ow, f)
<1> DEFINE ev2 == [ev EXCEPT !["claimed"] = @ + 1]
<1>1. CountsOK(ev, ow, f) /\ Exists(row)
  BY DEF TrailOK, Exists, NoRow, Waiting
<1>2. /\ ev2 \in [EventType -> Nat] /\ ev2["claimed"] = ev["claimed"] + 1
      /\ ev2["suspended"] = ev["suspended"]
      /\ \A g \in After : ev2[g] = ev[g]
      /\ ev2["failed_dead_letter"] = ev["failed_dead_letter"]
      /\ ev2["dead_lettered"] = ev["dead_lettered"]
  BY <1>1, Names, Bump DEF CountsOK, After
<1> HIDE DEF ev2
<1>3. \A g \in {"succeeded", "canceled", "dlq_retried"} :
         Said(ev2, ow, g) = Said(ev, ow, g) /\ Said(ev, ow, g) \in Nat
  BY <1>1, <1>2, Names, Numbers DEF Said
<1>4. Deaths(ev2) = Deaths(ev)
  BY <1>2 DEF Deaths
<1>5. CountsOK(ev2, ow, f)
  BY <1>1, <1>2 DEF CountsOK
<1>6. Said(ev, ow, "succeeded") = 0 /\ Said(ev, ow, "canceled") = 0
  BY <1>3 DEF TrailOK, Waiting
<1>7. r.attempt + f + ev2["suspended"] = ev2["claimed"]
  BY <1>1, <1>2, Names, Numbers DEF TrailOK
<1>8. TrailOK(r, ev2, ow, f)
  BY <1>1, <1>3, <1>4, <1>5, <1>6, <1>7 DEF TrailOK
<1> QED
  BY <1>8 DEF ev2

\* Suspend: the attempt is refunded, and the event says so.
LEMMA SuspendedTrail ==
    ASSUME NEW row, NEW r, NEW ev, NEW ow, NEW f, TrailOK(row, ev, ow, f),
           row.status = "running", row.attempt \in Nat \ {0},
           r.status = "queued", r.attempt = row.attempt - 1
    PROVE  TrailOK(r, [ev EXCEPT !["suspended"] = @ + 1], ow, f)
<1> DEFINE ev2 == [ev EXCEPT !["suspended"] = @ + 1]
<1>1. CountsOK(ev, ow, f) /\ Exists(row)
  BY DEF TrailOK, Exists, NoRow
<1>2. /\ ev2 \in [EventType -> Nat] /\ ev2["claimed"] = ev["claimed"]
      /\ ev2["suspended"] = ev["suspended"] + 1
      /\ \A g \in After : ev2[g] = ev[g]
      /\ ev2["failed_dead_letter"] = ev["failed_dead_letter"]
      /\ ev2["dead_lettered"] = ev["dead_lettered"]
  BY <1>1, Names, Bump DEF CountsOK, After
<1> HIDE DEF ev2
<1>3. \A g \in {"succeeded", "canceled", "dlq_retried"} :
         Said(ev2, ow, g) = Said(ev, ow, g) /\ Said(ev, ow, g) \in Nat
  BY <1>1, <1>2, Names, Numbers DEF Said
<1>4. Deaths(ev2) = Deaths(ev)
  BY <1>2 DEF Deaths
<1>5. CountsOK(ev2, ow, f)
  BY <1>1, <1>2 DEF CountsOK
<1>6. Said(ev, ow, "succeeded") = 0 /\ Said(ev, ow, "canceled") = 0
  BY <1>3 DEF TrailOK
<1>7. r.attempt + f + ev2["suspended"] = ev2["claimed"]
  BY <1>1, <1>2, Names, Numbers DEF TrailOK
<1>8. TrailOK(r, ev2, ow, f)
  BY <1>1, <1>3, <1>4, <1>5, <1>6, <1>7 DEF TrailOK
<1> QED
  BY <1>8 DEF ev2

\* Fail and the sweep: a death has an event, a retry no death.
LEMMA FailedTrail ==
    ASSUME NEW row, NEW r, NEW ev, NEW ow, NEW f, TrailOK(row, ev, ow, f),
           row.status = "running", r.attempt = row.attempt,
           NEW e \in {"failed_retrying", "failed_dead_letter", "dead_lettered"},
           r.status = IF e = "failed_retrying" THEN "retrying" ELSE "dead_letter"
    PROVE  TrailOK(r, [ev EXCEPT ![e] = @ + 1], ow, f)
<1> DEFINE ev2 == [ev EXCEPT ![e] = @ + 1]
<1>1. CountsOK(ev, ow, f) /\ Exists(row)
  BY DEF TrailOK, Exists, NoRow
<1>2. /\ ev2 \in [EventType -> Nat] /\ ev2["claimed"] = ev["claimed"]
      /\ ev2["suspended"] = ev["suspended"]
      /\ \A g \in After : ev2[g] = ev[g]
  BY <1>1, Names, Bump DEF CountsOK, After
<1>3. Deaths(ev2) = IF e = "failed_retrying" THEN Deaths(ev) ELSE Deaths(ev) + 1
  BY <1>1, Names, Bump, Numbers DEF CountsOK, Deaths
<1> HIDE DEF ev2
<1>4. \A g \in {"succeeded", "canceled", "dlq_retried"} :
         Said(ev2, ow, g) = Said(ev, ow, g) /\ Said(ev, ow, g) \in Nat
  BY <1>1, <1>2, Names, Numbers DEF Said
<1>5. CountsOK(ev2, ow, f)
  BY <1>1, <1>2 DEF CountsOK
<1>6. Said(ev, ow, "succeeded") = 0 /\ Said(ev, ow, "canceled") = 0
  BY <1>4 DEF TrailOK
<1>7. Said(ev, ow, "dlq_retried") <= Deaths(ev) /\ Deaths(ev) \in Nat
  BY <1>1, Numbers DEF TrailOK
<1>8. r.attempt + f + ev2["suspended"] = ev2["claimed"]
  BY <1>1, <1>2 DEF TrailOK
<1>9. r.status # "absent"
  OBVIOUS
<1>10. Said(ev2, ow, "dlq_retried") <= Deaths(ev2)
       /\ (r.status = "dead_letter" => Said(ev2, ow, "dlq_retried") < Deaths(ev2))
  BY <1>3, <1>4, <1>7
<1>11. TrailOK(r, ev2, ow, f)
  BY <1>4, <1>5, <1>6, <1>8, <1>9, <1>10 DEF TrailOK
<1> QED
  BY <1>11 DEF ev2

\* Complete and Cancel: an active job has not been announced to have ended.
LEMMA EndedTrail ==
    ASSUME NEW row, NEW r, NEW ev, NEW ow, NEW f, TrailOK(row, ev, ow, f),
           Active(row), r.attempt = row.attempt,
           NEW s \in {"succeeded", "canceled"}, r.status = s
    PROVE  TrailOK(r, ev, [ow EXCEPT ![s] = @ + 1], f)
<1> DEFINE ow2 == [ow EXCEPT ![s] = @ + 1]
<1>1. CountsOK(ev, ow, f) /\ Exists(row)
  BY DEF TrailOK, Active
<1>2. /\ ow2 \in [After -> Nat] /\ ow2[s] = ow[s] + 1
      /\ \A g \in After : g # s => ow2[g] = ow[g]
  BY <1>1, Names, Bump DEF CountsOK
<1> HIDE DEF ow2
<1>3. \A g \in {"succeeded", "canceled"} :
         /\ Said(ev, ow, g) = 0
         /\ Said(ev, ow2, g) = IF g = s THEN 1 ELSE 0
  <2>1. \A g \in {"succeeded", "canceled"} : Said(ev, ow, g) \in Nat /\ ev[g] \in Nat /\ ow[g] \in Nat
    BY <1>1, Names, Numbers DEF Said
  <2>2. \A g \in {"succeeded", "canceled"} : Said(ev, ow, g) = 0
    BY <2>1 DEF TrailOK, Active, Terminal, NoRow, Exists
  <2> QED
    BY <1>2, <2>1, <2>2, Names DEF Said
<1>4. Said(ev, ow2, "dlq_retried") = Said(ev, ow, "dlq_retried")
  BY <1>2, Names DEF Said
<1>5. CountsOK(ev, ow2, f)
  BY <1>1, <1>2 DEF CountsOK
<1>6. TrailOK(r, ev, ow2, f)
  BY <1>1, <1>3, <1>4, <1>5 DEF TrailOK
<1> QED
  BY <1>6 DEF ow2

\* RetryDeadLetter: the death it answers has not been answered yet.
LEMMA RevivedTrail ==
    ASSUME NEW row, NEW r, NEW ev, NEW ow, NEW f, TrailOK(row, ev, ow, f),
           row.status = "dead_letter", row.attempt \in Nat,
           r.status = "queued", r.attempt = 0
    PROVE  TrailOK(r, ev, [ow EXCEPT !["dlq_retried"] = @ + 1], f + row.attempt)
<1> DEFINE ow2 == [ow EXCEPT !["dlq_retried"] = @ + 1]
<1>1. CountsOK(ev, ow, f) /\ Exists(row)
  BY DEF TrailOK, Exists, NoRow
<1>2. /\ ow2 \in [After -> Nat] /\ ow2["dlq_retried"] = ow["dlq_retried"] + 1
      /\ ow2["succeeded"] = ow["succeeded"] /\ ow2["canceled"] = ow["canceled"]
  BY <1>1, Names, Bump DEF CountsOK
<1> HIDE DEF ow2
<1>3. /\ Said(ev, ow2, "succeeded") = Said(ev, ow, "succeeded")
      /\ Said(ev, ow2, "canceled") = Said(ev, ow, "canceled")
      /\ Said(ev, ow, "succeeded") \in Nat /\ Said(ev, ow, "canceled") \in Nat
  BY <1>1, <1>2, Names, Numbers DEF Said
<1>4. Said(ev, ow2, "dlq_retried") <= Deaths(ev)
  BY <1>1, <1>2, Names, Numbers DEF TrailOK, Said
<1>5. CountsOK(ev, ow2, f + row.attempt)
  BY <1>1, <1>2 DEF CountsOK
<1>6. Said(ev, ow, "succeeded") = 0 /\ Said(ev, ow, "canceled") = 0
  BY <1>3 DEF TrailOK
<1>7. r.attempt + (f + row.attempt) + ev["suspended"] = ev["claimed"]
  BY <1>1, Names, Numbers DEF TrailOK
<1>8. TrailOK(r, ev, ow2, f + row.attempt)
  BY <1>3, <1>4, <1>5, <1>6, <1>7 DEF TrailOK
<1> QED
  BY <1>8 DEF ow2

\* Replay: a new row whose first event is still to come.
LEMMA ReplayedTrail ==
    ASSUME NEW row, NEW r, NEW ev, NEW ow, NEW f, TrailOK(row, ev, ow, f),
           row.status = "absent", r.status = "queued", r.attempt = 0
    PROVE  TrailOK(r, ev, [ow EXCEPT !["replayed"] = @ + 1], f)
<1> DEFINE ow2 == [ow EXCEPT !["replayed"] = @ + 1]
<1>1. CountsOK(ev, ow, f) /\ TrailOK(r, ev, ow, f)
  BY NewOK DEF TrailOK
<1>2. /\ ow2 \in [After -> Nat]
      /\ \A g \in {"succeeded", "canceled", "dlq_retried"} : ow2[g] = ow[g]
  BY <1>1, Names, Bump DEF CountsOK
<1> HIDE DEF ow2
<1>3. \A g \in {"succeeded", "canceled", "dlq_retried"} : Said(ev, ow2, g) = Said(ev, ow, g)
  BY <1>2 DEF Said
<1>4. CountsOK(ev, ow2, f)
  BY <1>1, <1>2 DEF CountsOK
<1>5. TrailOK(r, ev, ow2, f)
  BY <1>1, <1>3, <1>4 DEF TrailOK
<1> QED
  BY <1>5 DEF ow2

\* What one event less is owed does to the counts.
LEMMA Paid ==
    ASSUME NEW ow \in [After -> Nat], NEW e \in After, ow[e] > 0
    PROVE  /\ [ow EXCEPT ![e] = @ - 1] \in [After -> Nat]
           /\ [ow EXCEPT ![e] = @ - 1][e] = ow[e] - 1
           /\ \A g \in After : g # e => [ow EXCEPT ![e] = @ - 1][g] = ow[g]
<1>1. ow[e] - 1 \in Nat
  OBVIOUS
<1> QED
  BY <1>1

\* An event that is lost can only make a trail say less.
LEMMA LostTrail ==
    ASSUME NEW row, NEW ev, NEW ow, NEW f, TrailOK(row, ev, ow, f),
           NEW e \in After, ow[e] > 0
    PROVE  TrailOK(row, ev, [ow EXCEPT ![e] = @ - 1], f)
<1> DEFINE ow2 == [ow EXCEPT ![e] = @ - 1]
<1>1. CountsOK(ev, ow, f)
  BY DEF TrailOK
<1>2. /\ ow2 \in [After -> Nat] /\ ow2[e] = ow[e] - 1
      /\ \A g \in After : g # e => ow2[g] = ow[g]
  BY <1>1, Paid DEF CountsOK
<1> HIDE DEF ow2
<1>3. \A g \in After : ev[g] \in Nat /\ ow[g] \in Nat /\ ow2[g] \in Nat /\ ow2[g] <= ow[g]
  BY <1>1, <1>2, Names, Numbers
<1>4. \A g \in After :
         /\ Said(ev, ow, g) \in Nat /\ Said(ev, ow2, g) \in Nat
         /\ Said(ev, ow2, g) <= Said(ev, ow, g)
  BY <1>3 DEF Said
<1>5. CountsOK(ev, ow2, f) /\ Deaths(ev) \in Nat
  BY <1>1, <1>2, Numbers DEF CountsOK
<1>6. Exists(row) => Said(ev, ow2, "succeeded") + Said(ev, ow2, "canceled") <= 1
  BY <1>4, Names DEF TrailOK
<1>7. /\ Exists(row) => Said(ev, ow2, "dlq_retried") <= Deaths(ev)
      /\ row.status = "dead_letter" => Said(ev, ow2, "dlq_retried") < Deaths(ev)
      /\ row.status = "absent" => Said(ev, ow2, "dlq_retried") = 0
  BY <1>4, <1>5, Names DEF TrailOK
<1>8. /\ Said(ev, ow2, "succeeded") > 0 => row.status \in {"succeeded", "pruned"}
      /\ Said(ev, ow2, "canceled") > 0 => row.status \in {"canceled", "pruned"}
  BY <1>4, Names DEF TrailOK
<1>9. TrailOK(row, ev, ow2, f)
  BY <1>5, <1>6, <1>7, <1>8 DEF TrailOK
<1> QED
  BY <1>9 DEF ow2

\* An owed event that arrives changes nothing of what the trail says in all.
LEMMA PaidTrail ==
    ASSUME NEW row, NEW ev, NEW ow, NEW f, TrailOK(row, ev, ow, f),
           NEW e \in After, ow[e] > 0
    PROVE  TrailOK(row, [ev EXCEPT ![e] = @ + 1], [ow EXCEPT ![e] = @ - 1], f)
<1> DEFINE ev2 == [ev EXCEPT ![e] = @ + 1]
           ow2 == [ow EXCEPT ![e] = @ - 1]
<1>1. CountsOK(ev, ow, f)
  BY DEF TrailOK
<1>2. /\ ow2 \in [After -> Nat] /\ ow2[e] = ow[e] - 1
      /\ \A g \in After : g # e => ow2[g] = ow[g]
  BY <1>1, Paid DEF CountsOK
<1>3. /\ ev2 \in [EventType -> Nat] /\ ev2[e] = ev[e] + 1
      /\ \A g \in EventType : g # e => ev2[g] = ev[g]
  BY <1>1, Names, Bump DEF CountsOK
<1> HIDE DEF ev2, ow2
<1>4. \A g \in After : Said(ev2, ow2, g) = Said(ev, ow, g)
  BY <1>1, <1>2, <1>3, Names, Numbers DEF Said
<1>5. /\ ev2["claimed"] = ev["claimed"] /\ ev2["suspended"] = ev["suspended"]
      /\ Deaths(ev2) = Deaths(ev)
  BY <1>3, Names DEF Deaths, After
<1>6. CountsOK(ev2, ow2, f)
  BY <1>1, <1>2, <1>3 DEF CountsOK
<1>7. TrailOK(row, ev2, ow2, f)
  BY <1>4, <1>5, <1>6, Names DEF TrailOK
<1> QED
  BY <1>7 DEF ev2, ow2

\* Retention: what is owed may outlive the row, nothing else does.
LEMMA PrunedTrail ==
    ASSUME NEW row, NEW ev, NEW ow, NEW f, TrailOK(row, ev, ow, f)
    PROVE  TrailOK(Pruned, NoEvents, ow, f)
BY DEF TrailOK, CountsOK, NoEvents, Pruned, Default, Exists, NoRow

-----------------------------------------------------------------------------
\* Every step of the trail is a step of the table, or leaves it alone.
LEMMA HistNextIsNext == [HistNext]_histVars => [Next]_jobs
<1> SUFFICES ASSUME [HistNext]_histVars PROVE Next \/ UNCHANGED jobs
  OBVIOUS
<1>1. CASE Requested
  BY <1>1 DEF Requested, EnqueueJob, EnqueueHit, SignalJob, CancelJob, RetryJob,
              ReplayJob, Next, RequestNext
<1>2. CASE Worked
  <2>1. ASSUME NEW w \in Worker, ClaimJobs(w) PROVE Next
    BY <2>1 DEF ClaimJobs, Next, WorkerNext
  <2>2. ASSUME NEW w \in Worker, NEW j \in Job,
               SuspendJob(w, j) \/ FailJob(w, j) \/ CompleteJob(w, j)
        PROVE  Next
    BY <2>2 DEF SuspendJob, FailJob, CompleteJob, Next, WorkerNext
  <2>3. ASSUME NEW w \in Worker, NEW j \in Job, NEW name \in StepName, SaveStep(w, j, name)
        PROVE  UNCHANGED jobs
    BY <2>3 DEF SaveStep
  <2>4. CASE SweepJobs
    BY <2>4 DEF SweepJobs, Next, SweepNext
  <2>5. ASSUME NEW S \in SUBSET Job, PruneJobs(S) PROVE Next
    BY <2>5 DEF PruneJobs, Next, SweepNext
  <2> QED
    BY <1>2, <2>1, <2>2, <2>3, <2>4, <2>5 DEF Worked
<1>3. CASE Settled
  BY <1>3 DEF Settled, AppendOwed, LoseOwed
<1>4. CASE Quiet
  BY <1>4 DEF Quiet, Next, WorkerNext
<1>5. CASE UNCHANGED histVars
  BY <1>5 DEF histVars
<1> QED
  BY <1>1, <1>2, <1>3, <1>4, <1>5 DEF HistNext

\* Log and Owe, seen from one watched job.
LEMMA Logged ==
    ASSUME NEW S \in SUBSET Job, NEW e \in EventType, Log(S, e), written \in Nat
    PROVE  /\ written' \in Nat
           /\ events' = [i \in Watched |-> events'[i]]
           /\ \A i \in Watched :
                 events'[i] = IF i \in S THEN [events[i] EXCEPT ![e] = @ + 1] ELSE events[i]
<1>1. Cardinality(S) \in Nat
  BY HistoryAssumption, FS_Subset, FS_CardinalityType
<1> QED
  BY <1>1 DEF Log, Plus

LEMMA OwedToOne ==
    ASSUME NEW j, NEW e \in After, Owe(j, e), written \in Nat
    PROVE  /\ written' \in Nat
           /\ owed' = [i \in Watched |-> owed'[i]]
           /\ \A i \in Watched :
                 owed'[i] = IF i = j THEN [owed[i] EXCEPT ![e] = @ + 1] ELSE owed[i]
BY DEF Owe, Plus

\* The shape of the trail's variables, apart from the jobs whose trail they are.
Shape ==
    /\ events = [i \in Watched |-> events[i]]
    /\ owed = [i \in Watched |-> owed[i]]
    /\ forgiven = [i \in Watched |-> forgiven[i]]
    /\ steps \in [Watched -> SUBSET StepName]
    /\ signals \in [Watched -> Nat]
    /\ written \in Nat

Trails == \A i \in Watched : TrailOK(jobs[i], events[i], owed[i], forgiven[i])

LEMMA Assembled == StoreInv /\ Shape /\ Trails => HistInv
<1> SUFFICES ASSUME StoreInv, Shape, Trails PROVE HistInv
  OBVIOUS
<1>1. \A i \in Watched : CountsOK(events[i], owed[i], forgiven[i])
  BY DEF Trails, TrailOK
<1>2. /\ events \in [Watched -> [EventType -> Nat]]
      /\ owed \in [Watched -> [After -> Nat]]
      /\ forgiven \in [Watched -> Nat]
  BY <1>1 DEF Shape, CountsOK
<1> QED
  BY <1>2 DEF HistInv, Shape, Trails

LEMMA TakenApart == HistInv => StoreInv /\ Shape /\ Trails
BY DEF HistInv, Shape, Trails

\* A logged step is fine when the trails of its jobs are.
LEMMA LoggedKeeps ==
    ASSUME Shape, Trails, NEW S \in SUBSET Job, NEW e \in EventType, Log(S, e),
           UNCHANGED <<owed, forgiven>>,
           steps' \in [Watched -> SUBSET StepName], signals' \in [Watched -> Nat],
           \A i \in Watched : i \notin S => jobs'[i] = jobs[i],
           \A i \in Watched : i \in S =>
               TrailOK(jobs'[i], [events[i] EXCEPT ![e] = @ + 1], owed[i], forgiven[i])
    PROVE  Shape' /\ Trails'
<1>0. written \in Nat
  BY DEF Shape
<1>1. /\ written' \in Nat
      /\ events' = [i \in Watched |-> events'[i]]
      /\ \A i \in Watched :
            events'[i] = IF i \in S THEN [events[i] EXCEPT ![e] = @ + 1] ELSE events[i]
  BY <1>0, Logged
<1>2. Shape'
  BY <1>1 DEF Shape
<1>3. ASSUME NEW i \in Watched PROVE TrailOK(jobs'[i], events'[i], owed'[i], forgiven'[i])
  <2>1. CASE i \in S
    <3>1. events'[i] = [events[i] EXCEPT ![e] = @ + 1]
      BY <1>1, <2>1
    <3> QED
      BY <2>1, <3>1
  <2>2. CASE i \notin S
    <3>1. events'[i] = events[i] /\ jobs'[i] = jobs[i]
      BY <1>1, <2>2
    <3> QED
      BY <3>1 DEF Trails
  <2> QED
    BY <2>1, <2>2
<1> QED
  BY <1>2, <1>3 DEF Trails

LEMMA LoggedOneKeeps ==
    ASSUME Shape, Trails, NEW j \in Job, NEW e \in EventType, Log({j}, e),
           UNCHANGED <<owed, forgiven>>,
           steps' \in [Watched -> SUBSET StepName], signals' \in [Watched -> Nat],
           \A i \in Watched : i # j => jobs'[i] = jobs[i],
           j \in Watched =>
               TrailOK(jobs'[j], [events[j] EXCEPT ![e] = @ + 1], owed[j], forgiven[j])
    PROVE  Shape' /\ Trails'
<1> DEFINE S == {j}
<1>1. S \in SUBSET Job /\ Log(S, e)
  OBVIOUS
<1>2. \A i \in Watched : i \notin S => jobs'[i] = jobs[i]
  OBVIOUS
<1>3. \A i \in Watched : i \in S =>
         TrailOK(jobs'[i], [events[i] EXCEPT ![e] = @ + 1], owed[i], forgiven[i])
  OBVIOUS
<1> HIDE DEF S
<1> QED
  BY <1>1, <1>2, <1>3, LoggedKeeps

\* So is a step whose event is owed.
LEMMA OwedKeeps ==
    ASSUME Shape, Trails, NEW j \in Job, NEW e \in After, Owe(j, e),
           UNCHANGED <<events, steps, signals>>,
           forgiven' = [i \in Watched |-> forgiven'[i]],
           \A i \in Watched : i # j => jobs'[i] = jobs[i] /\ forgiven'[i] = forgiven[i],
           j \in Watched =>
               TrailOK(jobs'[j], events[j], [owed[j] EXCEPT ![e] = @ + 1], forgiven'[j])
    PROVE  Shape' /\ Trails'
<1>0. written \in Nat
  BY DEF Shape
<1>1. /\ written' \in Nat
      /\ owed' = [i \in Watched |-> owed'[i]]
      /\ \A i \in Watched :
            owed'[i] = IF i = j THEN [owed[i] EXCEPT ![e] = @ + 1] ELSE owed[i]
  BY <1>0, OwedToOne
<1>2. Shape'
  BY <1>1 DEF Shape
<1>3. ASSUME NEW i \in Watched PROVE TrailOK(jobs'[i], events'[i], owed'[i], forgiven'[i])
  <2>1. CASE i = j
    <3>1. owed'[j] = [owed[j] EXCEPT ![e] = @ + 1] /\ events'[j] = events[j]
      BY <1>1, <2>1
    <3> QED
      BY <2>1, <3>1
  <2>2. CASE i # j
    <3>1. owed'[i] = owed[i] /\ jobs'[i] = jobs[i] /\ forgiven'[i] = forgiven[i]
      BY <1>1, <2>2
    <3> QED
      BY <3>1 DEF Trails
  <2> QED
    BY <2>1, <2>2
<1> QED
  BY <1>2, <1>3 DEF Trails

\* What a statement about one row leaves of the others.
LEMMA Put ==
    ASSUME jobs \in [Job -> Row], NEW j \in Job, NEW row, SetRow(j, row)
    PROVE  jobs'[j] = row /\ \A i \in Job : i # j => jobs'[i] = jobs[i]
BY DEF SetRow

\* The fields the trail is about, after each statement.
LEMMA Fields ==
    ASSUME NEW row \in Row
    PROVE  /\ \A w : /\ Claimed(row, w).status = "running"
                     /\ Claimed(row, w).attempt = row.attempt + 1
           /\ Woken(row).status = row.status /\ Woken(row).attempt = row.attempt
           /\ Succeeded(row).status = "succeeded" /\ Succeeded(row).attempt = row.attempt
           /\ Canceled(row).status = "canceled" /\ Canceled(row).attempt = row.attempt
           /\ DeadLettered(row).status = "dead_letter"
           /\ DeadLettered(row).attempt = row.attempt
           /\ Requeued(row).status = "queued" /\ Requeued(row).attempt = 0
           /\ Copied(row).status = "queued" /\ Copied(row).attempt = 0
BY DEF Row, Claimed, Woken, Succeeded, Canceled, DeadLettered, Requeued, Copied,
       Released, Default

\* What clients and operators ask for.
LEMMA RequestedKeeps == HistInv /\ Requested => Shape' /\ Trails'
<1> SUFFICES ASSUME HistInv, Requested PROVE Shape' /\ Trails'
  OBVIOUS
<1>0. /\ StoreInv /\ Shape /\ Trails /\ jobs \in [Job -> Row]
      /\ steps \in [Watched -> SUBSET StepName] /\ signals \in [Watched -> Nat]
      /\ forgiven = [i \in Watched |-> forgiven[i]]
  BY TakenApart DEF Shape, StoreInv
<1>t. \A i \in Watched : TrailOK(jobs[i], events[i], owed[i], forgiven[i]) /\ i \in Job
  BY <1>0, HistoryAssumption DEF Trails
<1>n. \A j \in Job : jobs[j] \in Row /\ jobs[j].attempt \in Nat
  BY <1>0 DEF Row
<1>1. ASSUME NEW j \in Job, EnqueueJob(j) PROVE Shape' /\ Trails'
  <2>1. PICK q \in Queue \cup {NoQueue}, m \in RequestedMax,
             d \in {"past", "ahead"}, k \in Key \cup {NoKey} : Enqueue(j, q, m, d, k)
    BY <1>1 DEF EnqueueJob
  <2>2. Log({j}, "enqueued") /\ UNCHANGED <<owed, steps, signals, forgiven>>
    BY <1>1 DEF EnqueueJob
  <2> DEFINE r == Enqueued(q, m, d, k)
  <2>3. r.status = "queued" /\ r.attempt = 0
    BY DEF Enqueued, Default
  <2>4. jobs[j].status = "absent" /\ jobs'[j] = r /\ \A i \in Job : i # j => jobs'[i] = jobs[i]
    BY <1>0, <2>1, Put DEF Enqueue
  <2> HIDE DEF r
  <2>5. j \in Watched => TrailOK(r, [events[j] EXCEPT !["enqueued"] = @ + 1], owed[j], forgiven[j])
    BY <1>t, <2>3, <2>4, NewOK, NeutralOK
  <2> QED
    BY <1>0, <1>t, <2>2, <2>4, <2>5, LoggedOneKeeps, Names
<1>2. ASSUME NEW j \in Job, EnqueueHit(j) PROVE Shape' /\ Trails'
  <2>1. Log({j}, "idempotent_hit") /\ UNCHANGED <<jobs, owed, steps, signals, forgiven>>
    BY <1>2 DEF EnqueueHit
  <2>2. j \in Watched =>
           TrailOK(jobs[j], [events[j] EXCEPT !["idempotent_hit"] = @ + 1], owed[j], forgiven[j])
    BY <1>t, NeutralOK
  <2> QED
    BY <1>0, <1>t, <2>1, <2>2, LoggedOneKeeps, Names
<1>3. ASSUME NEW j \in Job, SignalJob(j) PROVE Shape' /\ Trails'
  <2> DEFINE r == Woken(jobs[j])
  <2>1. jobs'[j] = r /\ \A i \in Job : i # j => jobs'[i] = jobs[i]
    BY <1>0, <1>3, Put DEF SignalJob, Signal
  <2>2. /\ Log({j}, "signaled") /\ UNCHANGED <<owed, steps, forgiven>>
        /\ signals' = [i \in Watched |-> IF i = j THEN signals[i] + 1 ELSE signals[i]]
    BY <1>3 DEF SignalJob
  <2>3. signals' \in [Watched -> Nat]
    BY <1>0, <2>2
  <2>4. r.status = jobs[j].status /\ r.attempt = jobs[j].attempt
    BY <1>n, Fields
  <2> HIDE DEF r
  <2>5. j \in Watched => TrailOK(r, [events[j] EXCEPT !["signaled"] = @ + 1], owed[j], forgiven[j])
    BY <1>t, <2>4, SameOK, NeutralOK
  <2> QED
    BY <1>0, <1>t, <2>1, <2>2, <2>3, <2>5, LoggedOneKeeps, Names
<1>4. ASSUME NEW j \in Job, CancelJob(j) PROVE Shape' /\ Trails'
  <2> DEFINE r == Canceled(jobs[j])
  <2>1. Active(jobs[j]) /\ jobs'[j] = r /\ \A i \in Job : i # j => jobs'[i] = jobs[i]
    BY <1>0, <1>4, Put DEF CancelJob, Cancel
  <2>2. Owe(j, "canceled") /\ UNCHANGED <<events, steps, signals, forgiven>>
    BY <1>4 DEF CancelJob
  <2>3. r.status = "canceled" /\ r.attempt = jobs[j].attempt
    BY <1>n, Fields
  <2> HIDE DEF r
  <2>4. j \in Watched => TrailOK(r, events[j], [owed[j] EXCEPT !["canceled"] = @ + 1], forgiven[j])
    BY <1>t, <2>1, <2>3, EndedTrail
  <2> QED
    BY <1>0, <1>t, <2>1, <2>2, <2>4, OwedKeeps, Names
<1>5. ASSUME NEW j \in Job, RetryJob(j) PROVE Shape' /\ Trails'
  <2> DEFINE r == Requeued(jobs[j])
             g == forgiven[j] + jobs[j].attempt
  <2>1. /\ jobs[j].status = "dead_letter" /\ jobs'[j] = r
        /\ \A i \in Job : i # j => jobs'[i] = jobs[i]
    BY <1>0, <1>5, Put DEF RetryJob, RetryDeadLetter
  <2>2. /\ Owe(j, "dlq_retried") /\ UNCHANGED <<events, steps, signals>>
        /\ forgiven' = [i \in Watched |-> IF i = j THEN forgiven[i] + jobs[i].attempt
                                          ELSE forgiven[i]]
    BY <1>5 DEF RetryJob
  <2>3. r.status = "queued" /\ r.attempt = 0
    BY <1>n, Fields
  <2> HIDE DEF r
  <2>4. j \in Watched => TrailOK(r, events[j], [owed[j] EXCEPT !["dlq_retried"] = @ + 1], g)
    BY <1>t, <1>n, <2>1, <2>3, RevivedTrail
  <2>5. /\ forgiven' = [i \in Watched |-> forgiven'[i]]
        /\ j \in Watched => forgiven'[j] = g
        /\ \A i \in Watched : i # j => forgiven'[i] = forgiven[i]
    BY <2>2
  <2> HIDE DEF g
  <2> QED
    BY <1>0, <1>t, <2>1, <2>2, <2>4, <2>5, OwedKeeps, Names
<1>6. ASSUME NEW k \in Job, NEW j \in Job, ReplayJob(k, j) PROVE Shape' /\ Trails'
  <2> DEFINE r == Copied(jobs[k])
  <2>1. /\ jobs[j].status = "absent" /\ jobs'[j] = r
        /\ \A i \in Job : i # j => jobs'[i] = jobs[i]
    BY <1>0, <1>6, Put DEF ReplayJob, Replay
  <2>2. Owe(j, "replayed") /\ UNCHANGED <<events, steps, signals, forgiven>>
    BY <1>6 DEF ReplayJob
  <2>3. r.status = "queued" /\ r.attempt = 0
    BY <1>n, Fields
  <2> HIDE DEF r
  <2>4. j \in Watched => TrailOK(r, events[j], [owed[j] EXCEPT !["replayed"] = @ + 1], forgiven[j])
    BY <1>t, <2>1, <2>3, ReplayedTrail
  <2> QED
    BY <1>0, <1>t, <2>1, <2>2, <2>4, OwedKeeps, Names
<1> QED
  BY <1>1, <1>2, <1>3, <1>4, <1>5, <1>6 DEF Requested

\* What workers and their sweeps do.
LEMMA WorkedKeeps == HistInv /\ Worked => Shape' /\ Trails'
<1> SUFFICES ASSUME HistInv, Worked PROVE Shape' /\ Trails'
  OBVIOUS
<1>0. /\ StoreInv /\ Shape /\ Trails /\ jobs \in [Job -> Row]
      /\ steps \in [Watched -> SUBSET StepName] /\ signals \in [Watched -> Nat]
      /\ forgiven = [i \in Watched |-> forgiven[i]]
  BY TakenApart DEF Shape, StoreInv
<1>t. \A i \in Watched : TrailOK(jobs[i], events[i], owed[i], forgiven[i]) /\ i \in Job
  BY <1>0, HistoryAssumption DEF Trails
<1>n. \A j \in Job : jobs[j] \in Row /\ jobs[j].attempt \in Nat /\ RowOK(jobs[j])
  BY <1>0 DEF Row, StoreInv
<1>1. ASSUME NEW w \in Worker, ClaimJobs(w) PROVE Shape' /\ Trails'
  <2>1. PICK q \in Queue, S \in SUBSET Job : Claim(w, q, S) /\ Log(S, "claimed")
    BY <1>1 DEF ClaimJobs
  <2>2. UNCHANGED <<owed, steps, signals, forgiven>>
    BY <1>1 DEF ClaimJobs
  <2>3. \A i \in Watched : i \notin S => jobs'[i] = jobs[i]
    BY <1>t, <2>1 DEF Claim
  <2>4. ASSUME NEW i \in Watched, i \in S
        PROVE  TrailOK(jobs'[i], [events[i] EXCEPT !["claimed"] = @ + 1], owed[i], forgiven[i])
    <3> DEFINE r == Claimed(jobs[i], w)
    <3>1. jobs'[i] = r /\ r.status = "running" /\ r.attempt = jobs[i].attempt + 1
      BY <1>t, <1>n, <2>1, <2>4, Fields DEF Claim
    <3>2. jobs[i].status \in Waiting \cup {"running"}
      BY <2>1, <2>4 DEF Claim, Claimable, Stolen
    <3> HIDE DEF r
    <3> QED
      BY <1>t, <1>n, <3>1, <3>2, ClaimedTrail
  <2> QED
    BY <1>0, <2>1, <2>2, <2>3, <2>4, LoggedKeeps, Names
<1>2. ASSUME NEW w \in Worker, NEW j \in Job, SuspendJob(w, j) PROVE Shape' /\ Trails'
  <2> DEFINE r == Suspended(jobs[j])
  <2>1. PICK v \in 0..MaxWake : Suspend(w, j, v)
    BY <1>2 DEF SuspendJob
  <2>2. Log({j}, "suspended") /\ UNCHANGED <<owed, steps, signals, forgiven>>
    BY <1>2 DEF SuspendJob
  <2>3. jobs'[j] = r /\ \A i \in Job : i # j => jobs'[i] = jobs[i]
    BY <1>0, <2>1, Put DEF Suspend
  <2>4. jobs[j].status = "running" /\ jobs[j].attempt \in Nat \ {0}
    BY <1>n, <2>1, OwnedRange DEF Suspend, Parkable, Owned
  <2>5. r.status = "queued" /\ r.attempt = jobs[j].attempt - 1
    BY <1>n, <2>4 DEF Suspended, Released, Greatest, Row
  <2> HIDE DEF r
  <2>6. j \in Watched => TrailOK(r, [events[j] EXCEPT !["suspended"] = @ + 1], owed[j], forgiven[j])
    BY <1>t, <2>4, <2>5, SuspendedTrail
  <2> QED
    BY <1>0, <1>t, <2>2, <2>3, <2>6, LoggedOneKeeps, Names
<1>3. ASSUME NEW w \in Worker, NEW j \in Job, FailJob(w, j) PROVE Shape' /\ Trails'
  <2>1. PICK permanent \in BOOLEAN : Fail(w, j, permanent)
    BY <1>3 DEF FailJob
  <2> DEFINE r == Failed(jobs[j], permanent)
             e == IF r.status = "retrying" THEN "failed_retrying" ELSE "failed_dead_letter"
  <2>2. /\ jobs'[j] = r /\ jobs[j].status = "running"
        /\ \A i \in Job : i # j => jobs'[i] = jobs[i]
    BY <1>0, <2>1, Put DEF Fail, Owned
  <2>3. Log({j}, e) /\ UNCHANGED <<owed, steps, signals, forgiven>>
    BY <1>3, <2>2 DEF FailJob
  <2>4. r.status \in {"retrying", "dead_letter"} /\ r.attempt = jobs[j].attempt
    BY <1>n DEF Failed, Released, NextStatusAfterFailure, Row
  <2> HIDE DEF r
  <2>5. /\ e \in {"failed_retrying", "failed_dead_letter", "dead_lettered"}
        /\ r.status = IF e = "failed_retrying" THEN "retrying" ELSE "dead_letter"
    BY <2>4
  <2> HIDE DEF e
  <2>6. j \in Watched => TrailOK(r, [events[j] EXCEPT ![e] = @ + 1], owed[j], forgiven[j])
    BY <1>t, <2>2, <2>4, <2>5, FailedTrail
  <2>7. e \in EventType
    BY <2>5, Names
  <2> QED
    BY <1>0, <1>t, <2>2, <2>3, <2>6, <2>7, LoggedOneKeeps
<1>4. ASSUME NEW w \in Worker, NEW j \in Job, CompleteJob(w, j) PROVE Shape' /\ Trails'
  <2> DEFINE r == Succeeded(jobs[j])
  <2>1. Active(jobs[j]) /\ jobs'[j] = r /\ \A i \in Job : i # j => jobs'[i] = jobs[i]
    BY <1>0, <1>4, Put DEF CompleteJob, Complete, Owned, Active, Exists, NoRow, Terminal
  <2>2. Owe(j, "succeeded") /\ UNCHANGED <<events, steps, signals, forgiven>>
    BY <1>4 DEF CompleteJob
  <2>3. r.status = "succeeded" /\ r.attempt = jobs[j].attempt
    BY <1>n, Fields
  <2> HIDE DEF r
  <2>4. j \in Watched => TrailOK(r, events[j], [owed[j] EXCEPT !["succeeded"] = @ + 1], forgiven[j])
    BY <1>t, <2>1, <2>3, EndedTrail
  <2> QED
    BY <1>0, <1>t, <2>1, <2>2, <2>4, OwedKeeps, Names
<1>5. ASSUME NEW w \in Worker, NEW j \in Job, NEW name \in StepName, SaveStep(w, j, name)
      PROVE  Shape' /\ Trails'
  <2>1. /\ Log({j}, "step_completed") /\ UNCHANGED <<jobs, owed, signals, forgiven>>
        /\ steps' = [steps EXCEPT ![j] = @ \cup {name}]
    BY <1>5 DEF SaveStep
  <2>2. steps' \in [Watched -> SUBSET StepName]
    BY <1>0, <2>1
  <2>3. j \in Watched =>
           TrailOK(jobs[j], [events[j] EXCEPT !["step_completed"] = @ + 1], owed[j], forgiven[j])
    BY <1>t, NeutralOK
  <2> QED
    BY <1>0, <1>t, <2>1, <2>2, <2>3, LoggedOneKeeps, Names
<1>6. CASE SweepJobs
  <2>1. PICK S \in SUBSET Job : DeadLetterExhausted(S) /\ Log(S, "dead_lettered")
    BY <1>6 DEF SweepJobs
  <2>2. UNCHANGED <<owed, steps, signals, forgiven>>
    BY <1>6 DEF SweepJobs
  <2>3. \A i \in Watched : i \notin S => jobs'[i] = jobs[i]
    BY <1>t, <2>1 DEF DeadLetterExhausted
  <2>4. ASSUME NEW i \in Watched, i \in S
        PROVE  TrailOK(jobs'[i], [events[i] EXCEPT !["dead_lettered"] = @ + 1], owed[i], forgiven[i])
    <3> DEFINE r == DeadLettered(jobs[i])
    <3>1. jobs'[i] = r /\ r.status = "dead_letter" /\ r.attempt = jobs[i].attempt
      BY <1>t, <1>n, <2>1, <2>4, Fields DEF DeadLetterExhausted
    <3>2. jobs[i].status = "running"
      BY <2>1, <2>4 DEF DeadLetterExhausted, Exhausted, Stolen
    <3> HIDE DEF r
    <3> QED
      BY <1>t, <3>1, <3>2, FailedTrail
  <2> QED
    BY <1>0, <2>1, <2>2, <2>3, <2>4, LoggedKeeps, Names
<1>7. ASSUME NEW S \in SUBSET Job, PruneJobs(S) PROVE Shape' /\ Trails'
  <2>1. PICK q \in Queue : PruneCompleted(q, S)
    BY <1>7 DEF PruneJobs
  <2>2. /\ events' = [j \in Watched |-> IF j \in S THEN NoEvents ELSE events[j]]
        /\ steps' = [j \in Watched |-> IF j \in S THEN {} ELSE steps[j]]
        /\ signals' = [j \in Watched |-> IF j \in S THEN 0 ELSE signals[j]]
        /\ UNCHANGED <<owed, forgiven, written>>
    BY <1>7 DEF PruneJobs
  <2>3. Shape'
    BY <1>0, <2>2 DEF Shape
  <2>4. ASSUME NEW i \in Watched PROVE TrailOK(jobs'[i], events'[i], owed'[i], forgiven'[i])
    <3>1. CASE i \in S
      <4>1. jobs'[i] = Pruned /\ events'[i] = NoEvents
        BY <1>t, <2>1, <2>2, <3>1 DEF PruneCompleted
      <4>2. TrailOK(Pruned, NoEvents, owed[i], forgiven[i])
        BY <1>t, PrunedTrail
      <4> QED
        BY <2>2, <4>1, <4>2
    <3>2. CASE i \notin S
      <4>1. jobs'[i] = jobs[i] /\ events'[i] = events[i]
        BY <1>t, <2>1, <2>2, <3>2 DEF PruneCompleted
      <4> QED
        BY <1>t, <2>2, <4>1
    <3> QED
      BY <3>1, <3>2
  <2> QED
    BY <2>3, <2>4 DEF Trails
<1> QED
  BY <1>1, <1>2, <1>3, <1>4, <1>5, <1>6, <1>7 DEF Worked

\* Late events, and time.
LEMMA RestKeeps == HistInv /\ (Settled \/ Quiet \/ UNCHANGED histVars) => Shape' /\ Trails'
<1> SUFFICES ASSUME HistInv, Settled \/ Quiet \/ UNCHANGED histVars PROVE Shape' /\ Trails'
  OBVIOUS
<1>0. Shape /\ Trails /\ jobs \in [Job -> Row]
  BY TakenApart DEF StoreInv
<1>t. \A i \in Watched : TrailOK(jobs[i], events[i], owed[i], forgiven[i]) /\ i \in Job
  BY <1>0, HistoryAssumption DEF Trails
<1>1. ASSUME NEW j \in Watched, NEW e \in After, AppendOwed(j, e) PROVE Shape' /\ Trails'
  <2>1. /\ owed[j][e] > 0 /\ owed' = [owed EXCEPT ![j][e] = @ - 1]
        /\ events' = [events EXCEPT ![j][e] = @ + 1] \/ events' = events
        /\ UNCHANGED <<jobs, steps, signals, forgiven, written>>
    BY <1>1 DEF AppendOwed
  <2>2. Shape'
    BY <1>0, <2>1 DEF Shape
  <2>3. /\ \A i \in Watched : i # j => owed'[i] = owed[i] /\ events'[i] = events[i]
        /\ owed'[j] = [owed[j] EXCEPT ![e] = @ - 1]
        /\ events'[j] = [events[j] EXCEPT ![e] = @ + 1] \/ events'[j] = events[j]
    BY <1>0, <2>1 DEF Shape
  <2>4. TrailOK(jobs[j], events'[j], owed'[j], forgiven[j])
    <3> DEFINE ow2 == [owed[j] EXCEPT ![e] = @ - 1]
               ev2 == [events[j] EXCEPT ![e] = @ + 1]
    <3>1. TrailOK(jobs[j], events[j], owed[j], forgiven[j]) /\ owed[j][e] > 0
      BY <1>t, <2>1
    <3>2. TrailOK(jobs[j], events[j], ow2, forgiven[j])
      BY <3>1, LostTrail
    <3>3. TrailOK(jobs[j], ev2, ow2, forgiven[j])
      BY <3>1, PaidTrail
    <3>4. owed'[j] = ow2 /\ (events'[j] = ev2 \/ events'[j] = events[j])
      BY <2>3
    <3> HIDE DEF ow2, ev2
    <3> QED
      BY <3>2, <3>3, <3>4
  <2> QED
    BY <1>t, <2>1, <2>2, <2>3, <2>4 DEF Trails
<1>2. ASSUME NEW j \in Watched, NEW e \in After, LoseOwed(j, e) PROVE Shape' /\ Trails'
  <2>1. /\ owed[j][e] > 0 /\ owed' = [owed EXCEPT ![j][e] = @ - 1]
        /\ UNCHANGED <<jobs, events, steps, signals, forgiven, written>>
    BY <1>2 DEF LoseOwed
  <2>2. Shape'
    BY <1>0, <2>1 DEF Shape
  <2>3. /\ \A i \in Watched : i # j => owed'[i] = owed[i]
        /\ owed'[j] = [owed[j] EXCEPT ![e] = @ - 1]
    BY <1>0, <2>1 DEF Shape
  <2>4. TrailOK(jobs[j], events[j], owed'[j], forgiven[j])
    BY <1>t, <2>1, <2>3, LostTrail
  <2> QED
    BY <1>t, <2>1, <2>2, <2>3, <2>4 DEF Trails
<1>3. CASE Quiet
  <2>1. UNCHANGED <<events, owed, steps, signals, forgiven, written>>
    BY <1>3 DEF Quiet, trail
  <2>2. \A i \in Watched : jobs'[i].status = jobs[i].status /\ jobs'[i].attempt = jobs[i].attempt
    <3>1. ASSUME NEW j \in Job, NEW r, SetRow(j, r),
                 r.status = jobs[j].status, r.attempt = jobs[j].attempt
          PROVE  \A i \in Job : jobs'[i].status = jobs[i].status /\ jobs'[i].attempt = jobs[i].attempt
      BY <1>0, <3>1, Put
    <3>2. \A j \in Job : jobs[j] \in Row
      BY <1>0
    <3>3. ASSUME NEW w \in Worker, NEW j \in Job, Heartbeat(w, j)
          PROVE  \A i \in Job : jobs'[i].status = jobs[i].status /\ jobs'[i].attempt = jobs[i].attempt
      BY <3>1, <3>2, <3>3 DEF Heartbeat, Renewed, Row
    <3>4. ASSUME NEW j \in Job, LeaseExpires(j) \/ ComesDue(j)
          PROVE  \A i \in Job : jobs'[i].status = jobs[i].status /\ jobs'[i].attempt = jobs[i].attempt
      BY <3>1, <3>2, <3>4 DEF LeaseExpires, ComesDue, Row
    <3> QED
      BY <1>3, <1>t, <3>3, <3>4 DEF Quiet, TimeNext
  <2>3. Shape'
    BY <1>0, <2>1 DEF Shape
  <2>4. \A i \in Watched : TrailOK(jobs'[i], events[i], owed[i], forgiven[i])
    BY <1>t, <2>2, SameOK
  <2> QED
    BY <2>1, <2>3, <2>4 DEF Trails
<1>4. CASE UNCHANGED histVars
  <2>1. UNCHANGED <<jobs, events, owed, steps, signals, forgiven, written>>
    BY <1>4 DEF histVars, trail
  <2> QED
    BY <1>0, <2>1 DEF Shape, Trails
<1> QED
  BY <1>1, <1>2, <1>3, <1>4 DEF Settled

LEMMA HistInvNext == HistInv /\ [HistNext]_histVars => HistInv'
<1> SUFFICES ASSUME HistInv, [HistNext]_histVars PROVE HistInv'
  OBVIOUS
<1>1. StoreInv'
  BY HistNextIsNext, StoreInvNext DEF HistInv
<1>2. Shape' /\ Trails'
  BY RequestedKeeps, WorkedKeeps, RestKeeps DEF HistNext
<1>3. (StoreInv /\ Shape /\ Trails => HistInv)'
  BY Assembled, PTL
<1> QED
  BY <1>1, <1>2, <1>3

LEMMA HistInvInit == HistInit => HistInv
<1> SUFFICES ASSUME HistInit PROVE HistInv
  OBVIOUS
<1>1. StoreInv
  BY DefaultOK DEF HistInit, Init, StoreInv, RowOK
<1>2. Shape
  BY HistoryAssumption DEF HistInit, Shape
<1>3. ASSUME NEW j \in Watched PROVE TrailOK(jobs[j], events[j], owed[j], forgiven[j])
  <2>1. jobs[j] = Default /\ events[j] = NoEvents /\ owed[j] = NoneOwed /\ forgiven[j] = 0
    BY HistoryAssumption DEF HistInit, Init
  <2>2. CountsOK(NoEvents, NoneOwed, 0) /\ \A e \in After : Said(NoEvents, NoneOwed, e) = 0
    <3>1. CountsOK(NoEvents, NoneOwed, 0)
      BY DEF CountsOK, NoEvents, NoneOwed
    <3>2. \A e \in After : NoEvents[e] = 0 /\ NoneOwed[e] = 0
      BY Names DEF NoEvents, NoneOwed
    <3> QED
      BY <3>1, <3>2 DEF Said
  <2>3. NoEvents["claimed"] = 0 /\ NoEvents["suspended"] = 0
    BY Names DEF NoEvents
  <2>4. Default.status = "absent"
    BY DEF Default
  <2>5. TrailOK(Default, NoEvents, NoneOwed, 0)
    BY <2>2, <2>3, <2>4, Names DEF TrailOK, Exists, NoRow
  <2> QED
    BY <2>1, <2>5
<1> QED
  BY <1>1, <1>2, <1>3, Assembled DEF Trails

\* The trail always satisfies the invariant.
THEOREM HistInvariant == HistSpec => []HistInv
BY HistInvInit, HistInvNext, PTL DEF HistSpec

\* Rows, counts, checkpoints and signals always have their types.
THEOREM HistTypeCorrect == HistSpec => []HistTypeOK
<1>1. HistInv => HistTypeOK
  BY DEF HistInv, StoreInv, HistTypeOK
<1> QED
  BY <1>1, HistInvariant, PTL

\* Claim and Suspend are the only statements that charge and refund attempts,
\* RetryDeadLetter the only one that writes them off, and each leaves its mark:
\* the attempt column can be recomputed from the audit trail.
THEOREM AttemptsAccounted == HistSpec => []AttemptsExplained
<1>1. HistInv => AttemptsExplained
  BY DEF HistInv, TrailOK, AttemptsExplained
<1> QED
  BY <1>1, HistInvariant, PTL

\* Complete and Cancel announce the end of a job once, and nothing later
\* contradicts it, however late their event is appended.
THEOREM EndingsFinal == HistSpec => []EndingsStand
<1>1. HistInv => EndingsStand
  BY DEF HistInv, TrailOK, EndingsStand, Ever, Said
<1> QED
  BY <1>1, HistInvariant, PTL

\* RetryDeadLetter revives a job at most once for each time it died.
THEOREM RevivalsBounded == HistSpec => []OneRevivalPerDeath
<1>1. HistInv => OneRevivalPerDeath
  BY DEF HistInv, TrailOK, OneRevivalPerDeath, Ever, Said
<1> QED
  BY <1>1, HistInvariant, PTL

\* Appending events, in a statement's transaction or after it, decides nothing:
\* the table with its trail implements the table, so every theorem about
\* JobStore holds of it.
THEOREM HistImplementsStore == HistSpec => Spec
<1>1. HistInit => Init
  BY DEF HistInit
<1> QED
  BY <1>1, HistNextIsNext, PTL DEF HistSpec, Spec
=============================================================================
