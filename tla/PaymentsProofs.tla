--------------------------- MODULE PaymentsProofs ---------------------------
(***************************************************************************)
(* Proofs about the payouts service, for every set of payouts, amounts and *)
(* scenarios, every number of slots and workers, and every bound.          *)
(*                                                                         *)
(* The ledger, the transfers and the jobs only grow (Grows), so what a run *)
(* has behind it stays true while others work (RunOK).  What stays true    *)
(* only while no other run of the payout is there is kept apart (Alone).   *)
(***************************************************************************)
EXTENDS Payments, JobStoreProofs

Stepping == {"load", "do", "lock", "attempt", "send", "save"}

\* What a run that is at a step has behind it, by the ledger, the transfers and
\* the jobs.
Reached(p, step, en, tr, jb) ==
    /\ step \in {"submit-ach", "schedule-settlement", "mark-submitted"} => <<p, "hold">> \in en
    /\ step \in {"schedule-settlement", "mark-submitted"} => tr[p] # "none"
    /\ step = "mark-submitted" => jb[SettleJob(p)].status # "absent"
    /\ step \in {"release-funds", "notify-returned"} => tr[p] = "returned"
    /\ step = "notify-returned" => <<p, "release">> \in en
    /\ step \in {"post-ledger", "notify-paid"} => tr[p] = "settled"
    /\ step = "notify-paid" => <<p, "post">> \in en

\* What a step that is done has left there.
Effect(p, step, en, tr, jb) ==
    /\ step = "reserve-funds" => <<p, "hold">> \in en
    /\ step = "submit-ach" => tr[p] # "none"
    /\ step = "schedule-settlement" => jb[SettleJob(p)].status # "absent"
    /\ step = "release-funds" => <<p, "release">> \in en
    /\ step = "post-ledger" => <<p, "post">> \in en

LastSteps == {"mark-submitted", "notify-returned", "notify-paid"}

\* Where a run of a job can be.
Placed(x) ==
    /\ x.pc \in {"load", "do", "save"} => x.step # "none"
    /\ x.pc = "lock" => x.step = "reserve-funds"
    /\ x.pc \in {"attempt", "send"} => x.step = "submit-ach"
    /\ x.pc = "status" => x.job[2] = "settlement"
    /\ x.pc \in Abandoning => x.job[2] = "payout"
    /\ x.pc = "close" => x.step \in LastSteps /\ x.job[2] = "settlement"
    /\ x.pc = "complete" => x.step \in LastSteps

RunOK(x, en, tr, jb, pays) ==
    x.pc # "idle" =>
        /\ x.job \in Job /\ jb[x.job].status # "absent"
        /\ x.step \in IF x.job[2] = "payout" THEN PayoutSteps ELSE SettleSteps \cup {"none"}
        /\ Placed(x)
        /\ x.pc \in Stepping \cup {"close", "complete"} => Reached(x.job[1], x.step, en, tr, jb)
        /\ x.pc = "save" => Effect(x.job[1], x.step, en, tr, jb)
        /\ x.pc = "send" => pays[x.job[1]].scenario # "rejected"

\* What only a run that no other run of its payout meets can rely on.
Alone(x, en, tr, pays, ov) ==
    x.pc # "idle" /\ x.job[2] = "payout" /\ x.job[1] \notin ov =>
        /\ x.pc = "lock" => <<x.job[1], "hold">> \notin en
        /\ x.pc \in {"attempt", "send", "abandon"} => tr[x.job[1]] = "none"
        /\ x.pc = "abandon" => \/ <<x.job[1], "hold">> \notin en
                               \/ pays[x.job[1]].scenario = "rejected"

Runs == \A s \in Slot : /\ RunOK(run[s], entries, transfer, jobs, payouts)
                        /\ Alone(run[s], entries, transfer, payouts, overtaken)

Serial == \A s, t \in Slot : \A p \in Payout :
              Paying(s, p) /\ Paying(t, p) /\ p \notin overtaken => s = t

Saves == \A j \in Job : \A step \in PayoutSteps \cup SettleSteps :
             <<j, step>> \in saved => Effect(j[1], step, entries, transfer, jobs)

\* There is a copy of a job only where there is the original.
Originated(p, jb) ==
    \A kind \in {"payout", "settlement"} : \A c \in Copy :
        jb[<<p, kind, c>>].status # "absent" => jb[<<p, kind, Original>>].status # "absent"

\* One payout's rows.
Money(p) ==
    /\ Originated(p, jobs)
    /\ transfer[p] # "none" => Booked(p, "hold")
    /\ Booked(p, "release") => Booked(p, "hold")
    /\ Booked(p, "hold") => jobs[PayJob(p)].status # "absent"
    /\ payouts[p].scenario = "rejected" => transfer[p] = "none"
    /\ Booked(p, "release") /\ p \notin overtaken =>
          payouts[p].scenario = "rejected" \/ transfer[p] = "returned"
    /\ jobs[SettleJob(p)].status # "absent" => transfer[p] # "none"
    /\ jobs[PayJob(p)].status = "succeeded" => jobs[SettleJob(p)].status # "absent"
    /\ jobs[SettleJob(p)].status = "succeeded" => Booked(p, "post") \/ Booked(p, "release")
    /\ jobs[PayJob(p)].status # "pruned" /\ jobs[SettleJob(p)].status # "pruned"
    /\ request[p] = "none" => jobs[PayJob(p)].status = "absent"

Books == \A p \in Payout : Money(p)

PInv == StoreInv /\ PayTypeOK /\ Books /\ TruthTold /\ Saves /\ Runs /\ Serial

-----------------------------------------------------------------------------
(***************************************************************************)
(* What only grows.                                                        *)
(***************************************************************************)
Moves(old, new) == new = old \/ (old \notin {"settled", "returned"} /\ new # "none")

Grows ==
    /\ entries \subseteq entries'
    /\ \A p \in Payout : Moves(transfer[p], transfer'[p])
    /\ \A j \in Job : jobs[j].status # "absent" => jobs'[j].status # "absent"
    /\ \A j \in Job : jobs[j].status # "absent"
                         => payouts'[j[1]].scenario = payouts[j[1]].scenario
    /\ overtaken \subseteq overtaken'

\* A job is the payout's or the settlement's.
LEMMA JobParts ==
    /\ \A j \in Job : /\ j[1] \in Payout /\ j[2] \in {"payout", "settlement"} /\ j[3] \in Copy
                      /\ j = <<j[1], j[2], j[3]>>
    /\ \A p \in Payout : /\ PayJob(p) \in Job /\ SettleJob(p) \in Job
                         /\ PayJob(p)[1] = p /\ PayJob(p)[2] = "payout"
                         /\ SettleJob(p)[1] = p /\ SettleJob(p)[2] = "settlement"
                         /\ PayJob(p)[3] = Original /\ SettleJob(p)[3] = Original
    /\ \A p \in Payout : \A kind \in {"payout", "settlement"} : \A c \in Copy :
           /\ <<p, kind, c>> \in Job
           /\ <<p, kind, c>>[1] = p /\ <<p, kind, c>>[2] = kind /\ <<p, kind, c>>[3] = c
BY PaymentsAssumption DEF PayJob, SettleJob

\* The originals of a payout's jobs, by its copies.
LEMMA OriginalThere ==
    ASSUME NEW j \in Job, jobs[j].status # "absent", Money(j[1])
    PROVE  /\ j[2] = "payout" => jobs[PayJob(j[1])].status # "absent"
           /\ j[2] = "settlement" => jobs[SettleJob(j[1])].status # "absent"
<1>1. j = <<j[1], j[2], j[3]>> /\ j[2] \in {"payout", "settlement"} /\ j[3] \in Copy
  BY JobParts
<1> DEFINE p == j[1]
           kind == j[2]
           c == j[3]
<1>2. jobs[<<p, kind, c>>].status # "absent"
  BY <1>1
<1> HIDE DEF p, kind, c
<1>3. jobs[<<p, kind, Original>>].status # "absent"
  BY <1>1, <1>2 DEF Money, Originated, p, kind, c
<1> QED
  BY <1>3 DEF PayJob, SettleJob, p, kind

\* The steps of the two workflows are different ones.
LEMMA StepsApart ==
    /\ {"reserve-funds", "submit-ach", "schedule-settlement", "mark-submitted"} = PayoutSteps
    /\ PayoutSteps \cap (SettleSteps \cup {"none"}) = {}
BY DEF PayoutSteps, SettleSteps

LEMMA ReachedGrows ==
    ASSUME Grows, NEW p \in Payout, NEW step
    PROVE  /\ Reached(p, step, entries, transfer, jobs) => Reached(p, step, entries', transfer', jobs')
           /\ Effect(p, step, entries, transfer, jobs) => Effect(p, step, entries', transfer', jobs')
<1>1. SettleJob(p) \in Job
  BY JobParts
<1> QED
  BY <1>1 DEF Grows, Moves, Reached, Effect

LEMMA RunGrows ==
    ASSUME Grows, NEW x, RunOK(x, entries, transfer, jobs, payouts)
    PROVE  RunOK(x, entries', transfer', jobs', payouts')
<1> SUFFICES ASSUME x.pc # "idle" PROVE RunOK(x, entries', transfer', jobs', payouts')
  BY DEF RunOK
<1> DEFINE p == x.job[1]
<1>1. x.job \in Job /\ p \in Payout
  BY JobParts DEF RunOK
<1>2. jobs'[x.job].status # "absent"
  BY <1>1 DEF RunOK, Grows
<1>3. x.pc \in Stepping \cup {"close", "complete"} => Reached(p, x.step, entries', transfer', jobs')
  BY <1>1, ReachedGrows DEF RunOK
<1>4. x.pc = "save" => Effect(p, x.step, entries', transfer', jobs')
  BY <1>1, ReachedGrows DEF RunOK
<1>5. x.pc = "send" => payouts'[p].scenario # "rejected"
  <2> SUFFICES ASSUME x.pc = "send" PROVE payouts'[p].scenario # "rejected"
    OBVIOUS
  <2> QED
    BY <1>1 DEF RunOK, Grows
<1> QED
  BY <1>1, <1>2, <1>3, <1>4, <1>5 DEF RunOK

LEMMA SavesGrow ==
    ASSUME PInv, Grows,
           \A j \in Job : \A step \in PayoutSteps \cup SettleSteps :
               <<j, step>> \in saved' =>
                   <<j, step>> \in saved \/ Effect(j[1], step, entries, transfer, jobs)
    PROVE  Saves'
<1> SUFFICES ASSUME NEW j \in Job, NEW step \in PayoutSteps \cup SettleSteps, <<j, step>> \in saved'
             PROVE  Effect(j[1], step, entries', transfer', jobs')
  BY DEF Saves
<1>1. Effect(j[1], step, entries, transfer, jobs)
  BY DEF PInv, Saves
<1> QED
  BY <1>1, JobParts, ReachedGrows

\* A step of a slot leaves the others as they were.  A hold it books or a
\* transfer it sends is that of the payout it runs.
LEMMA SlotKeeps ==
    ASSUME PInv, Grows, overtaken' = overtaken,
           NEW s \in Slot, run[s].pc # "idle", NEW x, run' = [run EXCEPT ![s] = x],
           x.pc = "idle" \/ x.job = run[s].job,
           \A p \in Payout :
               \/ Pays(run[s].job, p)
               \/ /\ <<p, "hold">> \in entries' => <<p, "hold">> \in entries
                  /\ transfer[p] = "none" => transfer'[p] = "none",
           RunOK(x, entries', transfer', jobs', payouts'),
           Alone(x, entries', transfer', payouts', overtaken')
    PROVE  Runs' /\ Serial'
<1>1. \A t \in Slot : run'[t] = IF t = s THEN x ELSE run[t]
  BY DEF PInv, PayTypeOK
<1>2. \A t \in Slot : RunOK(run'[t], entries', transfer', jobs', payouts')
  <2> TAKE t \in Slot
  <2>1. RunOK(run[t], entries, transfer, jobs, payouts)
    BY DEF PInv, Runs
  <2> QED
    BY <1>1, <2>1, RunGrows
<1>3. \A t \in Slot : Alone(run'[t], entries', transfer', payouts', overtaken')
  <2> TAKE t \in Slot
  <2>1. CASE t = s
    BY <1>1, <2>1
  <2>2. CASE t # s
    <3> DEFINE y == run[t]
               p == y.job[1]
    <3> SUFFICES ASSUME y.pc # "idle", y.job[2] = "payout", p \notin overtaken
                 PROVE  Alone(y, entries', transfer', payouts', overtaken')
      BY <1>1, <2>2 DEF Alone
    <3>1. /\ RunOK(y, entries, transfer, jobs, payouts)
          /\ Alone(y, entries, transfer, payouts, overtaken)
      BY DEF PInv, Runs
    <3>2. p \in Payout /\ Paying(t, p) /\ y.job \in Job /\ jobs[y.job].status # "absent"
      BY <3>1, JobParts DEF RunOK, Paying, Pays, At
    <3>3. ~Pays(run[s].job, p)
      BY <2>2, <3>2 DEF PInv, Serial, Paying, At
    <3>4. /\ <<p, "hold">> \in entries' => <<p, "hold">> \in entries
          /\ transfer[p] = "none" => transfer'[p] = "none"
          /\ payouts'[p].scenario = payouts[p].scenario
      BY <3>2, <3>3 DEF Grows
    <3> QED
      BY <3>1, <3>4 DEF Alone
  <2> QED
    BY <2>1, <2>2
<1>4. Serial'
  <2> SUFFICES ASSUME NEW t \in Slot, NEW u \in Slot, NEW p \in Payout, p \notin overtaken,
                      run'[t].pc # "idle", Pays(run'[t].job, p),
                      run'[u].pc # "idle", Pays(run'[u].job, p)
               PROVE  t = u
    BY DEF Serial, Paying, At
  <2>1. Paying(t, p) /\ Paying(u, p)
    BY <1>1 DEF Paying, At
  <2> QED
    BY <2>1 DEF PInv, Serial
<1> QED
  BY <1>2, <1>3, <1>4 DEF Runs

\* What the others do leaves the runs alone, or ends them.
LEMMA OthersKeepRuns ==
    ASSUME PInv, Grows, UNCHANGED <<entries, overtaken>>,
           \A t \in Slot : run'[t] = run[t] \/ run'[t].pc = "idle",
           \A p \in Payout : transfer[p] = "none" => transfer'[p] = "none"
    PROVE  Runs' /\ Serial'
<1>1. \A t \in Slot : RunOK(run'[t], entries', transfer', jobs', payouts')
  <2> TAKE t \in Slot
  <2>1. RunOK(run[t], entries, transfer, jobs, payouts)
    BY DEF PInv, Runs
  <2>2. CASE run'[t] = run[t]
    BY <2>1, <2>2, RunGrows
  <2>3. CASE run'[t].pc = "idle"
    BY <2>3 DEF RunOK
  <2> QED
    BY <2>2, <2>3
<1>2. \A t \in Slot : Alone(run'[t], entries', transfer', payouts', overtaken')
  <2> TAKE t \in Slot
  <2> DEFINE y == run[t]
             p == y.job[1]
  <2> SUFFICES ASSUME y.pc # "idle", y.job[2] = "payout", p \notin overtaken, run'[t] = y
               PROVE  Alone(y, entries', transfer', payouts', overtaken')
    BY DEF Alone
  <2>1. /\ RunOK(y, entries, transfer, jobs, payouts)
        /\ Alone(y, entries, transfer, payouts, overtaken)
    BY DEF PInv, Runs
  <2>2. p \in Payout /\ y.job \in Job /\ jobs[y.job].status # "absent"
    BY <2>1, JobParts DEF RunOK
  <2>3. payouts'[p].scenario = payouts[p].scenario /\ (transfer[p] = "none" => transfer'[p] = "none")
    BY <2>2 DEF Grows
  <2> QED
    BY <2>1, <2>3 DEF Alone
<1>3. Serial'
  <2> SUFFICES ASSUME NEW t \in Slot, NEW u \in Slot, NEW p \in Payout, p \notin overtaken,
                      run'[t].pc # "idle", Pays(run'[t].job, p),
                      run'[u].pc # "idle", Pays(run'[u].job, p)
               PROVE  t = u
    BY DEF Serial, Paying, At
  <2>1. run'[t] = run[t] /\ run'[u] = run[u]
    OBVIOUS
  <2> QED
    BY <2>1 DEF PInv, Serial, Paying, At
<1> QED
  BY <1>1, <1>2, <1>3 DEF Runs

-----------------------------------------------------------------------------
(***************************************************************************)
(* A slot that goes on.                                                    *)
(***************************************************************************)
Points == Calling \cup Abandoning \cup Ending
Steps == PayoutSteps \cup SettleSteps \cup {"none"}
Spot(pc, j, step) == [pc |-> pc, job |-> j, step |-> step]

TablesTyped ==
    /\ saved \subseteq Job \X (PayoutSteps \cup SettleSteps)
    /\ payouts \in [Payout -> [status : {"absent", "pending", "submitted", "failed", "paid", "returned"},
                              scenario : {"none", "ordinary", "flaky", "returned", "rejected"}]]
    /\ request \in [Payout -> {"none", "inserted", "enqueued", "refused"}]
    /\ entries \subseteq Payout \X {"hold", "post", "release"}
    /\ transfer \in [Payout -> {"none", "early", "due", "settled", "returned"}]
    /\ attempts \in [Payout -> 0..FlakyFailures + 1]
    /\ told \in [Payout -> SUBSET {"failed", "returned", "paid"}]

\* What is known of a busy slot.
LEMMA SlotFacts ==
    ASSUME PInv, NEW s \in Slot, run[s].pc # "idle"
    PROVE  /\ run \in [Slot -> RunState] /\ run[s] \in RunState /\ TablesTyped
           /\ run[s].job \in Job /\ P(s) \in Payout /\ jobs[run[s].job].status # "absent"
           /\ run[s].job[2] \in {"payout", "settlement"}
           /\ run[s].job[2] = "payout" =>
                 Pays(run[s].job, P(s)) /\ jobs[PayJob(P(s))].status # "absent"
           /\ run[s].job[2] = "settlement" => jobs[SettleJob(P(s))].status # "absent"
           /\ RunOK(run[s], entries, transfer, jobs, payouts)
           /\ Alone(run[s], entries, transfer, payouts, overtaken)
           /\ Money(P(s))
<1>1. RunOK(run[s], entries, transfer, jobs, payouts) /\ run \in [Slot -> RunState] /\ TablesTyped
  BY DEF PInv, Runs, PayTypeOK, TablesTyped
<1>2. run[s].job \in Job /\ jobs[run[s].job].status # "absent"
  BY <1>1 DEF RunOK
<1>3. P(s) = run[s].job[1] /\ P(s) \in Payout /\ run[s].job[2] \in {"payout", "settlement"}
  BY <1>2, JobParts DEF P
<1>4. Money(P(s))
  BY <1>3 DEF PInv, Books
<1>5. /\ run[s].job[2] = "payout" => jobs[PayJob(P(s))].status # "absent"
      /\ run[s].job[2] = "settlement" => jobs[SettleJob(P(s))].status # "absent"
  BY <1>2, <1>3, <1>4, OriginalThere
<1> QED
  BY <1>1, <1>2, <1>3, <1>4, <1>5 DEF PInv, Runs, Pays

LEMMA GoesSpot ==
    ASSUME PInv, NEW s \in Slot, run[s].pc # "idle"
    PROVE  /\ \A pc : Goes(s, pc) => run' = [run EXCEPT ![s] = Spot(pc, run[s].job, run[s].step)]
           /\ \A step : Begins(s, step) => run' = [run EXCEPT ![s] = Spot("load", run[s].job, step)]
<1>1. run \in [Slot -> RunState] /\ run[s] \in RunState
  BY SlotFacts
<1>2. \A pc : [run[s] EXCEPT !.pc = pc] = Spot(pc, run[s].job, run[s].step)
  BY <1>1 DEF RunState, Spot
<1>3. \A step : [run[s] EXCEPT !.pc = "load", !.step = step] = Spot("load", run[s].job, step)
  <2> TAKE step
  <2>1. [run[s] EXCEPT !.pc = "load", !.step = step]
           = [[run[s] EXCEPT !.pc = "load"] EXCEPT !.step = step]
    BY <1>1 DEF RunState
  <2>2. [Spot("load", run[s].job, run[s].step) EXCEPT !.step = step] = Spot("load", run[s].job, step)
    BY DEF Spot
  <2> QED
    BY <1>2, <2>1, <2>2
<1>4. ASSUME NEW pc, Goes(s, pc)
      PROVE  run' = [run EXCEPT ![s] = Spot(pc, run[s].job, run[s].step)]
  <2>1. run' = [run EXCEPT ![s] = [run[s] EXCEPT !.pc = pc]]
    BY <1>1, <1>4 DEF Goes
  <2> QED
    BY <1>2, <2>1
<1>5. ASSUME NEW step, Begins(s, step)
      PROVE  run' = [run EXCEPT ![s] = Spot("load", run[s].job, step)]
  <2>1. run' = [run EXCEPT ![s] = [run[s] EXCEPT !.pc = "load", !.step = step]]
    BY <1>1, <1>5 DEF Begins
  <2> QED
    BY <1>3, <2>1
<1> QED
  BY <1>4, <1>5

\* A slot's step keeps the invariant if what it does to the tables does, and
\* where it goes is sound.
LEMMA SlotStep ==
    ASSUME PInv, Grows, StoreInv', TablesTyped', Books', TruthTold', Saves',
           overtaken' = overtaken,
           NEW s \in Slot, run[s].pc # "idle", NEW pc \in Points, NEW step \in Steps,
           run' = [run EXCEPT ![s] = Spot(pc, run[s].job, step)],
           \A p \in Payout :
               \/ Pays(run[s].job, p)
               \/ /\ <<p, "hold">> \in entries' => <<p, "hold">> \in entries
                  /\ transfer[p] = "none" => transfer'[p] = "none",
           RunOK(Spot(pc, run[s].job, step), entries', transfer', jobs', payouts'),
           Alone(Spot(pc, run[s].job, step), entries', transfer', payouts', overtaken')
    PROVE  PInv'
<1> DEFINE x == Spot(pc, run[s].job, step)
<1>1. run \in [Slot -> RunState] /\ run[s].job \in Job
  BY SlotFacts
<1>2. x \in RunState /\ x.job = run[s].job
  BY <1>1 DEF Spot, RunState, Points, Steps
<1> HIDE DEF x
<1>3. run' \in [Slot -> RunState]
  BY <1>1, <1>2 DEF x
<1>4. Runs' /\ Serial'
  BY <1>2, SlotKeeps DEF x
<1>5. PayTypeOK'
  BY <1>3 DEF PayTypeOK, TablesTyped
<1> QED
  BY <1>4, <1>5 DEF PInv

\* The tables the books are about.
books == <<jobs, payouts, request, entries, transfer, told, overtaken>>

LEMMA SameBooks ==
    ASSUME PInv, UNCHANGED books
    PROVE  StoreInv' /\ Books' /\ TruthTold' /\ Grows
<1>1. StoreInv' /\ Grows
  BY DEF books, PInv, StoreInv, Grows, Moves
<1>2. Books' /\ TruthTold'
  BY DEF books, PInv, Books, Money, TruthTold, Booked
<1> QED
  BY <1>1, <1>2

LEMMA SlotTurns ==
    ASSUME PInv, UNCHANGED books, TablesTyped',
           NEW s \in Slot, run[s].pc # "idle", NEW pc \in Points, NEW step \in Steps,
           run' = [run EXCEPT ![s] = Spot(pc, run[s].job, step)],
           saved' = saved \/ (/\ saved' = saved \cup {Checkpoint(s)}
                              /\ Effect(P(s), run[s].step, entries, transfer, jobs)),
           RunOK(Spot(pc, run[s].job, step), entries, transfer, jobs, payouts),
           Alone(Spot(pc, run[s].job, step), entries, transfer, payouts, overtaken)
    PROVE  PInv'
<1>1. StoreInv' /\ Books' /\ TruthTold' /\ Grows
  BY SameBooks
<1>2. Saves'
  BY <1>1, SavesGrow DEF Checkpoint, P
<1>3. /\ overtaken' = overtaken /\ entries' = entries /\ transfer' = transfer
      /\ jobs' = jobs /\ payouts' = payouts
  BY DEF books
<1> QED
  BY <1>1, <1>2, <1>3, SlotStep

\* After a step that is done, a run is at the next one, or has them all behind
\* it.
LEMMA AdvanceSpot ==
    ASSUME PInv, NEW s \in Slot, run[s].pc \in {"load", "save"}, Advances(s),
           Effect(P(s), run[s].step, entries, transfer, jobs)
    PROVE  \E pc \in Points, step \in Steps :
               /\ run' = [run EXCEPT ![s] = Spot(pc, run[s].job, step)]
               /\ RunOK(Spot(pc, run[s].job, step), entries, transfer, jobs, payouts)
               /\ Alone(Spot(pc, run[s].job, step), entries, transfer, payouts, overtaken)
<1> DEFINE j == run[s].job
           p == P(s)
           old == run[s].step
<1>1. /\ j \in Job /\ p \in Payout /\ jobs[j].status # "absent" /\ p = j[1]
      /\ RunOK(run[s], entries, transfer, jobs, payouts)
  BY SlotFacts DEF P
<1>2. /\ Reached(p, old, entries, transfer, jobs) /\ old # "none"
      /\ old \in IF j[2] = "payout" THEN PayoutSteps ELSE SettleSteps \cup {"none"}
  BY <1>1 DEF RunOK, Placed, Stepping, P
<1>3. j[2] \in {"payout", "settlement"}
  BY <1>1, JobParts
<1>4. CASE NextStep(old) # "none"
  <2> DEFINE next == NextStep(old)
  <2>1. next \in IF j[2] = "payout" THEN PayoutSteps ELSE SettleSteps
    BY <1>2, <1>4 DEF NextStep, PayoutSteps, SettleSteps
  <2>2. Reached(p, next, entries, transfer, jobs)
    BY <1>2, <1>4 DEF NextStep, PayoutSteps, SettleSteps, Reached, Effect
  <2>3. run' = [run EXCEPT ![s] = Spot("load", j, next)]
    BY <1>4, GoesSpot DEF Advances
  <2> HIDE DEF next
  <2>4. next \in Steps /\ "load" \in Points /\ next # "none"
    BY <1>4, <2>1 DEF Steps, Points, Calling, next
  <2>5. RunOK(Spot("load", j, next), entries, transfer, jobs, payouts)
    BY <1>1, <2>1, <2>2, <2>4 DEF RunOK, Spot, Placed, Abandoning
  <2>6. Alone(Spot("load", j, next), entries, transfer, payouts, overtaken)
    BY DEF Alone, Spot
  <2> QED
    BY <2>3, <2>4, <2>5, <2>6
<1>5. CASE NextStep(old) = "none"
  <2> DEFINE pc == IF j[2] = "payout" THEN "complete" ELSE "close"
  <2>1. old \in LastSteps
    BY <1>2, <1>5 DEF NextStep, PayoutSteps, SettleSteps, LastSteps
  <2>2. run' = [run EXCEPT ![s] = Spot(pc, j, old)]
    BY <1>3, <1>5, GoesSpot DEF Advances
  <2>3. old \in Steps /\ pc \in Points /\ pc \in {"complete", "close"}
    BY <1>2, <1>3 DEF Steps, Points, Calling, Ending
  <2>4. RunOK(Spot(pc, j, old), entries, transfer, jobs, payouts)
    BY <1>1, <1>2, <1>3, <2>1 DEF RunOK, Spot, Placed, Abandoning
  <2>5. Alone(Spot(pc, j, old), entries, transfer, payouts, overtaken)
    BY <2>3 DEF Alone, Spot
  <2> QED
    BY <2>2, <2>3, <2>4, <2>5
<1> QED
  BY <1>4, <1>5

-----------------------------------------------------------------------------
(***************************************************************************)
(* Steps that change no books.                                             *)
(***************************************************************************)
LEMMA LoadKeeps ==
    ASSUME PInv, NEW s \in Slot, LoadStep(s)
    PROVE  PInv'
<1>1. run[s].pc = "load" /\ UNCHANGED <<books, saved, payouts, request, money, told>>
  BY DEF LoadStep, At, books, money
<1>2. TablesTyped'
  BY <1>1 DEF PInv, PayTypeOK, TablesTyped, money
<1>3. /\ P(s) \in Payout /\ run[s].job \in Job /\ run[s].step \in Steps /\ run[s].step # "none"
      /\ RunOK(run[s], entries, transfer, jobs, payouts)
  BY <1>1, SlotFacts DEF RunOK, Placed, Steps
<1>4. CASE Checkpoint(s) \in saved
  <2>1. Effect(P(s), run[s].step, entries, transfer, jobs)
    BY <1>3, <1>4 DEF PInv, Saves, Checkpoint, P, Steps
  <2>2. Advances(s)
    BY <1>4 DEF LoadStep
  <2> QED
    BY <1>1, <1>2, <2>1, <2>2, AdvanceSpot, SlotTurns
<1>5. CASE Checkpoint(s) \notin saved
  <2>1. run' = [run EXCEPT ![s] = Spot("do", run[s].job, run[s].step)]
    BY <1>1, <1>5, GoesSpot DEF LoadStep
  <2>2. RunOK(Spot("do", run[s].job, run[s].step), entries, transfer, jobs, payouts)
    BY <1>1, <1>3 DEF RunOK, Spot, Placed, Stepping, Abandoning
  <2>3. Alone(Spot("do", run[s].job, run[s].step), entries, transfer, payouts, overtaken)
    BY DEF Alone, Spot
  <2>4. "do" \in Points
    BY DEF Points, Calling
  <2> QED
    BY <1>1, <1>2, <1>3, <2>1, <2>2, <2>3, <2>4, SlotTurns
<1> QED
  BY <1>4, <1>5

\* A run may always give up.
LEMMA EndSpot ==
    ASSUME PInv, NEW s \in Slot, run[s].pc # "idle", NEW pc \in {"fail", "permanent"}, Goes(s, pc)
    PROVE  /\ run' = [run EXCEPT ![s] = Spot(pc, run[s].job, run[s].step)]
           /\ pc \in Points /\ run[s].step \in Steps
           /\ RunOK(Spot(pc, run[s].job, run[s].step), entries, transfer, jobs, payouts)
           /\ Alone(Spot(pc, run[s].job, run[s].step), entries, transfer, payouts, overtaken)
<1>1. run[s].step \in Steps /\ RunOK(run[s], entries, transfer, jobs, payouts)
  BY SlotFacts DEF RunOK, Steps
<1>2. RunOK(Spot(pc, run[s].job, run[s].step), entries, transfer, jobs, payouts)
  BY <1>1 DEF RunOK, Spot, Placed, Stepping, Abandoning
<1>3. Alone(Spot(pc, run[s].job, run[s].step), entries, transfer, payouts, overtaken)
  BY DEF Alone, Spot
<1>4. pc \in Points
  BY DEF Points, Ending
<1> QED
  BY <1>1, <1>2, <1>3, <1>4, GoesSpot

LEMMA SaveKeeps ==
    ASSUME PInv, NEW s \in Slot, SaveStep(s)
    PROVE  PInv'
<1>1. run[s].pc = "save" /\ UNCHANGED <<books, payouts, request, money, told>>
  BY DEF SaveStep, At, books, money
<1>2. /\ run[s].job \in Job /\ run[s].step \in PayoutSteps \cup SettleSteps
      /\ Effect(P(s), run[s].step, entries, transfer, jobs)
  BY <1>1, SlotFacts DEF RunOK, Placed, P
<1>3. TablesTyped'
  <2>1. Checkpoint(s) \in Job \X (PayoutSteps \cup SettleSteps)
    BY <1>2 DEF Checkpoint
  <2>2. saved' = saved \/ saved' = saved \cup {Checkpoint(s)}
    BY DEF SaveStep
  <2> QED
    BY <1>1, <2>1, <2>2 DEF PInv, PayTypeOK, TablesTyped, money
<1>4. CASE Owns(s)
  <2>1. Advances(s) /\ saved' = saved \cup {Checkpoint(s)}
    BY <1>4 DEF SaveStep
  <2> QED
    BY <1>1, <1>2, <1>3, <2>1, AdvanceSpot, SlotTurns
<1>5. CASE ~Owns(s)
  <2>1. Goes(s, "fail") /\ saved' = saved
    BY <1>5 DEF SaveStep
  <2> QED
    BY <1>1, <1>3, <2>1, EndSpot, SlotTurns
<1> QED
  BY <1>4, <1>5

\* The two reads that lock nothing: what they saw stays true of a run that is
\* alone.
LEMMA ReadKeeps ==
    ASSUME PInv, NEW s \in Slot, FindHold(s) \/ LookUp(s)
    PROVE  PInv'
<1>1. run[s].pc = "do" /\ UNCHANGED <<books, saved, payouts, request, money, told>>
  BY DEF FindHold, LookUp, Doing, books, money
<1>2. TablesTyped'
  BY <1>1 DEF PInv, PayTypeOK, TablesTyped, money
<1>3. /\ P(s) \in Payout /\ run[s].job \in Job /\ run[s].step \in Steps /\ P(s) = run[s].job[1]
      /\ RunOK(run[s], entries, transfer, jobs, payouts)
  BY <1>1, SlotFacts DEF RunOK, Placed, Steps, P
<1>4. ASSUME NEW pc \in {"save", "lock", "attempt"}, Goes(s, pc),
             RunOK(Spot(pc, run[s].job, run[s].step), entries, transfer, jobs, payouts),
             Alone(Spot(pc, run[s].job, run[s].step), entries, transfer, payouts, overtaken)
      PROVE  PInv'
  <2>1. pc \in Points
    BY DEF Points, Calling
  <2>2. run' = [run EXCEPT ![s] = Spot(pc, run[s].job, run[s].step)]
    BY <1>1, <1>4, GoesSpot
  <2> QED
    BY <1>1, <1>2, <1>3, <1>4, <2>1, <2>2, SlotTurns
<1>5. CASE FindHold(s)
  <2>1. run[s].step = "reserve-funds"
    BY <1>5 DEF FindHold, Doing
  <2>2. CASE Booked(P(s), "hold")
    <3>1. RunOK(Spot("save", run[s].job, run[s].step), entries, transfer, jobs, payouts)
      BY <1>1, <1>3, <2>1, <2>2 DEF RunOK, Spot, Placed, Stepping, Abandoning, Effect, Booked
    <3>2. Alone(Spot("save", run[s].job, run[s].step), entries, transfer, payouts, overtaken)
      BY DEF Alone, Spot
    <3> QED
      BY <1>4, <1>5, <2>2, <3>1, <3>2 DEF FindHold
  <2>3. CASE ~Booked(P(s), "hold")
    <3>1. RunOK(Spot("lock", run[s].job, run[s].step), entries, transfer, jobs, payouts)
      BY <1>1, <1>3, <2>1 DEF RunOK, Spot, Placed, Stepping, Abandoning
    <3>2. Alone(Spot("lock", run[s].job, run[s].step), entries, transfer, payouts, overtaken)
      BY <1>3, <2>3 DEF Alone, Spot, Booked
    <3> QED
      BY <1>4, <1>5, <2>3, <3>1, <3>2 DEF FindHold
  <2> QED
    BY <2>2, <2>3
<1>6. CASE LookUp(s)
  <2>1. run[s].step = "submit-ach"
    BY <1>6 DEF LookUp, Doing
  <2>2. CASE transfer[P(s)] # "none"
    <3>1. RunOK(Spot("save", run[s].job, run[s].step), entries, transfer, jobs, payouts)
      BY <1>1, <1>3, <2>1, <2>2 DEF RunOK, Spot, Placed, Stepping, Abandoning, Effect
    <3>2. Alone(Spot("save", run[s].job, run[s].step), entries, transfer, payouts, overtaken)
      BY DEF Alone, Spot
    <3> QED
      BY <1>4, <1>6, <2>2, <3>1, <3>2 DEF LookUp
  <2>3. CASE transfer[P(s)] = "none"
    <3>1. RunOK(Spot("attempt", run[s].job, run[s].step), entries, transfer, jobs, payouts)
      BY <1>1, <1>3, <2>1 DEF RunOK, Spot, Placed, Stepping, Abandoning
    <3>2. Alone(Spot("attempt", run[s].job, run[s].step), entries, transfer, payouts, overtaken)
      BY <1>3, <2>3 DEF Alone, Spot
    <3> QED
      BY <1>4, <1>6, <2>3, <3>1, <3>2 DEF LookUp
  <2> QED
    BY <2>2, <2>3
<1> QED
  BY <1>5, <1>6

\* The rail's decision is the same on every attempt but for the flaky amounts,
\* which it does not refuse for good.
LEMMA AttemptKeeps ==
    ASSUME PInv, NEW s \in Slot, RecordAttempt(s)
    PROVE  PInv'
<1> DEFINE n == IF attempts[P(s)] > FlakyFailures THEN attempts[P(s)] ELSE attempts[P(s)] + 1
           scenario == payouts[P(s)].scenario
           pc == Outcome(scenario, n)
<1>1. /\ run[s].pc = "attempt" /\ UNCHANGED <<books, saved, payouts, request, entries, transfer, told>>
      /\ attempts' = [attempts EXCEPT ![P(s)] = n] /\ Goes(s, pc)
  BY DEF RecordAttempt, At, books
<1>2. /\ P(s) \in Payout /\ run[s].job \in Job /\ run[s].step \in Steps /\ P(s) = run[s].job[1]
      /\ RunOK(run[s], entries, transfer, jobs, payouts) /\ run[s].step = "submit-ach"
      /\ Alone(run[s], entries, transfer, payouts, overtaken) /\ TablesTyped
  BY <1>1, SlotFacts DEF RunOK, Placed, Steps, P
<1>3. TablesTyped'
  <2>1. n \in 0..FlakyFailures + 1
    BY <1>2, PaymentsAssumption DEF TablesTyped
  <2> HIDE DEF n
  <2> QED
    BY <1>1, <1>2, <2>1 DEF TablesTyped
<1>4. /\ pc \in {"abandon", "fail", "send"}
      /\ pc = "abandon" => scenario = "rejected"
      /\ pc = "send" => scenario # "rejected"
  BY DEF Outcome
<1> HIDE DEF n, pc
<1>5. run' = [run EXCEPT ![s] = Spot(pc, run[s].job, run[s].step)] /\ pc \in Points
  BY <1>1, <1>4, GoesSpot DEF Points, Calling, Abandoning, Ending
<1>6. run[s].job[2] = "payout"
  BY <1>2, JobParts, StepsApart, <1>1 DEF RunOK
<1>7. RunOK(Spot(pc, run[s].job, run[s].step), entries, transfer, jobs, payouts)
  BY <1>1, <1>2, <1>4, <1>6 DEF RunOK, Spot, Placed, Stepping, Abandoning
<1>8. Alone(Spot(pc, run[s].job, run[s].step), entries, transfer, payouts, overtaken)
  BY <1>1, <1>2, <1>4 DEF Alone, Spot
<1> QED
  BY <1>1, <1>2, <1>3, <1>5, <1>7, <1>8, SlotTurns

LEMMA IdleKeeps ==
    ASSUME PInv, UNCHANGED <<books, saved, money>>,
           \/ \E s \in Slot : run' = [run EXCEPT ![s] = Idle]
           \/ \E w \in Worker : run' = [s \in Slot |-> IF WorkerOf[s] = w THEN Idle ELSE run[s]]
           \/ run' = run
    PROVE  PInv'
<1>1. StoreInv' /\ Books' /\ TruthTold' /\ Grows
  BY SameBooks
<1>2. Saves'
  BY <1>1, SavesGrow
<1>3. run \in [Slot -> RunState] /\ Idle \in RunState /\ Idle.pc = "idle"
  BY DEF PInv, PayTypeOK, Idle, RunState
<1>4. run' \in [Slot -> RunState] /\ \A t \in Slot : run'[t] = run[t] \/ run'[t].pc = "idle"
  BY <1>3
<1>5. Runs' /\ Serial'
  BY <1>1, <1>4, OthersKeepRuns DEF books
<1>6. PayTypeOK'
  BY <1>4 DEF PInv, PayTypeOK, books, money
<1> QED
  BY <1>1, <1>2, <1>5, <1>6 DEF PInv

LEMMA ErrsKeeps ==
    ASSUME PInv, NEW s \in Slot, Errs(s)
    PROVE  PInv'
<1>1. UNCHANGED <<books, saved, money>> /\ TablesTyped'
  BY DEF Errs, books, money, PInv, PayTypeOK, TablesTyped
<1>2. ASSUME run[s].pc # "idle", NEW pc \in {"fail", "permanent"}, Goes(s, pc)
      PROVE  PInv'
  BY <1>1, <1>2, EndSpot, SlotTurns
<1>3. CASE run[s].pc \in Calling \cup Abandoning
  BY <1>2, <1>3, <1>1, IdleKeeps DEF Errs, Calling, Abandoning, Ending
<1>4. CASE run[s].pc \notin Calling \cup Abandoning
  BY <1>1, <1>4, IdleKeeps DEF Errs
<1> QED
  BY <1>3, <1>4

LEMMA CrashKeeps ==
    ASSUME PInv, NEW w \in Worker, Crash(w)
    PROVE  PInv'
<1>1. UNCHANGED <<books, saved, money>>
  BY DEF Crash, books, money
<1> QED
  BY <1>1, IdleKeeps DEF Crash

-----------------------------------------------------------------------------
(***************************************************************************)
(* Steps that write the ledger.                                            *)
(***************************************************************************)
LEMMA EntryBooks ==
    ASSUME PInv, NEW p \in Payout, NEW kind \in {"hold", "post", "release"},
           entries' = entries \/ entries' = entries \cup {<<p, kind>>},
           UNCHANGED <<jobs, saved, payouts, request, transfer, attempts, told, overtaken>>,
           entries' # entries =>
               /\ kind = "hold" => jobs[PayJob(p)].status # "absent"
               /\ kind = "release" =>
                     /\ Booked(p, "hold")
                     /\ p \notin overtaken => \/ payouts[p].scenario = "rejected"
                                              \/ transfer[p] = "returned"
               /\ kind = "post" => transfer[p] = "settled"
    PROVE  StoreInv' /\ TablesTyped' /\ Books' /\ TruthTold' /\ Saves' /\ Grows
<1>1. StoreInv' /\ Grows
  BY DEF PInv, StoreInv, Grows, Moves
<1>2. TablesTyped'
  BY DEF PInv, PayTypeOK, TablesTyped
<1>3. \A q \in Payout : Money(q)'
  <2> TAKE q \in Payout
  <2>1. Money(q)
    BY DEF PInv, Books
  <2>2. \A k : Booked(q, k)' <=> Booked(q, k) \/ (entries' # entries /\ q = p /\ k = kind)
    BY DEF Booked
  <2> QED
    BY <2>1, <2>2 DEF Money
<1>4. TruthTold'
  <2>1. \A q \in Payout, k \in {"hold", "post", "release"} :
           Booked(q, k)' <=> Booked(q, k) \/ (entries' # entries /\ q = p /\ k = kind)
    BY DEF Booked
  <2> QED
    BY <2>1 DEF PInv, TruthTold
<1>5. Saves'
  BY <1>1, SavesGrow
<1> QED
  BY <1>1, <1>2, <1>3, <1>4, <1>5 DEF Books

LEMMA ReserveKeeps ==
    ASSUME PInv, NEW s \in Slot, Reserve(s)
    PROVE  PInv'
<1>1. /\ run[s].pc = "lock"
      /\ UNCHANGED <<jobs, saved, payouts, request, transfer, attempts, told, overtaken>>
  BY DEF Reserve, At
<1>2. /\ P(s) \in Payout /\ run[s].job \in Job /\ run[s].step \in Steps /\ P(s) = run[s].job[1]
      /\ RunOK(run[s], entries, transfer, jobs, payouts) /\ run[s].step = "reserve-funds"
      /\ Alone(run[s], entries, transfer, payouts, overtaken) /\ TablesTyped /\ Money(P(s))
  BY <1>1, SlotFacts DEF RunOK, Placed, Steps, P
<1>3. run[s].job[2] = "payout" /\ Pays(run[s].job, P(s)) /\ jobs[PayJob(P(s))].status # "absent"
  BY <1>1, <1>2, SlotFacts, StepsApart DEF RunOK
<1>4. ASSUME entries' = entries, Goes(s, "abandon") \/ Goes(s, "fail")
      PROVE  PInv'
  <2>1. UNCHANGED books /\ TablesTyped'
    BY <1>1, <1>2, <1>4 DEF books, TablesTyped
  <2>2. CASE Goes(s, "fail")
    BY <1>1, <2>1, <2>2, EndSpot, SlotTurns
  <2>3. CASE Goes(s, "abandon")
    <3>1. "abandon" \in Points /\ run' = [run EXCEPT ![s] = Spot("abandon", run[s].job, run[s].step)]
      BY <1>1, <2>3, GoesSpot DEF Points, Abandoning
    <3>2. RunOK(Spot("abandon", run[s].job, run[s].step), entries, transfer, jobs, payouts)
      BY <1>1, <1>2, <1>3 DEF RunOK, Spot, Placed, Stepping, Abandoning
    <3>3. Alone(Spot("abandon", run[s].job, run[s].step), entries, transfer, payouts, overtaken)
      BY <1>1, <1>2 DEF Alone, Spot, Money, Booked
    <3> QED
      BY <1>1, <1>2, <2>1, <3>1, <3>2, <3>3, SlotTurns
  <2> QED
    BY <1>4, <2>2, <2>3
<1>5. ASSUME entries' = entries \cup {<<P(s), "hold">>}, Goes(s, "save")
      PROVE  PInv'
  <2>1. StoreInv' /\ TablesTyped' /\ Books' /\ TruthTold' /\ Saves' /\ Grows
    BY <1>1, <1>2, <1>3, <1>5, EntryBooks
  <2>2. "save" \in Points /\ run' = [run EXCEPT ![s] = Spot("save", run[s].job, run[s].step)]
    BY <1>1, <1>5, GoesSpot DEF Points, Calling
  <2>3. RunOK(Spot("save", run[s].job, run[s].step), entries', transfer', jobs', payouts')
    BY <1>1, <1>2, <1>3, <1>5 DEF RunOK, Spot, Placed, Stepping, Abandoning, Effect, Reached
  <2>4. Alone(Spot("save", run[s].job, run[s].step), entries', transfer', payouts', overtaken')
    BY DEF Alone, Spot
  <2>5. \A p \in Payout :
            \/ Pays(run[s].job, p)
            \/ /\ <<p, "hold">> \in entries' => <<p, "hold">> \in entries
               /\ transfer[p] = "none" => transfer'[p] = "none"
    BY <1>1, <1>3, <1>5
  <2> QED
    BY <1>1, <1>2, <2>1, <2>2, <2>3, <2>4, <2>5, SlotStep
<1> QED
  BY <1>4, <1>5 DEF Reserve

\* Release, by either workflow.
LEMMA ReleaseEntry ==
    ASSUME PInv, NEW p \in Payout, Release(p)
    PROVE  /\ entries' = entries \/ entries' = entries \cup {<<p, "release">>}
           /\ entries' # entries => Booked(p, "hold")
           /\ Booked(p, "hold") => Booked(p, "release")'
BY DEF Release, Releasable, Booked

LEMMA AbandonReleaseKeeps ==
    ASSUME PInv, NEW s \in Slot, AbandonRelease(s)
    PROVE  PInv'
<1>1. /\ run[s].pc = "abandon" /\ Release(P(s)) /\ Goes(s, "mark-failed")
      /\ UNCHANGED <<jobs, saved, payouts, request, transfer, attempts, told, overtaken>>
  BY DEF AbandonRelease, At
<1>2. /\ P(s) \in Payout /\ run[s].job \in Job /\ run[s].step \in Steps /\ P(s) = run[s].job[1]
      /\ RunOK(run[s], entries, transfer, jobs, payouts) /\ run[s].job[2] = "payout"
      /\ Alone(run[s], entries, transfer, payouts, overtaken)
  BY <1>1, SlotFacts DEF RunOK, Placed, Steps, P, Abandoning
<1>3. StoreInv' /\ TablesTyped' /\ Books' /\ TruthTold' /\ Saves' /\ Grows
  <2>1. Booked(P(s), "hold") /\ P(s) \notin overtaken => payouts[P(s)].scenario = "rejected"
    BY <1>1, <1>2 DEF Alone, Booked
  <2> QED
    BY <1>1, <1>2, <2>1, ReleaseEntry, EntryBooks
<1>4. "mark-failed" \in Points /\ run' = [run EXCEPT ![s] = Spot("mark-failed", run[s].job, run[s].step)]
  BY <1>1, GoesSpot DEF Points, Abandoning
<1>5. RunOK(Spot("mark-failed", run[s].job, run[s].step), entries', transfer', jobs', payouts')
  BY <1>1, <1>2 DEF RunOK, Spot, Placed, Stepping, Abandoning
<1>6. Alone(Spot("mark-failed", run[s].job, run[s].step), entries', transfer', payouts', overtaken')
  BY DEF Alone, Spot
<1>7. \A p \in Payout : <<p, "hold">> \in entries' => <<p, "hold">> \in entries
  BY <1>1, <1>2, ReleaseEntry
<1> QED
  BY <1>1, <1>2, <1>3, <1>4, <1>5, <1>6, <1>7, SlotStep

LEMMA SettleEntryKeeps ==
    ASSUME PInv, NEW s \in Slot, ReleaseFunds(s) \/ PostLedger(s)
    PROVE  PInv'
<1>1. /\ run[s].pc = "do" /\ run[s].step \in {"release-funds", "post-ledger"} /\ Goes(s, "save")
      /\ UNCHANGED <<jobs, saved, payouts, request, transfer, attempts, told, overtaken>>
  BY DEF ReleaseFunds, PostLedger, Doing
<1>2. /\ P(s) \in Payout /\ run[s].job \in Job /\ run[s].step \in Steps /\ P(s) = run[s].job[1]
      /\ RunOK(run[s], entries, transfer, jobs, payouts) /\ Money(P(s))
      /\ Reached(P(s), run[s].step, entries, transfer, jobs)
  BY <1>1, SlotFacts DEF RunOK, Placed, Steps, P, Stepping
<1>3. Booked(P(s), "hold")
  BY <1>1, <1>2 DEF Reached, Money
<1>4. /\ StoreInv' /\ TablesTyped' /\ Books' /\ TruthTold' /\ Saves' /\ Grows
      /\ Effect(P(s), run[s].step, entries', transfer', jobs')
      /\ \A p \in Payout : <<p, "hold">> \in entries' => <<p, "hold">> \in entries
  <2>1. CASE ReleaseFunds(s)
    <3>1. Release(P(s)) /\ run[s].step = "release-funds" /\ transfer[P(s)] = "returned"
      BY <1>2, <2>1 DEF ReleaseFunds, Doing, Reached
    <3>2. StoreInv' /\ TablesTyped' /\ Books' /\ TruthTold' /\ Saves' /\ Grows
      BY <1>1, <1>2, <3>1, ReleaseEntry, EntryBooks
    <3>3. <<P(s), "release">> \in entries' /\ \A p \in Payout : <<p, "hold">> \in entries' => <<p, "hold">> \in entries
      BY <1>2, <1>3, <3>1, ReleaseEntry DEF Booked
    <3> QED
      BY <3>1, <3>2, <3>3 DEF Effect
  <2>2. CASE PostLedger(s)
    <3>1. entries' = entries \cup {<<P(s), "post">>} /\ run[s].step = "post-ledger" /\ transfer[P(s)] = "settled"
      BY <1>2, <1>3, <2>2 DEF PostLedger, Doing, Reached, Posting
    <3>2. StoreInv' /\ TablesTyped' /\ Books' /\ TruthTold' /\ Saves' /\ Grows
      BY <1>1, <1>2, <3>1, EntryBooks
    <3> QED
      BY <3>1, <3>2 DEF Effect
  <2> QED
    BY <2>1, <2>2
<1>5. "save" \in Points /\ run' = [run EXCEPT ![s] = Spot("save", run[s].job, run[s].step)]
  BY <1>1, GoesSpot DEF Points, Calling
<1>6. RunOK(Spot("save", run[s].job, run[s].step), entries', transfer', jobs', payouts')
  <2>1. Reached(P(s), run[s].step, entries', transfer', jobs')
    BY <1>2, <1>4, ReachedGrows
  <2> QED
    BY <1>1, <1>2, <1>4, <2>1 DEF RunOK, Spot, Placed, Abandoning
<1>7. Alone(Spot("save", run[s].job, run[s].step), entries', transfer', payouts', overtaken')
  BY DEF Alone, Spot
<1> QED
  BY <1>1, <1>2, <1>4, <1>5, <1>6, <1>7, SlotStep

-----------------------------------------------------------------------------
(***************************************************************************)
(* Steps at the rail.                                                      *)
(***************************************************************************)
LEMMA TransferBooks ==
    ASSUME PInv, NEW p \in Payout, NEW v \in {"none", "early", "due", "settled", "returned"},
           transfer' = [transfer EXCEPT ![p] = v],
           UNCHANGED <<jobs, saved, payouts, request, entries, attempts, told, overtaken>>,
           \/ v = transfer[p]
           \/ /\ transfer[p] \notin {"settled", "returned"} /\ v # "none"
              /\ Booked(p, "hold") /\ payouts[p].scenario # "rejected"
              /\ Booked(p, "release") => p \in overtaken
    PROVE  StoreInv' /\ TablesTyped' /\ Books' /\ TruthTold' /\ Saves' /\ Grows
<1>1. \A q \in Payout : transfer'[q] = IF q = p THEN v ELSE transfer[q]
  BY DEF PInv, PayTypeOK
<1>2. StoreInv' /\ Grows
  BY <1>1 DEF PInv, StoreInv, Grows, Moves
<1>3. TablesTyped'
  BY DEF PInv, PayTypeOK, TablesTyped
<1>4. \A q \in Payout : Money(q)'
  <2> TAKE q \in Payout
  <2>1. Money(q)
    BY DEF PInv, Books
  <2> QED
    BY <1>1, <2>1 DEF Money, Booked
<1>5. TruthTold'
  BY <1>1 DEF PInv, TruthTold, Booked
<1>6. Saves'
  BY <1>2, SavesGrow
<1> QED
  BY <1>2, <1>3, <1>4, <1>5, <1>6 DEF Books

\* A run that was alone sends only what is held: its payout is not refused, so
\* nobody has released the hold.
LEMMA SendKeeps ==
    ASSUME PInv, NEW s \in Slot, SendTransfer(s)
    PROVE  PInv'
<1>1. /\ run[s].pc = "send" /\ Goes(s, "save")
      /\ transfer' = [transfer EXCEPT ![P(s)] = Accepted(P(s))]
      /\ UNCHANGED <<jobs, saved, payouts, request, entries, attempts, told, overtaken>>
  BY DEF SendTransfer, At
<1>2. /\ P(s) \in Payout /\ run[s].job \in Job /\ run[s].step \in Steps /\ P(s) = run[s].job[1]
      /\ RunOK(run[s], entries, transfer, jobs, payouts) /\ run[s].step = "submit-ach"
      /\ Alone(run[s], entries, transfer, payouts, overtaken) /\ TablesTyped /\ Money(P(s))
      /\ Reached(P(s), run[s].step, entries, transfer, jobs)
      /\ payouts[P(s)].scenario # "rejected"
  BY <1>1, SlotFacts DEF RunOK, Placed, Steps, P, Stepping
<1>3. run[s].job[2] = "payout" /\ Pays(run[s].job, P(s))
  BY <1>1, <1>2, SlotFacts, StepsApart DEF RunOK
<1> DEFINE v == Accepted(P(s))
<1>4. /\ v \in {"none", "early", "due", "settled", "returned"} /\ v # "none"
      /\ v = transfer[P(s)] \/ transfer[P(s)] = "none"
  BY <1>2 DEF Accepted, TablesTyped
<1> HIDE DEF v
<1>5. Booked(P(s), "hold") /\ (transfer[P(s)] = "none" /\ Booked(P(s), "release") => P(s) \in overtaken)
  BY <1>2 DEF Reached, Booked, Money
<1>6. StoreInv' /\ TablesTyped' /\ Books' /\ TruthTold' /\ Saves' /\ Grows
  <2>1. transfer' = [transfer EXCEPT ![P(s)] = v]
    BY <1>1 DEF v
  <2> QED
    BY <1>1, <1>2, <1>4, <1>5, <2>1, TransferBooks
<1>7. "save" \in Points /\ run' = [run EXCEPT ![s] = Spot("save", run[s].job, run[s].step)]
  BY <1>1, GoesSpot DEF Points, Calling
<1>8. RunOK(Spot("save", run[s].job, run[s].step), entries', transfer', jobs', payouts')
  <2>1. Reached(P(s), run[s].step, entries', transfer', jobs')
    BY <1>2, <1>6, ReachedGrows
  <2>2. Effect(P(s), run[s].step, entries', transfer', jobs')
    <3>1. transfer'[P(s)] = v
      BY <1>1, <1>2 DEF TablesTyped, v
    <3> QED
      BY <1>2, <1>4, <3>1 DEF Effect
  <2> QED
    BY <1>1, <1>2, <2>1, <2>2 DEF RunOK, Spot, Placed, Abandoning
<1>9. Alone(Spot("save", run[s].job, run[s].step), entries', transfer', payouts', overtaken')
  BY DEF Alone, Spot
<1>10. \A p \in Payout :
            \/ Pays(run[s].job, p)
            \/ /\ <<p, "hold">> \in entries' => <<p, "hold">> \in entries
               /\ transfer[p] = "none" => transfer'[p] = "none"
  BY <1>1, <1>2, <1>3 DEF TablesTyped
<1> QED
  BY <1>1, <1>2, <1>6, <1>7, <1>8, <1>9, <1>10, SlotStep

LEMMA StatusKeeps ==
    ASSUME PInv, NEW s \in Slot, CheckStatus(s)
    PROVE  PInv'
<1> DEFINE p == P(s)
           v == Resolved(p)
<1>1. /\ run[s].pc = "status" /\ transfer' = [transfer EXCEPT ![p] = v]
      /\ UNCHANGED <<jobs, saved, payouts, request, entries, attempts, told, overtaken>>
  BY DEF CheckStatus, At
<1>2. /\ p \in Payout /\ run[s].job \in Job /\ run[s].step \in Steps /\ p = run[s].job[1]
      /\ RunOK(run[s], entries, transfer, jobs, payouts) /\ run[s].job[2] = "settlement"
      /\ TablesTyped /\ Money(p) /\ jobs[SettleJob(p)].status # "absent"
  BY <1>1, SlotFacts DEF RunOK, Placed, Steps, P
<1>3. /\ v \in {"none", "early", "due", "settled", "returned"}
      /\ v = transfer[p] \/ (transfer[p] = "due" /\ v \in {"settled", "returned"})
  BY <1>2 DEF Resolved, TablesTyped
<1>4. CASE v = "returned" \/ v = "settled"
  <2> DEFINE next == IF v = "returned" THEN "release-funds" ELSE "post-ledger"
  <2>1. run' = [run EXCEPT ![s] = Spot("load", run[s].job, next)]
    BY <1>1, <1>4, GoesSpot DEF CheckStatus
  <2> HIDE DEF v
  <2>2. StoreInv' /\ TablesTyped' /\ Books' /\ TruthTold' /\ Saves' /\ Grows
    BY <1>1, <1>2, <1>3, TransferBooks DEF Money
  <2>3. "load" \in Points /\ next \in Steps /\ next \in SettleSteps
    BY DEF Points, Calling, Steps, SettleSteps
  <2>4. Reached(p, next, entries', transfer', jobs')
    <3>1. transfer'[p] = v
      BY <1>1, <1>2 DEF TablesTyped
    <3> QED
      BY <1>4, <3>1 DEF Reached
  <2>5. RunOK(Spot("load", run[s].job, next), entries', transfer', jobs', payouts')
    <3>1. jobs'[run[s].job].status # "absent" /\ next # "none"
      BY <1>1, <1>2 DEF RunOK
    <3> HIDE DEF next
    <3> QED
      BY <1>2, <2>3, <2>4, <3>1 DEF RunOK, Spot, Placed, Abandoning
  <2>6. Alone(Spot("load", run[s].job, next), entries', transfer', payouts', overtaken')
    BY DEF Alone, Spot
  <2>7. \A q \in Payout : /\ <<q, "hold">> \in entries' => <<q, "hold">> \in entries
                          /\ transfer[q] = "none" => transfer'[q] = "none"
    BY <1>1, <1>2, <1>3 DEF TablesTyped
  <2> HIDE DEF next
  <2> QED
    BY <1>1, <2>1, <2>2, <2>3, <2>5, <2>6, <2>7, SlotStep
<1>5. CASE v # "returned" /\ v # "settled"
  <2>1. Goes(s, "fail")
    BY <1>5 DEF CheckStatus
  <2>2. transfer' = transfer
    BY <1>1, <1>2, <1>3, <1>5 DEF TablesTyped
  <2>3. UNCHANGED books /\ TablesTyped'
    BY <1>1, <1>2, <2>2 DEF books, TablesTyped
  <2> QED
    BY <1>1, <2>1, <2>3, EndSpot, SlotTurns
<1> QED
  BY <1>4, <1>5

\* Time passes at the rail.
LEMMA LagKeeps ==
    ASSUME PInv, NEW p \in Payout, LagElapses(p)
    PROVE  PInv'
<1>1. /\ transfer[p] = "early" /\ transfer' = [transfer EXCEPT ![p] = "due"]
      /\ UNCHANGED <<jobs, run, saved, payouts, request, entries, attempts, told, overtaken>>
  BY DEF LagElapses
<1>2. Money(p)
  BY DEF PInv, Books
<1>3. StoreInv' /\ TablesTyped' /\ Books' /\ TruthTold' /\ Saves' /\ Grows
  BY <1>1, <1>2, TransferBooks DEF Money
<1>4. \A q \in Payout : transfer[q] = "none" => transfer'[q] = "none"
  BY <1>1 DEF PInv, PayTypeOK
<1>5. Runs' /\ Serial'
  BY <1>1, <1>3, <1>4, OthersKeepRuns
<1>6. PayTypeOK'
  BY <1>1, <1>3 DEF PInv, PayTypeOK, TablesTyped
<1> QED
  BY <1>3, <1>5, <1>6 DEF PInv

-----------------------------------------------------------------------------
(***************************************************************************)
(* What the customer sees and hears.                                       *)
(***************************************************************************)
LEMMA ShownBooks ==
    ASSUME PInv, NEW p \in Payout,
           \/ /\ \E status \in {"submitted", "failed", "paid", "returned"} :
                    /\ SetStatus(p, status)
                    /\ status = "paid" => Booked(p, "post")
              /\ told' = told
           \/ /\ \E what \in {"failed", "returned", "paid"} :
                    /\ Tell(p, what)
                    /\ what = "paid" => transfer[p] = "settled"
                    /\ what = "returned" => transfer[p] = "returned" /\ Booked(p, "release")
              /\ payouts' = payouts
           \/ UNCHANGED <<payouts, told>>,
           UNCHANGED <<jobs, saved, request, entries, transfer, attempts, overtaken>>
    PROVE  StoreInv' /\ TablesTyped' /\ Books' /\ TruthTold' /\ Saves' /\ Grows
<1>1. TablesTyped
  BY DEF PInv, PayTypeOK, TablesTyped
<1>2. \A q \in Payout : payouts'[q].scenario = payouts[q].scenario
  BY <1>1 DEF SetStatus, TablesTyped
<1>3. StoreInv' /\ Grows
  BY <1>2, JobParts DEF PInv, StoreInv, Grows, Moves
<1>4. TablesTyped'
  <2>1. payouts' \in [Payout -> [status : {"absent", "pending", "submitted", "failed", "paid", "returned"},
                                scenario : {"none", "ordinary", "flaky", "returned", "rejected"}]]
    BY <1>1 DEF SetStatus, TablesTyped
  <2>2. told' \in [Payout -> SUBSET {"failed", "returned", "paid"}]
    BY <1>1 DEF Tell, TablesTyped
  <2> QED
    BY <1>1, <2>1, <2>2 DEF TablesTyped
<1>5. \A q \in Payout : Money(q)'
  <2> TAKE q \in Payout
  <2>1. Money(q)
    BY DEF PInv, Books
  <2> QED
    BY <1>2, <2>1 DEF Money, Booked
<1>6. TruthTold'
  <2> SUFFICES ASSUME NEW q \in Payout
               PROVE  /\ Booked(q, "post") \/ "paid" \in told'[q] => transfer[q] = "settled"
                      /\ "returned" \in told'[q] => transfer[q] = "returned" /\ Booked(q, "release")
                      /\ payouts'[q].status = "paid" => Booked(q, "post")
    BY DEF TruthTold, Booked
  <2>1. /\ Booked(q, "post") \/ "paid" \in told[q] => transfer[q] = "settled"
        /\ "returned" \in told[q] => transfer[q] = "returned" /\ Booked(q, "release")
        /\ payouts[q].status = "paid" => Booked(q, "post")
    BY DEF PInv, TruthTold
  <2> QED
    BY <1>1, <2>1 DEF SetStatus, Tell, TablesTyped
<1>7. Saves'
  BY <1>3, SavesGrow
<1> QED
  BY <1>3, <1>4, <1>5, <1>6, <1>7 DEF Books

LEMMA ShowKeeps ==
    ASSUME PInv, NEW s \in Slot,
           MarkSubmitted(s) \/ AbandonMark(s) \/ AbandonTell(s) \/ Notify(s) \/ Close(s)
    PROVE  PInv'
<1> DEFINE p == P(s)
<1>1. /\ run[s].pc \in {"do", "mark-failed", "tell-failed", "close"}
      /\ UNCHANGED <<jobs, saved, request, entries, transfer, attempts, overtaken>>
  BY DEF MarkSubmitted, AbandonMark, AbandonTell, Notify, Close, Doing, At, money
<1>2. /\ p \in Payout /\ run[s].job \in Job /\ run[s].step \in Steps /\ p = run[s].job[1]
      /\ RunOK(run[s], entries, transfer, jobs, payouts)
      /\ run[s].pc \in {"do", "close"} => Reached(p, run[s].step, entries, transfer, jobs)
  BY <1>1, SlotFacts DEF RunOK, Placed, Steps, P, Stepping
<1>3. ASSUME StoreInv' /\ TablesTyped' /\ Books' /\ TruthTold' /\ Saves' /\ Grows,
             NEW pc \in {"save", "tell-failed", "permanent", "complete"}, Goes(s, pc),
             pc = "save" => /\ run[s].pc = "do"
                            /\ run[s].step \in {"mark-submitted", "notify-paid", "notify-returned"},
             pc = "tell-failed" => run[s].pc = "mark-failed",
             pc = "complete" => run[s].pc = "close"
      PROVE  PInv'
  <2>1. run' = [run EXCEPT ![s] = Spot(pc, run[s].job, run[s].step)]
    BY <1>1, <1>3, GoesSpot
  <2>2. pc \in Points
    BY DEF Points, Calling, Abandoning, Ending
  <2>3. RunOK(Spot(pc, run[s].job, run[s].step), entries', transfer', jobs', payouts')
    <3>1. pc \in {"save", "complete"} => Reached(p, run[s].step, entries', transfer', jobs')
      BY <1>2, <1>3, ReachedGrows
    <3>2. pc = "save" => Effect(p, run[s].step, entries', transfer', jobs')
      BY <1>3 DEF Effect
    <3>3. /\ run[s].pc = "mark-failed" => run[s].job[2] = "payout"
          /\ run[s].pc = "close" => run[s].step \in LastSteps
          /\ jobs'[run[s].job].status # "absent" /\ run[s].pc # "idle"
          /\ run[s].step \in IF run[s].job[2] = "payout" THEN PayoutSteps ELSE SettleSteps \cup {"none"}
      BY <1>1, <1>2 DEF RunOK, Placed, Abandoning
    <3> QED
      BY <1>2, <1>3, <3>1, <3>2, <3>3 DEF RunOK, Spot, Placed, Stepping, Abandoning
  <2>4. Alone(Spot(pc, run[s].job, run[s].step), entries', transfer', payouts', overtaken')
    BY DEF Alone, Spot
  <2> QED
    BY <1>1, <1>2, <1>3, <2>1, <2>2, <2>3, <2>4, SlotStep
<1>4. CASE MarkSubmitted(s)
  <2>1. /\ run[s].pc = "do" /\ run[s].step = "mark-submitted" /\ Goes(s, "save") /\ told' = told
        /\ SetStatus(p, "submitted") \/ payouts' = payouts
    BY <1>4 DEF MarkSubmitted, Doing
  <2>2. StoreInv' /\ TablesTyped' /\ Books' /\ TruthTold' /\ Saves' /\ Grows
    BY <1>1, <1>2, <2>1, ShownBooks
  <2> QED
    BY <1>3, <2>1, <2>2
<1>5. CASE AbandonMark(s)
  <2>1. /\ run[s].pc = "mark-failed" /\ Goes(s, "tell-failed") /\ told' = told /\ SetStatus(p, "failed")
    BY <1>5 DEF AbandonMark, At
  <2>2. StoreInv' /\ TablesTyped' /\ Books' /\ TruthTold' /\ Saves' /\ Grows
    BY <1>1, <1>2, <2>1, ShownBooks
  <2> QED
    BY <1>3, <2>1, <2>2
<1>6. CASE AbandonTell(s)
  <2>1. Goes(s, "permanent") /\ payouts' = payouts /\ Tell(p, "failed")
    BY <1>6 DEF AbandonTell
  <2>2. StoreInv' /\ TablesTyped' /\ Books' /\ TruthTold' /\ Saves' /\ Grows
    BY <1>1, <1>2, <2>1, ShownBooks
  <2> QED
    BY <1>3, <2>1, <2>2
<1>7. CASE Notify(s)
  <2>1. /\ run[s].pc = "do" /\ run[s].step \in {"notify-paid", "notify-returned"} /\ Goes(s, "save")
        /\ payouts' = payouts
        /\ \/ run[s].step = "notify-paid" /\ Tell(p, "paid")
           \/ run[s].step = "notify-returned" /\ Tell(p, "returned")
    BY <1>7 DEF Notify, Doing
  <2>2. /\ run[s].step = "notify-paid" => transfer[p] = "settled"
        /\ run[s].step = "notify-returned" => transfer[p] = "returned" /\ Booked(p, "release")
    BY <1>2, <2>1 DEF Reached, Booked
  <2>3. StoreInv' /\ TablesTyped' /\ Books' /\ TruthTold' /\ Saves' /\ Grows
    BY <1>1, <1>2, <2>1, <2>2, ShownBooks
  <2> QED
    BY <1>3, <2>1, <2>3
<1>8. CASE Close(s)
  <2>1. /\ run[s].pc = "close" /\ Goes(s, "complete") /\ told' = told
        /\ \/ run[s].step = "notify-paid" /\ SetStatus(p, "paid")
           \/ SetStatus(p, "returned")
    BY <1>8 DEF Close, At
  <2>2. run[s].step = "notify-paid" => Booked(p, "post")
    BY <1>2, <2>1 DEF Reached, Booked
  <2>3. StoreInv' /\ TablesTyped' /\ Books' /\ TruthTold' /\ Saves' /\ Grows
    BY <1>1, <1>2, <2>1, <2>2, ShownBooks
  <2> QED
    BY <1>3, <2>1, <2>3
<1> QED
  BY <1>4, <1>5, <1>6, <1>7, <1>8

-----------------------------------------------------------------------------
(***************************************************************************)
(* Steps of the jobs table.                                                *)
(***************************************************************************)
\* No row comes or goes; one may succeed, with nothing left to watch.
LEMMA JobBooks ==
    ASSUME PInv, StoreInv',
           UNCHANGED <<saved, payouts, request, entries, transfer, attempts, told>>,
           overtaken \subseteq overtaken',
           \A j \in Job :
               /\ jobs'[j].status = "absent" <=> jobs[j].status = "absent"
               /\ jobs'[j].status = "pruned" => jobs[j].status = "pruned"
               /\ jobs'[j].status = "succeeded" =>
                     \/ jobs[j].status = "succeeded"
                     \/ \A p \in Payout :
                           /\ j = PayJob(p) => jobs[SettleJob(p)].status # "absent"
                           /\ j = SettleJob(p) => Booked(p, "post") \/ Booked(p, "release")
    PROVE  TablesTyped' /\ Books' /\ TruthTold' /\ Saves' /\ Grows
<1>1. Grows
  BY DEF Grows, Moves
<1>2. TablesTyped'
  BY DEF PInv, PayTypeOK, TablesTyped
<1>3. \A q \in Payout : Money(q)'
  <2> TAKE q \in Payout
  <2>1. Money(q)
    BY DEF PInv, Books
  <2>2. PayJob(q) \in Job /\ SettleJob(q) \in Job
    BY JobParts
  <2>3. /\ jobs'[PayJob(q)].status = "succeeded" =>
              jobs[PayJob(q)].status = "succeeded" \/ jobs[SettleJob(q)].status # "absent"
        /\ jobs'[SettleJob(q)].status = "succeeded" =>
              jobs[SettleJob(q)].status = "succeeded" \/ Booked(q, "post") \/ Booked(q, "release")
    BY <2>2
  <2>4. Originated(q, jobs)'
    <3>1. \A kind \in {"payout", "settlement"} : \A c \in Copy :
             /\ <<q, kind, c>> \in Job /\ <<q, kind, Original>> \in Job
             /\ jobs'[<<q, kind, c>>].status = "absent" <=> jobs[<<q, kind, c>>].status = "absent"
             /\ jobs'[<<q, kind, Original>>].status = "absent" <=>
                   jobs[<<q, kind, Original>>].status = "absent"
      BY JobParts, PaymentsAssumption
    <3> QED
      BY <2>1, <3>1 DEF Money, Originated
  <2> QED
    BY <2>1, <2>2, <2>3, <2>4 DEF Money, Booked
<1>4. TruthTold'
  BY DEF PInv, TruthTold, Booked
<1>5. Saves'
  BY <1>1, SavesGrow
<1> QED
  BY <1>1, <1>2, <1>3, <1>4, <1>5 DEF Books

LEMMA SilentBooks ==
    ASSUME PInv, Silent, overtaken \subseteq overtaken',
           UNCHANGED <<saved, payouts, request, entries, transfer, attempts, told>>
    PROVE  StoreInv' /\ TablesTyped' /\ Books' /\ TruthTold' /\ Saves' /\ Grows
<1>1. StoreInv'
  BY SilentStoreInv DEF PInv
<1>2. \A j \in Job : /\ jobs'[j].status = "absent" <=> jobs[j].status = "absent"
                     /\ jobs'[j].status = "pruned" => jobs[j].status = "pruned"
                     /\ jobs'[j].status = "succeeded" => jobs[j].status = "succeeded"
  BY CalmSteps DEF PInv, CalmTable, Calm, Exists, NoRow
<1> QED
  BY <1>1, <1>2, JobBooks

\* The others leave the runs alone.
LEMMA SilentOthersKeep ==
    ASSUME PInv, Silent,
           UNCHANGED <<run, saved, payouts, request, entries, transfer, attempts, told, overtaken>>
    PROVE  PInv'
<1>1. StoreInv' /\ TablesTyped' /\ Books' /\ TruthTold' /\ Saves' /\ Grows
  BY SilentBooks
<1>2. Runs' /\ Serial'
  BY <1>1, OthersKeepRuns
<1>3. PayTypeOK'
  BY <1>1 DEF PInv, PayTypeOK, TablesTyped
<1> QED
  BY <1>1, <1>2, <1>3 DEF PInv

\* A new row.
LEMMA EnqueueBooks ==
    ASSUME PInv, NEW p \in Payout, NEW j \in {PayJob(p), SettleJob(p)},
           NEW m \in Nat, NEW d \in {"past", "ahead"},
           Enqueue(j, DefaultQueue, m, d, NoKey),
           UNCHANGED <<saved, payouts, entries, transfer, attempts, told, overtaken>>,
           \/ request' = request
           \/ request[p] # "none" /\ request' = [request EXCEPT ![p] = "enqueued"],
           j = PayJob(p) => request[p] # "none",
           j = SettleJob(p) => transfer[p] # "none"
    PROVE  StoreInv' /\ TablesTyped' /\ Books' /\ TruthTold' /\ Saves' /\ Grows
<1>1. j \in Job /\ PayJob(p) # SettleJob(p) /\ \A q \in Payout : q # p => j # PayJob(q) /\ j # SettleJob(q)
  <2>1. j \in Job /\ j[1] = p
    BY JobParts
  <2>2. PayJob(p) # SettleJob(p)
    BY JobParts
  <2>3. \A q \in Payout : q # p => j # PayJob(q) /\ j # SettleJob(q)
    BY <2>1, JobParts
  <2> QED
    BY <2>1, <2>2, <2>3
<1>2. StoreInv'
  <2>1. RowOK(Enqueued(DefaultQueue, m, d, NoKey))
    BY QueueAssumption, EnqueuedOK
  <2> QED
    BY <1>1, <2>1, SetRowOK DEF Enqueue, PInv
<1>3. /\ jobs[j].status = "absent" /\ jobs'[j].status = "queued"
      /\ \A i \in Job \ {j} : jobs'[i] = jobs[i]
  BY <1>1 DEF Enqueue, SetRow, Enqueued, Default, PInv, StoreInv
<1>4. Grows
  BY <1>3 DEF Grows, Moves
<1>5. TablesTyped'
  BY DEF PInv, PayTypeOK, TablesTyped
<1>6. request \in [Payout -> {"none", "inserted", "enqueued", "refused"}]
  BY DEF PInv, PayTypeOK
<1>7. \A q \in Payout : Money(q)'
  <2> TAKE q \in Payout
  <2>1. Money(q)
    BY DEF PInv, Books
  <2>6. Originated(q, jobs)'
    <3>1. j[3] = Original /\ j \in Job
      BY <1>1, JobParts
    <3>2. \A c \in Copy : j = <<j[1], j[2], c>> => c = Original
      BY <3>1, JobParts
    <3> SUFFICES ASSUME NEW kind \in {"payout", "settlement"}, NEW c \in Copy,
                        jobs'[<<q, kind, c>>].status # "absent"
                 PROVE  jobs'[<<q, kind, Original>>].status # "absent"
      BY DEF Originated
    <3>3. /\ <<q, kind, c>> \in Job /\ <<q, kind, c>>[3] = c
          /\ <<q, kind, Original>> \in Job
      BY JobParts, PaymentsAssumption
    <3>4. CASE <<q, kind, Original>> = j
      BY <1>3, <3>4
    <3>5. CASE <<q, kind, Original>> # j
      <4>1. <<q, kind, c>> # j
        BY <3>1, <3>3, <3>5
      <4>2. jobs[<<q, kind, c>>].status # "absent"
        BY <1>3, <3>3, <4>1
      <4>3. jobs[<<q, kind, Original>>].status # "absent"
        BY <2>1, <4>2 DEF Money, Originated
      <4> QED
        BY <1>3, <3>3, <3>5, <4>3
    <3> QED
      BY <3>4, <3>5
  <2>2. PayJob(q) \in Job /\ SettleJob(q) \in Job
    BY JobParts
  <2>3. CASE q # p
    <3>1. jobs'[PayJob(q)] = jobs[PayJob(q)] /\ jobs'[SettleJob(q)] = jobs[SettleJob(q)]
      BY <1>1, <1>3, <2>2, <2>3
    <3>2. request'[q] = "none" => request[q] = "none"
      BY <1>6, <2>3
    <3> QED
      BY <2>1, <2>6, <3>1, <3>2 DEF Money, Booked
  <2>4. CASE q = p /\ j = PayJob(p)
    <3>1. jobs'[SettleJob(p)] = jobs[SettleJob(p)] /\ jobs'[PayJob(p)].status = "queued"
      BY <1>1, <1>3, <2>2, <2>4
    <3>2. request'[p] # "none"
      BY <1>6, <2>4
    <3> QED
      BY <2>1, <2>4, <2>6, <3>1, <3>2 DEF Money, Booked
  <2>5. CASE q = p /\ j = SettleJob(p)
    <3>1. jobs'[PayJob(p)] = jobs[PayJob(p)] /\ jobs'[SettleJob(p)].status = "queued"
      BY <1>1, <1>3, <2>2, <2>5
    <3>2. request'[p] = "none" => request[p] = "none"
      BY <1>6
    <3> QED
      BY <2>1, <2>5, <2>6, <3>1, <3>2 DEF Money, Booked
  <2> QED
    BY <2>3, <2>4, <2>5
<1>8. TruthTold'
  BY DEF PInv, TruthTold, Booked
<1>9. Saves'
  BY <1>4, SavesGrow
<1> QED
  BY <1>2, <1>4, <1>5, <1>7, <1>8, <1>9 DEF Books

\* A replay's row: a copy beside the original, which is there already.
LEMMA ReplayKeeps ==
    ASSUME PInv, NEW j \in Job, NEW c \in Copy \ {Original}, Replay(j, <<j[1], j[2], c>>),
           UNCHANGED <<run, saved, payouts, request, entries, transfer, attempts, told, overtaken>>
    PROVE  PInv'
<1> DEFINE i == <<j[1], j[2], c>>
<1>1. /\ i \in Job /\ j[1] \in Payout /\ j[2] \in {"payout", "settlement"}
      /\ \A q \in Payout : i # PayJob(q) /\ i # SettleJob(q)
  BY JobParts
<1>2. jobs[j].status # "absent" /\ jobs[i].status = "absent"
  BY DEF Replay, Exists, NoRow
<1>3. StoreInv'
  <2>1. i \in Job /\ Replay(j, i)
    BY <1>1
  <2> HIDE DEF i
  <2>2. [Next]_jobs
    BY <2>1 DEF Next, RequestNext
  <2> QED
    BY <2>2, StoreInvNext DEF PInv
<1>4. jobs'[i].status = "queued" /\ \A k \in Job \ {i} : jobs'[k] = jobs[k]
  BY <1>1 DEF Replay, SetRow, Copied, Enqueued, Default, PInv, StoreInv
<1>5. Grows
  <2> HIDE DEF i
  <2> QED
    BY <1>2, <1>4 DEF Grows, Moves
<1>6. TablesTyped'
  BY DEF PInv, PayTypeOK, TablesTyped
<1>7. \A q \in Payout : Money(q)'
  <2> TAKE q \in Payout
  <2>1. Money(q) /\ Money(j[1])
    BY <1>1 DEF PInv, Books
  <2>2. /\ PayJob(q) \in Job /\ SettleJob(q) \in Job
        /\ jobs'[PayJob(q)] = jobs[PayJob(q)] /\ jobs'[SettleJob(q)] = jobs[SettleJob(q)]
    BY <1>1, <1>4, JobParts
  <2>3. Originated(q, jobs)'
    <3> SUFFICES ASSUME NEW kind \in {"payout", "settlement"}, NEW d \in Copy,
                        jobs'[<<q, kind, d>>].status # "absent"
                 PROVE  jobs'[<<q, kind, Original>>].status # "absent"
      BY DEF Originated
    <3>1. /\ <<q, kind, d>> \in Job /\ <<q, kind, Original>> \in Job
          /\ <<q, kind, Original>> # i
      BY JobParts, PaymentsAssumption
    <3>2. jobs[<<q, kind, Original>>].status # "absent"
      <4>1. CASE <<q, kind, d>> = i
        <5>1. q = j[1] /\ kind = j[2]
          BY <4>1
        <5>2. kind = "payout" \/ kind = "settlement"
          OBVIOUS
        <5> QED
          BY <1>2, <2>1, <5>1, <5>2, OriginalThere DEF PayJob, SettleJob
      <4>2. CASE <<q, kind, d>> # i
        <5>1. jobs[<<q, kind, d>>].status # "absent"
          BY <1>4, <3>1, <4>2
        <5> QED
          BY <2>1, <5>1 DEF Money, Originated
      <4> QED
        BY <4>1, <4>2
    <3> QED
      BY <1>4, <3>1, <3>2
  <2> QED
    BY <2>1, <2>2, <2>3 DEF Money, Booked
<1>8. TruthTold'
  BY DEF PInv, TruthTold, Booked
<1>9. Saves'
  BY <1>5, SavesGrow
<1>10. Runs' /\ Serial'
  BY <1>5, OthersKeepRuns
<1>11. PayTypeOK'
  BY <1>6 DEF PInv, PayTypeOK, TablesTyped
<1> QED
  BY <1>3, <1>7, <1>8, <1>9, <1>10, <1>11 DEF PInv, Books

LEMMA ScheduleKeeps ==
    ASSUME PInv, NEW s \in Slot, ScheduleSettlement(s)
    PROVE  PInv'
<1> DEFINE p == P(s)
<1>1. /\ run[s].pc = "do" /\ run[s].step = "schedule-settlement" /\ Goes(s, "save")
      /\ UNCHANGED <<saved, payouts, request, entries, transfer, attempts, told, overtaken>>
  BY DEF ScheduleSettlement, Doing, money
<1>2. /\ p \in Payout /\ run[s].job \in Job /\ run[s].step \in Steps /\ p = run[s].job[1]
      /\ RunOK(run[s], entries, transfer, jobs, payouts)
      /\ Reached(p, run[s].step, entries, transfer, jobs)
  BY <1>1, SlotFacts DEF RunOK, Placed, Steps, P, Stepping
<1>3. /\ StoreInv' /\ TablesTyped' /\ Books' /\ TruthTold' /\ Saves' /\ Grows
      /\ jobs'[SettleJob(p)].status # "absent"
  <2>1. CASE Enqueue(SettleJob(p), DefaultQueue, SettlementAttempts, "ahead", NoKey)
    <3>1. transfer[p] # "none" /\ SettleJob(p) # PayJob(p)
      BY <1>1, <1>2, JobParts DEF Reached, PayJob, SettleJob
    <3>2. SettlementAttempts \in Nat
      BY PaymentsAssumption
    <3>3. StoreInv' /\ TablesTyped' /\ Books' /\ TruthTold' /\ Saves' /\ Grows
      BY <1>1, <1>2, <2>1, <3>1, <3>2, EnqueueBooks
    <3>4. jobs'[SettleJob(p)].status = "queued"
      BY <1>2, <2>1, JobParts DEF Enqueue, SetRow, Enqueued, Default, PInv, StoreInv
    <3> QED
      BY <3>3, <3>4
  <2>2. CASE jobs[SettleJob(p)].status # "absent" /\ UNCHANGED jobs
    <3>1. Silent
      BY <2>2 DEF Silent
    <3> QED
      BY <1>1, <2>2, <3>1, SilentBooks
  <2> QED
    BY <2>1, <2>2 DEF ScheduleSettlement
<1>4. "save" \in Points /\ run' = [run EXCEPT ![s] = Spot("save", run[s].job, run[s].step)]
  BY <1>1, GoesSpot DEF Points, Calling
<1>5. RunOK(Spot("save", run[s].job, run[s].step), entries', transfer', jobs', payouts')
  <2>1. Reached(p, run[s].step, entries', transfer', jobs')
    BY <1>2, <1>3, ReachedGrows
  <2>2. Effect(p, run[s].step, entries', transfer', jobs')
    BY <1>1, <1>3 DEF Effect
  <2>3. jobs'[run[s].job].status # "absent" /\ run[s].pc # "idle"
    BY <1>1, <1>2, <1>3 DEF RunOK, Grows
  <2> QED
    BY <1>1, <1>2, <2>1, <2>2, <2>3 DEF RunOK, Spot, Placed, Abandoning
<1>6. Alone(Spot("save", run[s].job, run[s].step), entries', transfer', payouts', overtaken')
  BY DEF Alone, Spot
<1> QED
  BY <1>1, <1>2, <1>3, <1>4, <1>5, <1>6, SlotStep

\* A claim of a payout some slot still runs is remembered as overtaking.
LEMMA ClaimKeeps ==
    ASSUME PInv, NEW s \in Slot, NEW j \in Job, ClaimJob(s, j)
    PROVE  PInv'
<1> DEFINE x == Started(j)
<1>1. /\ run[s].pc = "idle" /\ run' = [run EXCEPT ![s] = x]
      /\ overtaken' = overtaken \cup {p \in Payout : Pays(j, p) /\ \E t \in Slot : Paying(t, p)}
      /\ UNCHANGED <<saved, payouts, request, entries, transfer, attempts, told>>
  BY DEF ClaimJob, At, money
<1>2. Silent /\ jobs[j].status # "absent"
  <2>1. WorkerOf[s] \in Worker /\ DefaultQueue \in Queue
    BY PaymentsAssumption, QueueAssumption
  <2>2. Claim(WorkerOf[s], DefaultQueue, {j})
    BY DEF ClaimJob
  <2> QED
    BY <2>1, <2>2 DEF Silent, Claim, Claimable, Stolen, Waiting
<1>3. StoreInv' /\ TablesTyped' /\ Books' /\ TruthTold' /\ Saves' /\ Grows
  BY <1>1, <1>2, SilentBooks
<1>4. /\ x \in RunState /\ x.job = j /\ j[2] \in {"payout", "settlement"}
      /\ x.pc = IF j[2] = "payout" THEN "load" ELSE "status"
      /\ x.step = IF j[2] = "payout" THEN "reserve-funds" ELSE "none"
  BY JobParts DEF Started, Idle, RunState, Calling, PayoutSteps
<1>5. run \in [Slot -> RunState]
  BY DEF PInv, PayTypeOK
<1> HIDE DEF x
<1>6. RunOK(x, entries', transfer', jobs', payouts')
  <2>1. jobs'[j].status # "absent"
    BY <1>2, <1>3 DEF Grows
  <2>2. Placed(x) /\ Reached(j[1], x.step, entries', transfer', jobs') /\ x.pc # "save" /\ x.pc # "send"
    BY <1>4 DEF Placed, Abandoning, Reached
  <2> QED
    BY <1>4, <2>1, <2>2 DEF RunOK, PayoutSteps
<1>7. Alone(x, entries', transfer', payouts', overtaken')
  BY <1>4 DEF Alone
<1>8. \A t \in Slot : run'[t] = IF t = s THEN x ELSE run[t]
  BY <1>1, <1>5
<1>9. \A t \in Slot : /\ RunOK(run'[t], entries', transfer', jobs', payouts')
                      /\ Alone(run'[t], entries', transfer', payouts', overtaken')
  <2> TAKE t \in Slot
  <2>1. /\ RunOK(run[t], entries, transfer, jobs, payouts)
        /\ Alone(run[t], entries, transfer, payouts, overtaken)
    BY DEF PInv, Runs
  <2>2. RunOK(run[t], entries', transfer', jobs', payouts')
    BY <1>3, <2>1, RunGrows
  <2>3. Alone(run[t], entries', transfer', payouts', overtaken')
    BY <1>1, <2>1 DEF Alone
  <2> QED
    BY <1>6, <1>7, <1>8, <2>2, <2>3
<1>10. Serial'
  <2> SUFFICES ASSUME NEW t \in Slot, NEW u \in Slot, NEW p \in Payout, p \notin overtaken',
                      run'[t].pc # "idle", Pays(run'[t].job, p),
                      run'[u].pc # "idle", Pays(run'[u].job, p)
               PROVE  t = u
    BY DEF Serial, Paying, At
  <2>1. CASE Pays(j, p)
    <3>1. \A v \in Slot : ~(run[v].pc # "idle" /\ Pays(run[v].job, p))
      BY <1>1, <2>1 DEF Paying, At
    <3> QED
      BY <1>8, <3>1
  <2>2. CASE ~Pays(j, p)
    <3>1. t # s /\ u # s
      BY <1>4, <1>8, <2>2
    <3>2. p \notin overtaken
      BY <1>1
    <3> QED
      BY <1>8, <3>1, <3>2 DEF PInv, Serial, Paying, At
  <2> QED
    BY <2>1, <2>2
<1>11. PayTypeOK'
  <2>1. run' \in [Slot -> RunState]
    BY <1>1, <1>4, <1>5
  <2> QED
    BY <1>3, <2>1 DEF PayTypeOK, TablesTyped
<1> QED
  BY <1>3, <1>9, <1>10, <1>11 DEF PInv, Runs

\* A job that completes has scheduled its settlement, or settled.
LEMMA FinishKeeps ==
    ASSUME PInv, NEW s \in Slot, Finish(s)
    PROVE  PInv'
<1> DEFINE j == run[s].job
           w == WorkerOf[s]
<1>1. /\ run' = [run EXCEPT ![s] = Idle] /\ w \in Worker
      /\ UNCHANGED <<saved, payouts, request, entries, transfer, attempts, told, overtaken>>
      /\ run[s].pc # "idle"
  BY PaymentsAssumption DEF Finish, money, At, Ending
<1>2. /\ j \in Job /\ P(s) \in Payout /\ P(s) = j[1]
      /\ RunOK(run[s], entries, transfer, jobs, payouts)
  BY <1>1, SlotFacts DEF P
<1>3. ASSUME StoreInv' /\ TablesTyped' /\ Books' /\ TruthTold' /\ Saves' /\ Grows
      PROVE  PInv'
  <2>1. run \in [Slot -> RunState] /\ Idle \in RunState /\ Idle.pc = "idle"
    BY DEF PInv, PayTypeOK, Idle, RunState
  <2>2. run' \in [Slot -> RunState] /\ \A t \in Slot : run'[t] = run[t] \/ run'[t].pc = "idle"
    BY <1>1, <2>1
  <2>3. Runs' /\ Serial'
    BY <1>1, <1>3, <2>2, OthersKeepRuns
  <2>4. PayTypeOK'
    BY <1>3, <2>2 DEF PayTypeOK, TablesTyped
  <2> QED
    BY <1>3, <2>3, <2>4 DEF PInv
<1>4. CASE Silent
  BY <1>1, <1>3, <1>4, SilentBooks
<1>5. CASE run[s].pc = "complete" /\ Complete(w, j)
  <2>1. /\ jobs[j].status = "running" /\ jobs'[j].status = "succeeded"
        /\ \A i \in Job \ {j} : jobs'[i] = jobs[i]
    <3>1. jobs[j] \in Row /\ Exists(jobs[j])
      BY <1>2, <1>5 DEF Complete, Owned, Exists, NoRow, PInv, StoreInv
    <3>2. Succeeded(jobs[j]).status = "succeeded"
      BY <3>1, CalmRows
    <3> QED
      BY <1>2, <1>5, <3>2 DEF Complete, Owned, SetRow, PInv, StoreInv
  <2>2. StoreInv'
    <3>1. [Next]_jobs
      BY <1>1, <1>2, <1>5 DEF Next, WorkerNext
    <3> QED
      BY <3>1, StoreInvNext DEF PInv
  <2>3. \A p \in Payout :
            /\ j = PayJob(p) => jobs[SettleJob(p)].status # "absent"
            /\ j = SettleJob(p) => Booked(p, "post") \/ Booked(p, "release")
    <3>1. /\ run[s].step \in LastSteps /\ Reached(P(s), run[s].step, entries, transfer, jobs)
          /\ run[s].step \in IF j[2] = "payout" THEN PayoutSteps ELSE SettleSteps \cup {"none"}
      BY <1>2, <1>5 DEF RunOK, Placed
    <3> TAKE p \in Payout
    <3>2. ASSUME j = PayJob(p) PROVE jobs[SettleJob(p)].status # "absent"
      <4>1. P(s) = p /\ j[2] = "payout"
        BY <1>2, <3>2, JobParts
      <4>2. run[s].step = "mark-submitted"
        BY <3>1, <4>1 DEF LastSteps, PayoutSteps
      <4> QED
        BY <3>1, <4>1, <4>2 DEF Reached
    <3>3. ASSUME j = SettleJob(p) PROVE Booked(p, "post") \/ Booked(p, "release")
      <4>1. P(s) = p /\ j[2] = "settlement"
        BY <1>2, <3>3, JobParts
      <4>2. run[s].step \in {"notify-returned", "notify-paid"}
        BY <3>1, <4>1 DEF LastSteps, SettleSteps
      <4> QED
        BY <3>1, <4>1, <4>2 DEF Reached, Booked
    <3> QED
      BY <3>2, <3>3
  <2>4. \A i \in Job :
               /\ jobs'[i].status = "absent" <=> jobs[i].status = "absent"
               /\ jobs'[i].status = "pruned" => jobs[i].status = "pruned"
               /\ jobs'[i].status = "succeeded" => jobs[i].status = "succeeded" \/ i = j
    BY <2>1
  <2>5. TablesTyped' /\ Books' /\ TruthTold' /\ Saves' /\ Grows
    <3> HIDE DEF j
    <3> QED
      BY <1>1, <2>2, <2>3, <2>4, JobBooks
  <2> QED
    BY <1>3, <2>2, <2>5
<1>6. Silent \/ (run[s].pc = "complete" /\ Complete(w, j))
  BY <1>1, <1>2 DEF Finish, Silent, At
<1> QED
  BY <1>4, <1>5, <1>6

\* The handler's row, and its job.
LEMMA RequestKeeps ==
    ASSUME PInv, NEW p \in Payout, InsertPayout(p) \/ EnqueuePayout(p) \/ RefuseRequest(p)
    PROVE  PInv'
<1>1. /\ UNCHANGED <<run, saved, entries, transfer, attempts, told, overtaken>>
      /\ run \in [Slot -> RunState] /\ Money(p)
  BY DEF InsertPayout, EnqueuePayout, RefuseRequest, money, PInv, PayTypeOK, Books
<1>2. ASSUME StoreInv' /\ TablesTyped' /\ Books' /\ TruthTold' /\ Saves' /\ Grows
      PROVE  PInv'
  <2>1. Runs' /\ Serial'
    BY <1>1, <1>2, OthersKeepRuns
  <2>2. PayTypeOK'
    BY <1>1, <1>2 DEF PayTypeOK, TablesTyped
  <2> QED
    BY <1>2, <2>1, <2>2 DEF PInv
<1>3. CASE InsertPayout(p)
  <2> PICK scenario \in ScenarioOf[p] :
          payouts' = [payouts EXCEPT ![p] = [status |-> "pending", scenario |-> scenario]]
    BY <1>3 DEF InsertPayout
  <2>1. /\ request[p] = "none" /\ request' = [request EXCEPT ![p] = "inserted"] /\ jobs' = jobs
        /\ scenario \in {"ordinary", "flaky", "returned", "rejected"}
    BY <1>3, PaymentsAssumption DEF InsertPayout
  <2>2. /\ jobs[PayJob(p)].status = "absent" /\ ~Booked(p, "hold") /\ ~Booked(p, "release")
        /\ transfer[p] = "none" /\ jobs[SettleJob(p)].status = "absent"
    BY <1>1, <2>1 DEF Money
  <2>0. \A j \in Job : jobs[j].status # "absent" => j[1] # p
    BY <1>1, <2>2, OriginalThere, JobParts
  <2>3. \A q \in Payout : q # p => payouts'[q] = payouts[q]
    BY DEF PInv, PayTypeOK
  <2>4. payouts'[p].status = "pending"
    BY DEF PInv, PayTypeOK
  <2>5. StoreInv' /\ Grows
    BY <1>1, <2>0, <2>1, <2>3, JobParts DEF PInv, StoreInv, Grows, Moves
  <2>6. TablesTyped'
    BY <1>1, <2>1 DEF PInv, PayTypeOK, TablesTyped
  <2>7. \A q \in Payout : Money(q)'
    <3> TAKE q \in Payout
    <3>1. Money(q)
      BY DEF PInv, Books
    <3>2. request'[q] = "none" => request[q] = "none"
      BY <2>1
    <3>3. CASE q = p
      BY <1>1, <2>1, <2>2, <3>1, <3>2, <3>3 DEF Money, Booked
    <3>4. CASE q # p
      BY <1>1, <2>1, <2>3, <3>1, <3>2, <3>4 DEF Money, Booked
    <3> QED
      BY <3>3, <3>4
  <2>8. TruthTold'
    BY <1>1, <2>3, <2>4 DEF PInv, TruthTold, Booked
  <2>9. Saves'
    BY <1>1, <2>5, SavesGrow
  <2> QED
    BY <1>2, <2>5, <2>6, <2>7, <2>8, <2>9 DEF Books
<1>4. CASE EnqueuePayout(p)
  <2>1. /\ Enqueue(PayJob(p), DefaultQueue, PayoutAttempts, "past", NoKey) /\ payouts' = payouts
        /\ request[p] # "none" /\ request' = [request EXCEPT ![p] = "enqueued"]
        /\ PayJob(p) # SettleJob(p) /\ PayoutAttempts \in Nat
    BY <1>4, PaymentsAssumption DEF EnqueuePayout, PayJob, SettleJob
  <2> QED
    BY <1>1, <1>2, <2>1, EnqueueBooks
<1>5. CASE RefuseRequest(p)
  <2>1. /\ UNCHANGED <<jobs, payouts>> /\ request[p] = "inserted"
        /\ request' = [request EXCEPT ![p] = "refused"]
    BY <1>5 DEF RefuseRequest
  <2>2. StoreInv' /\ Grows
    BY <1>1, <2>1 DEF PInv, StoreInv, Grows, Moves
  <2>3. TablesTyped'
    BY <1>1, <2>1 DEF PInv, PayTypeOK, TablesTyped
  <2>4. \A q \in Payout : Money(q)'
    <3> TAKE q \in Payout
    <3>1. Money(q)
      BY DEF PInv, Books
    <3>2. request'[q] = "none" => request[q] = "none"
      BY <2>1
    <3> QED
      BY <1>1, <2>1, <3>1, <3>2 DEF Money, Booked
  <2>5. TruthTold'
    BY <1>1, <2>1 DEF PInv, TruthTold, Booked
  <2>6. Saves'
    BY <1>1, <2>2, SavesGrow
  <2> QED
    BY <1>2, <2>2, <2>3, <2>4, <2>5, <2>6 DEF Books
<1> QED
  BY <1>3, <1>4, <1>5

-----------------------------------------------------------------------------
(***************************************************************************)
(* The theorems.                                                           *)
(***************************************************************************)
LEMMA PInvInit == PayInit => PInv
<1> SUFFICES ASSUME PayInit PROVE PInv
  OBVIOUS
<1>1. StoreInv
  BY DefaultOK DEF PayInit, Init, StoreInv, RowOK
<1>2. \A j \in Job : jobs[j].status = "absent"
  BY DEF PayInit, Init, Default
<1>3. Idle \in RunState /\ Idle.pc = "idle" /\ \A s \in Slot : run[s] = Idle
  BY DEF PayInit, Idle, RunState
<1>4. PayTypeOK
  BY <1>3, PaymentsAssumption DEF PayInit, PayTypeOK
<1>5. Books
  <2>1. \A p \in Payout : Originated(p, jobs)
    BY <1>2, JobParts DEF Originated
  <2> QED
    BY <1>2, <2>1, JobParts DEF PayInit, Books, Money, Booked
<1>6. TruthTold /\ Saves
  BY DEF PayInit, TruthTold, Booked, Saves
<1>7. Runs /\ Serial
  BY <1>3 DEF Runs, RunOK, Alone, Serial, Paying, At
<1> QED
  BY <1>1, <1>4, <1>5, <1>6, <1>7 DEF PInv

LEMMA PInvNext == PInv /\ [PayNext]_payVars => PInv'
<1> SUFFICES ASSUME PInv, [PayNext]_payVars PROVE PInv'
  OBVIOUS
<1>1. ASSUME NEW s \in Slot, Proceed(s)
      PROVE  PInv'
  BY <1>1, LoadKeeps, SaveKeeps, ReadKeeps, ReserveKeeps, AttemptKeeps, SendKeeps, ScheduleKeeps,
     ShowKeeps, AbandonReleaseKeeps, StatusKeeps, SettleEntryKeeps, FinishKeeps DEF Proceed
<1>2. ASSUME NEW s \in Slot, Errs(s)
      PROVE  PInv'
  BY <1>2, ErrsKeeps
<1>3. CASE Claims
  BY <1>3, ClaimKeeps DEF Claims
<1>4. CASE \E w \in Worker : Crash(w)
  BY <1>4, CrashKeeps
<1>5. ASSUME NEW p \in Payout, InsertPayout(p) \/ EnqueuePayout(p) \/ RefuseRequest(p) \/ LagElapses(p)
      PROVE  PInv'
  BY <1>5, RequestKeeps, LagKeeps
<1>6. CASE Sweep
  <2>1. Silent /\ UNCHANGED <<run, saved, payouts, request, entries, transfer, attempts, told, overtaken>>
    BY <1>6 DEF Sweep, Silent, money
  <2> QED
    BY <2>1, SilentOthersKeep
<1>7. ASSUME NEW j \in Job, Operator(j) \/ TimePasses(j)
      PROVE  PInv'
  <2>1. UNCHANGED <<run, saved, payouts, request, entries, transfer, attempts, told, overtaken>>
    BY <1>7 DEF Operator, TimePasses, money
  <2>2. Silent \/ \E c \in Copy \ {Original} : Replay(j, <<j[1], j[2], c>>)
    BY <1>7 DEF Operator, TimePasses, Silent
  <2> QED
    BY <2>1, <2>2, SilentOthersKeep, ReplayKeeps
<1>8. CASE UNCHANGED payVars
  <2>1. UNCHANGED <<books, saved, money, run>>
    BY <1>8 DEF payVars, books, money
  <2> QED
    BY <2>1, IdleKeeps
<1> QED
  BY <1>1, <1>2, <1>3, <1>4, <1>5, <1>6, <1>7, <1>8 DEF PayNext

THEOREM PayInvariant == PaySpec => []PInv
BY PInvInit, PInvNext, PTL DEF PaySpec

\* The tables of the payouts service and its runs are well formed.
THEOREM PayTypeCorrect == PaySpec => []PayTypeOK
<1>1. PInv => PayTypeOK
  BY DEF PInv
<1> QED
  BY <1>1, PayInvariant, PTL

\* What the customer is told, shown and charged is what the rail did: a
\* settlement's steps follow a status that does not change any more.
THEOREM ToldTrue == PaySpec => []TruthTold
<1>1. PInv => TruthTold
  BY DEF PInv
<1> QED
  BY <1>1, PayInvariant, PTL

\* A transfer that is out has its hold, also when the payout was replayed,
\* unless two runs of its workflow overlapped (a steal, a replay beside the
\* original): whoever releases it without the rail's word was refused.
THEOREM TransfersCovered == PaySpec => []CoveredIfSerial
<1>1. PInv => CoveredIfSerial
  BY DEF PInv, Books, Money, CoveredIfSerial, Gone, Held
<1> QED
  BY <1>1, PayInvariant, PTL

\* Held money has a job that sees to it, or one that waits for an operator: a
\* payout job succeeds only after it has scheduled the settlement, and that one
\* only after it has posted or released.
THEOREM HoldsWatched == PaySpec => []HeldMoneyIsWatched
<1>1. PInv => HeldMoneyIsWatched
  <2> SUFFICES ASSUME PInv, NEW p \in Payout, Held(p), ~Booked(p, "post")
               PROVE  \E j \in {PayJob(p), SettleJob(p)} :
                         Active(jobs[j]) \/ jobs[j].status \in {"dead_letter", "canceled"}
    BY DEF HeldMoneyIsWatched
  <2>1. Money(p) /\ PayJob(p) \in Job /\ SettleJob(p) \in Job
    BY JobParts DEF PInv, Books
  <2>2. \A j \in Job : jobs[j].status \notin NoRow /\ jobs[j].status # "succeeded" =>
           Active(jobs[j]) \/ jobs[j].status \in {"dead_letter", "canceled"}
    BY DEF Active, Exists, Terminal
  <2>3. CASE jobs[PayJob(p)].status # "succeeded"
    <3>1. jobs[PayJob(p)].status \notin NoRow
      BY <2>1 DEF Money, Held, NoRow
    <3> QED
      BY <2>1, <2>2, <2>3, <3>1
  <2>4. CASE jobs[PayJob(p)].status = "succeeded"
    <3>1. jobs[SettleJob(p)].status \notin NoRow /\ jobs[SettleJob(p)].status # "succeeded"
      BY <2>1, <2>4 DEF Money, Held, NoRow
    <3> QED
      BY <2>1, <2>2, <3>1
  <2> QED
    BY <2>3, <2>4
<1> QED
  BY <1>1, PayInvariant, PTL

-----------------------------------------------------------------------------
(***************************************************************************)
(* The account.  Conserved is inductive once the sums are known to be over *)
(* finite sets; which entry is added by whom is all it needs to know.      *)
(***************************************************************************)
EntryKinds == {"hold", "release"}

Holders(en, kind) == {p \in Payout : <<p, kind>> \in en}

Balanced(bal, en) ==
    /\ bal \in Nat
    /\ \A kind \in EntryKinds : IsFiniteSet(Holders(en, kind))
    /\ bal = Opening - Sum(Amount, Holders(en, "hold")) + Sum(Amount, Holders(en, "release"))

LEMMA TotalIsSum ==
    \A kind : Total(kind) = Sum(Amount, Holders(entries, kind))
BY DEF Total, Sum, MapThenSumSet, MapThenFoldSet, Holders, Booked

\* A sum of amounts is a number.
LEMMA AmountsAdd ==
    ASSUME NEW en, NEW kind, IsFiniteSet(Holders(en, kind))
    PROVE  Sum(Amount, Holders(en, kind)) \in Nat
<1>1. \A p \in Holders(en, kind) : Amount[p] \in Nat
  BY PaymentsAssumption DEF Holders
<1> QED
  BY <1>1, SumType

\* One more entry adds its payout's amount to its kind, and to no other.
LEMMA EntryAdds ==
    ASSUME NEW en, NEW p \in Payout, NEW kind, <<p, kind>> \notin en,
           IsFiniteSet(Holders(en, kind)),
           NEW more, more = en \cup {<<p, kind>>}
    PROVE  /\ IsFiniteSet(Holders(more, kind))
           /\ Sum(Amount, Holders(more, kind)) = Amount[p] + Sum(Amount, Holders(en, kind))
           /\ \A other : other # kind => Holders(more, other) = Holders(en, other)
<1>1. Holders(more, kind) = Holders(en, kind) \cup {p} /\ p \notin Holders(en, kind)
  BY DEF Holders
<1>2. \A q \in Holders(en, kind) \cup {p} : Amount[q] \in Int
  BY PaymentsAssumption DEF Holders
<1>3. IsFiniteSet(Holders(en, kind) \cup {p})
  BY FS_AddElement
<1>4. Sum(Amount, Holders(en, kind) \cup {p}) = Amount[p] + Sum(Amount, Holders(en, kind))
  BY <1>1, <1>2, SumAdds
<1>5. \A other : other # kind => Holders(more, other) = Holders(en, other)
  BY DEF Holders
<1> QED
  BY <1>1, <1>3, <1>4, <1>5

\* Holding debits, releasing credits, posting does neither.
LEMMA EntryBalances ==
    ASSUME NEW bal, NEW en, Balanced(bal, en), NEW p \in Payout
    PROVE  /\ <<p, "hold">> \notin en /\ bal >= Amount[p]
                => Balanced(bal - Amount[p], en \cup {<<p, "hold">>})
           /\ <<p, "release">> \notin en
                => Balanced(bal + Amount[p], en \cup {<<p, "release">>})
           /\ Balanced(bal, en \cup {<<p, "post">>})
<1>1. /\ Amount[p] \in Nat /\ Opening \in Nat /\ bal \in Nat
      /\ \A kind \in EntryKinds : /\ IsFiniteSet(Holders(en, kind))
                                  /\ Sum(Amount, Holders(en, kind)) \in Nat
  BY PaymentsAssumption, AmountsAdd DEF Balanced
<1>2. ASSUME <<p, "hold">> \notin en, bal >= Amount[p]
      PROVE  Balanced(bal - Amount[p], en \cup {<<p, "hold">>})
  <2> DEFINE more == en \cup {<<p, "hold">>}
  <2>1. /\ IsFiniteSet(Holders(more, "hold")) /\ Holders(more, "release") = Holders(en, "release")
        /\ Sum(Amount, Holders(more, "hold")) = Amount[p] + Sum(Amount, Holders(en, "hold"))
    <3>1. IsFiniteSet(Holders(en, "hold"))
      BY <1>1 DEF EntryKinds
    <3>2. more = en \cup {<<p, "hold">>}
      OBVIOUS
    <3> HIDE DEF more
    <3>3. /\ IsFiniteSet(Holders(more, "hold"))
          /\ Sum(Amount, Holders(more, "hold")) = Amount[p] + Sum(Amount, Holders(en, "hold"))
          /\ \A other : other # "hold" => Holders(more, other) = Holders(en, other)
      BY <1>2, <3>1, <3>2, EntryAdds, SMTT(30)
    <3> QED
      BY <3>3
  <2> HIDE DEF more
  <2>2. Balanced(bal - Amount[p], more)
    BY <1>1, <1>2, <2>1 DEF Balanced, EntryKinds
  <2> QED
    BY <2>2 DEF more
<1>3. ASSUME <<p, "release">> \notin en
      PROVE  Balanced(bal + Amount[p], en \cup {<<p, "release">>})
  <2> DEFINE more == en \cup {<<p, "release">>}
  <2>1. /\ IsFiniteSet(Holders(more, "release")) /\ Holders(more, "hold") = Holders(en, "hold")
        /\ Sum(Amount, Holders(more, "release")) = Amount[p] + Sum(Amount, Holders(en, "release"))
    <3>1. IsFiniteSet(Holders(en, "release"))
      BY <1>1 DEF EntryKinds
    <3>2. more = en \cup {<<p, "release">>}
      OBVIOUS
    <3> HIDE DEF more
    <3>3. /\ IsFiniteSet(Holders(more, "release"))
          /\ Sum(Amount, Holders(more, "release")) = Amount[p] + Sum(Amount, Holders(en, "release"))
          /\ \A other : other # "release" => Holders(more, other) = Holders(en, other)
      BY <1>3, <3>1, <3>2, EntryAdds, SMTT(30)
    <3> QED
      BY <3>3
  <2> HIDE DEF more
  <2>2. Balanced(bal + Amount[p], more)
    BY <1>1, <2>1 DEF Balanced, EntryKinds
  <2> QED
    BY <2>2 DEF more
<1>4. Balanced(bal, en \cup {<<p, "post">>})
  <2>1. \A kind \in EntryKinds : Holders(en \cup {<<p, "post">>}, kind) = Holders(en, kind)
    BY DEF EntryKinds, Holders
  <2> QED
    BY <2>1 DEF Balanced, EntryKinds
<1> QED
  BY <1>2, <1>3, <1>4

\* Release credits with the entry it inserts, or does nothing.
LEMMA ReleaseBalances ==
    ASSUME Balanced(balance, entries), NEW p \in Payout, Release(p)
    PROVE  Balanced(balance', entries')
<1>1. CASE Releasable(p)
  <2>1. Balanced(balance + Amount[p], entries \cup {<<p, "release">>})
    BY <1>1, EntryBalances DEF Releasable, Booked
  <2>2. balance' = balance + Amount[p] /\ entries' = entries \cup {<<p, "release">>}
    BY <1>1 DEF Release
  <2> QED
    BY <2>1, <2>2
<1>2. CASE ~Releasable(p)
  BY <1>2 DEF Release
<1> QED
  BY <1>1, <1>2

LEMMA BalancedStep ==
    ASSUME PInv, Balanced(balance, entries), NEW s \in Slot, Proceed(s)
    PROVE  Balanced(balance', entries')
<1>1. run[s].pc # "idle" => P(s) \in Payout
  BY SlotFacts
<1>2. CASE Reserve(s)
  <2>1. P(s) \in Payout
    BY <1>1, <1>2 DEF Reserve, At
  <2>2. CASE UNCHANGED <<balance, entries>>
    BY <2>2
  <2>3. CASE ~UNCHANGED <<balance, entries>>
    <3>1. /\ balance >= Amount[P(s)] /\ <<P(s), "hold">> \notin entries
          /\ entries' = entries \cup {<<P(s), "hold">>} /\ balance' = balance - Amount[P(s)]
      BY <1>2, <2>3 DEF Reserve, Booked
    <3>2. Balanced(balance - Amount[P(s)], entries \cup {<<P(s), "hold">>})
      BY <2>1, <3>1, EntryBalances
    <3> QED
      BY <3>1, <3>2
  <2> QED
    BY <2>2, <2>3
<1>3. CASE AbandonRelease(s) \/ ReleaseFunds(s)
  BY <1>1, <1>3, ReleaseBalances DEF AbandonRelease, ReleaseFunds, At, Doing
<1>4. CASE PostLedger(s)
  <2>1. /\ P(s) \in Payout /\ balance' = balance
        /\ entries' = entries \cup {<<P(s), "post">>} \/ entries' = entries
    BY <1>1, <1>4 DEF PostLedger, Posting, Doing
  <2>2. Balanced(balance, entries \cup {<<P(s), "post">>})
    BY <2>1, EntryBalances
  <2> QED
    BY <2>1, <2>2
<1>5. CASE UNCHANGED <<balance, entries>>
  BY <1>5
<1>6. ~(Reserve(s) \/ AbandonRelease(s) \/ ReleaseFunds(s) \/ PostLedger(s))
         => UNCHANGED <<balance, entries>>
  BY DEF Proceed, LoadStep, SaveStep, FindHold, LookUp, RecordAttempt, SendTransfer,
         ScheduleSettlement, MarkSubmitted, AbandonMark, AbandonTell, CheckStatus, Notify,
         Close, Finish, money
<1> QED
  BY <1>2, <1>3, <1>4, <1>5, <1>6

LEMMA BalancedNext == PInv /\ Balanced(balance, entries) /\ [PayNext]_payVars
                         => Balanced(balance', entries')
<1> SUFFICES ASSUME PInv, Balanced(balance, entries), [PayNext]_payVars
             PROVE  Balanced(balance', entries')
  OBVIOUS
<1>1. CASE \E s \in Slot : Proceed(s)
  BY <1>1, BalancedStep
<1>2. CASE UNCHANGED <<balance, entries>>
  BY <1>2
<1>3. ~(\E s \in Slot : Proceed(s)) => UNCHANGED <<balance, entries>>
  BY DEF PayNext, payVars, money, Claims, ClaimJob, Sweep, Errs, Crash, InsertPayout,
         EnqueuePayout, RefuseRequest, LagElapses, Operator, TimePasses
<1> QED
  BY <1>1, <1>2, <1>3

\* Money is neither made nor lost, whatever crashes, is retried or overlaps:
\* the balance is what was there less the holds plus the releases, and never
\* negative (Reserve's test under the account's lock, the entry that guards
\* Release).
THEOREM MoneyConserved == PaySpec => []Conserved
<1>1. PayInit => Balanced(balance, entries)
  <2> SUFFICES ASSUME PayInit PROVE Balanced(balance, entries)
    OBVIOUS
  <2>1. \A kind : Holders(entries, kind) = {}
    BY DEF PayInit, Holders
  <2>2. balance = Opening /\ Opening \in Nat /\ Sum(Amount, {}) = 0 /\ IsFiniteSet({})
    BY SumEmpty, FS_EmptySet, PaymentsAssumption DEF PayInit
  <2> QED
    BY <2>1, <2>2 DEF Balanced
<1>2. Balanced(balance, entries) => Conserved
  BY TotalIsSum DEF Balanced, Conserved
<1>3. PInv /\ Balanced(balance, entries) /\ [PayNext]_payVars => Balanced(balance, entries)'
  BY BalancedNext
<1> QED
  BY <1>1, <1>2, <1>3, PayInvariant, PTL DEF PaySpec

-----------------------------------------------------------------------------
\* Every step of the service is a step of the table, or leaves it alone.
LEMMA PayTableStep == PInv /\ [PayNext]_payVars => [Next]_jobs
<1> SUFFICES ASSUME PInv, [PayNext]_payVars PROVE Next \/ UNCHANGED jobs
  OBVIOUS
<1>1. CASE Claims
  <2>1. PICK s \in Slot, j \in Job : ClaimJob(s, j)
    BY <1>1 DEF Claims
  <2>2. WorkerOf[s] \in Worker /\ DefaultQueue \in Queue /\ {j} \in SUBSET Job
    BY PaymentsAssumption, QueueAssumption
  <2>3. Claim(WorkerOf[s], DefaultQueue, {j})
    BY <2>1 DEF ClaimJob
  <2> QED
    BY <2>2, <2>3 DEF Next, WorkerNext
<1>2. CASE Sweep
  BY <1>2 DEF Sweep, Next, SweepNext
<1>3. ASSUME NEW s \in Slot, ScheduleSettlement(s) PROVE Next \/ UNCHANGED jobs
  <2>1. run[s].job \in Job
    BY <1>3 DEF ScheduleSettlement, Doing, PInv, Runs, RunOK
  <2>2. SettleJob(P(s)) \in Job
    BY <2>1, JobParts DEF P
  <2>3. \/ Enqueue(SettleJob(P(s)), DefaultQueue, SettlementAttempts, "ahead", NoKey)
        \/ UNCHANGED jobs
    BY <1>3 DEF ScheduleSettlement
  <2> QED
    BY <2>2, <2>3, QueueAssumption, PaymentsAssumption DEF Next, RequestNext
<1>4. ASSUME NEW s \in Slot, Finish(s) PROVE Next \/ UNCHANGED jobs
  <2> DEFINE w == WorkerOf[s]
             j == run[s].job
  <2>1. run[s].pc # "idle"
    BY <1>4 DEF Finish, At, Ending
  <2>2. j \in Job /\ w \in Worker
    BY <2>1, PaymentsAssumption DEF PInv, Runs, RunOK
  <2>3. \/ Complete(w, j) \/ Fail(w, j, FALSE) \/ Fail(w, j, TRUE)
        \/ UNCHANGED jobs
    BY <1>4 DEF Finish
  <2> HIDE DEF w, j
  <2> QED
    BY <2>2, <2>3 DEF Next, WorkerNext
<1>5. ASSUME NEW s \in Slot, Proceed(s) PROVE Next \/ UNCHANGED jobs
  BY <1>3, <1>4, <1>5
  DEF Proceed, LoadStep, SaveStep, FindHold, Reserve, LookUp, RecordAttempt, SendTransfer,
      MarkSubmitted, AbandonRelease, AbandonMark, AbandonTell, CheckStatus, ReleaseFunds,
      PostLedger, Notify, Close
<1>6. ASSUME NEW p \in Payout, EnqueuePayout(p) PROVE Next
  <2>1. PayJob(p) \in Job
    BY JobParts
  <2>2. Enqueue(PayJob(p), DefaultQueue, PayoutAttempts, "past", NoKey)
    BY <1>6 DEF EnqueuePayout
  <2> QED
    BY <2>1, <2>2, QueueAssumption, PaymentsAssumption DEF Next, RequestNext
<1>7. ASSUME NEW j \in Job, Operator(j) \/ TimePasses(j) PROVE Next
  <2>1. CASE \E c \in Copy \ {Original} : Replay(j, <<j[1], j[2], c>>)
    <3>1. PICK c \in Copy \ {Original} : Replay(j, <<j[1], j[2], c>>)
      BY <2>1
    <3>2. <<j[1], j[2], c>> \in Job
      BY JobParts
    <3> QED
      BY <3>1, <3>2 DEF Next, RequestNext
  <2> QED
    BY <1>7, <2>1 DEF Operator, TimePasses, Next, RequestNext, TimeNext
<1>8. CASE \/ \E s \in Slot : Errs(s)
           \/ \E w \in Worker : Crash(w)
           \/ \E p \in Payout : InsertPayout(p) \/ RefuseRequest(p) \/ LagElapses(p)
           \/ UNCHANGED payVars
  BY <1>8 DEF Errs, Crash, InsertPayout, RefuseRequest, LagElapses, payVars
<1> QED
  BY <1>1, <1>2, <1>5, <1>6, <1>7, <1>8 DEF PayNext

\* Requests, runs, settlements and faults use the jobs table as its statements
\* do: the service implements the table, so every theorem about JobStore (its
\* leases, its budgets, its lifecycle) holds of the service's jobs.
THEOREM PayImplementsStore == PaySpec => Spec
<1>1. PayInit => Init
  BY DEF PayInit
<1> QED
  BY <1>1, PayTableStep, PayInvariant, PTL DEF PaySpec, Spec
=============================================================================
