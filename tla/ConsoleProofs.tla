--------------------------- MODULE ConsoleProofs ---------------------------
(***************************************************************************)
(* Proofs about the dashboard's pages, for every set of jobs, workers and  *)
(* queues, every order of birth and every page size.  A page is put        *)
(* together while the tables change, so its invariant (PageOK) relates     *)
(* what has been read to what the tables hold now.  It rests on three      *)
(* things: a keyset cursor splits the jobs into read and unread whatever   *)
(* happens to them, a job's history only grows until retention deletes it, *)
(* and counting rows class by class counts every row once.                 *)
(***************************************************************************)
EXTENDS Console, HistoryProofs, SequenceTheorems

-----------------------------------------------------------------------------
(***************************************************************************)
(* The youngest n of a set of jobs.                                        *)
(***************************************************************************)
Younger(M, j) == {i \in M : BornAt[i] > BornAt[j]}
Top(M, n) == {j \in M : Cardinality(Younger(M, j)) < n}

\* Births are numbers, and sets of jobs finite.
LEMMA Births ==
    /\ \A j \in Job : BornAt[j] \in Nat /\ BornAt[j] > 0
    /\ \A M : M \subseteq Job => IsFiniteSet(M) /\ Cardinality(M) \in Nat
<1>1. ASSUME NEW M, M \subseteq Job PROVE IsFiniteSet(M)
  BY <1>1, HistoryAssumption, FS_Subset
<1> QED
  BY <1>1, ConsoleAssumption, FS_CardinalityType

\* There is an oldest job, and a youngest one.
LEMMA OldestExists ==
    ASSUME NEW M, M \subseteq Job, M # {}
    PROVE  \E j \in M : \A i \in M : BornAt[j] <= BornAt[i]
<1> DEFINE Before(j) == {i \in M : BornAt[i] < BornAt[j]}
           T == {Before(j) : j \in M}
<1>1. T \subseteq FiniteSubsetsOf(M) /\ T # {}
  <2>1. \A j \in M : Before(j) \subseteq M /\ IsFiniteSet(Before(j))
    BY Births
  <2> QED
    BY <2>1 DEF FiniteSubsetsOf
<1>2. PICK A \in T : \A B \in T : ~(B \subseteq A /\ B # A)
  <2> HIDE DEF T
  <2> QED
    BY <1>1, SmallestSet
<1>3. PICK j \in M : A = Before(j)
  OBVIOUS
<1>4. ASSUME NEW i \in M PROVE BornAt[j] <= BornAt[i]
  <2>1. SUFFICES ASSUME BornAt[i] < BornAt[j] PROVE FALSE
    BY Births
  <2>2. Before(i) \subseteq Before(j) /\ i \in Before(j) /\ i \notin Before(i)
    BY <2>1, Births
  <2>3. Before(i) \in T
    OBVIOUS
  <2> QED
    BY <1>2, <1>3, <2>2, <2>3
<1> QED
  BY <1>4

LEMMA YoungestExists ==
    ASSUME NEW M, M \subseteq Job, M # {}
    PROVE  \E j \in M : \A i \in M : BornAt[i] <= BornAt[j]
<1> DEFINE T == {Younger(M, j) : j \in M}
<1>1. T \subseteq FiniteSubsetsOf(M) /\ T # {}
  <2>1. \A j \in M : Younger(M, j) \subseteq M /\ IsFiniteSet(Younger(M, j))
    BY Births DEF Younger
  <2> QED
    BY <2>1 DEF FiniteSubsetsOf
<1>2. PICK A \in T : \A B \in T : ~(B \subseteq A /\ B # A)
  <2> HIDE DEF T
  <2> QED
    BY <1>1, SmallestSet
<1>3. PICK j \in M : A = Younger(M, j)
  OBVIOUS
<1>4. ASSUME NEW i \in M PROVE BornAt[i] <= BornAt[j]
  <2>1. SUFFICES ASSUME BornAt[i] > BornAt[j] PROVE FALSE
    BY Births
  <2>2. /\ Younger(M, i) \subseteq Younger(M, j)
        /\ i \in Younger(M, j) /\ i \notin Younger(M, i)
    BY <2>1, Births DEF Younger
  <2>3. Younger(M, i) \in T
    OBVIOUS
  <2> QED
    BY <1>2, <1>3, <2>2, <2>3
<1> QED
  BY <1>4

\* A page leaves out no row that is younger than one it shows.
LEMMA TopClosed ==
    ASSUME NEW M, M \subseteq Job, NEW n \in Nat, NEW i \in Top(M, n),
           NEW j \in M, BornAt[j] >= BornAt[i]
    PROVE  j \in Top(M, n)
<1>1. Younger(M, j) \subseteq Younger(M, i) /\ Younger(M, i) \subseteq Job
  BY Births DEF Younger, Top
<1>2. /\ Cardinality(Younger(M, j)) <= Cardinality(Younger(M, i))
      /\ Cardinality(Younger(M, j)) \in Nat /\ Cardinality(Younger(M, i)) \in Nat
  BY <1>1, Births, FS_Subset
<1> QED
  BY <1>2 DEF Top

\* A page holds at most n rows, and all of them unless it is full.
LEMMA TopSize ==
    ASSUME NEW M, M \subseteq Job, NEW n \in Nat \ {0}
    PROVE  /\ Cardinality(Top(M, n)) \in 0..n
           /\ Cardinality(Top(M, n)) # n => Top(M, n) = M
<1> DEFINE P == Top(M, n)
<1>1. P \subseteq M /\ P \subseteq Job /\ IsFiniteSet(P) /\ Cardinality(P) \in Nat
  BY Births DEF Top
<1>2. Cardinality(P) <= n
  <2>1. CASE P = {}
    BY <2>1, FS_EmptySet
  <2>2. CASE P # {}
    <3>1. PICK j \in P : \A i \in P : BornAt[j] <= BornAt[i]
      BY <1>1, <2>2, OldestExists
    <3> DEFINE Y == Younger(M, j)
    <3>2. P \subseteq Y \cup {j}
      BY <1>1, <3>1, Births, ConsoleAssumption DEF Younger
    <3>3. Y \subseteq Job /\ j \notin Y /\ Cardinality(Y) < n
      <4>1. Y \subseteq Job /\ j \notin Y
        BY <1>1, <3>1, Births DEF Younger
      <4>2. Cardinality(Y) < n
        BY <3>1 DEF Top
      <4> QED
        BY <4>1, <4>2
    <3> HIDE DEF P, Y
    <3>4. IsFiniteSet(Y \cup {j}) /\ Cardinality(Y \cup {j}) = Cardinality(Y) + 1
      BY <3>3, Births, FS_AddElement
    <3>5. Cardinality(P) <= Cardinality(Y \cup {j})
      BY <3>2, <3>4, FS_Subset
    <3> QED
      BY <1>1, <3>3, <3>4, <3>5, Births
  <2> QED
    BY <2>1, <2>2
<1>3. ASSUME P # M PROVE Cardinality(P) >= n
  <2> DEFINE X == M \ P
  <2>1. X # {} /\ X \subseteq Job
    BY <1>1, <1>3
  <2>2. PICK x \in X : \A i \in X : BornAt[i] <= BornAt[x]
    BY <2>1, YoungestExists
  <2> DEFINE Y == Younger(M, x)
  <2>3. Y \subseteq P
    BY <2>2, Births DEF Younger
  <2>4. Y \subseteq Job /\ ~(Cardinality(Y) < n)
    BY <2>2 DEF Younger, Top
  <2> HIDE DEF P, Y
  <2>5. Cardinality(Y) <= Cardinality(P) /\ Cardinality(Y) \in Nat
    BY <1>1, <2>3, <2>4, Births, FS_Subset
  <2> QED
    BY <1>1, <2>4, <2>5
<1> QED
  BY <1>1, <1>2, <1>3

\* What the store's List returns.
LEMMA ListIsTop ==
    ASSUME NEW status, NEW cursor, NEW n \in 1..100
    PROVE  List(status, cursor, n) = Top({j \in Matching(status) : Older(j, cursor)}, n)
BY DEF List, ListLimit, Top, Younger

-----------------------------------------------------------------------------
(***************************************************************************)
(* The walk through the list.  S are the jobs that exist.                  *)
(***************************************************************************)
ListPage ==
    [kind : {"list"}, next : {"rows", "shown"}, status : {NoFilter, "dead_letter"},
     cursor : Nat, listed : Seq(SUBSET Job), stayed : SUBSET Job]

Listed(seq) == UNION {seq[m] : m \in 1..Len(seq)}

\* Later pages are older.
Descending(seq) ==
    \A m, n \in 1..Len(seq) :
        m < n => \A i \in seq[m], j \in seq[n] : BornAt[i] > BornAt[j]

\* What was listed lies at or above the cursor; a job that was there all the
\* time and lies above it, or anywhere once the walk has ended, was listed.
WalkOK(p, S) ==
    /\ p \in ListPage
    /\ Descending(p.listed)
    /\ \A i \in Listed(p.listed) : p.cursor # 0 /\ BornAt[i] >= p.cursor
    /\ p.stayed \subseteq S
    /\ p.status = NoFilter =>
          \A j \in p.stayed : p.next = "shown" \/ ~Older(j, p.cursor) => j \in Listed(p.listed)

LEMMA WalkOpens ==
    ASSUME NEW status \in {NoFilter, "dead_letter"}, NEW S \in SUBSET Job
    PROVE  WalkOK([kind |-> "list", next |-> "rows", status |-> status, cursor |-> 0,
                   listed |-> <<>>, stayed |-> S], S)
<1> DEFINE p == [kind |-> "list", next |-> "rows", status |-> status, cursor |-> 0,
                 listed |-> <<>>, stayed |-> S]
<1>1. <<>> \in Seq(SUBSET Job) /\ Len(<<>>) = 0
  BY EmptySeq
<1>2. p \in ListPage
  BY <1>1 DEF ListPage
<1>3. Descending(<<>>) /\ Listed(<<>>) = {}
  <2>1. 1..0 = {}
    OBVIOUS
  <2>2. 1..Len(<<>>) = {}
    BY <1>1, <2>1
  <2> QED
    BY <2>2, Zenon DEF Descending, Listed
<1>4. \A j : Older(j, 0)
  BY DEF Older
<1> QED
  BY <1>2, <1>3, <1>4 DEF WalkOK

LEMMA ListedJobs ==
    ASSUME NEW seq \in Seq(SUBSET Job)
    PROVE  Listed(seq) \subseteq Job
<1>1. \A m \in 1..Len(seq) : seq[m] \in SUBSET Job
  OBVIOUS
<1> QED
  BY <1>1 DEF Listed

\* One more page at the end.
LEMMA AppendPage ==
    ASSUME NEW seq \in Seq(SUBSET Job), NEW rows \in SUBSET Job
    PROVE  /\ Append(seq, rows) \in Seq(SUBSET Job)
           /\ Listed(Append(seq, rows)) = Listed(seq) \cup rows
           /\ Descending(seq) /\ (\A i \in Listed(seq), j \in rows : BornAt[i] > BornAt[j])
                 => Descending(Append(seq, rows))
<1> DEFINE longer == Append(seq, rows)
<1>1. /\ longer \in Seq(SUBSET Job) /\ Len(seq) \in Nat /\ Len(longer) = Len(seq) + 1
      /\ \A m \in 1..Len(seq) : longer[m] = seq[m]
      /\ longer[Len(seq) + 1] = rows
  OBVIOUS
<1> HIDE DEF longer
<1>2. \A m \in 1..Len(longer) : m \in 1..Len(seq) \/ m = Len(seq) + 1
  BY <1>1
<1>3. \A m \in 1..Len(seq) : m \in 1..Len(longer) /\ m < Len(seq) + 1
  BY <1>1
<1>4. Len(seq) + 1 \in 1..Len(longer)
  BY <1>1
<1>5. Listed(longer) = Listed(seq) \cup rows
  <2>1. ASSUME NEW x, x \in Listed(longer) PROVE x \in Listed(seq) \cup rows
    <3>1. PICK m \in 1..Len(longer) : x \in longer[m]
      BY <2>1 DEF Listed
    <3> QED
      BY <1>1, <1>2, <3>1 DEF Listed
  <2>2. ASSUME NEW x, x \in Listed(seq) PROVE x \in Listed(longer)
    <3>1. PICK m \in 1..Len(seq) : x \in seq[m]
      BY <2>2 DEF Listed
    <3> QED
      BY <1>1, <1>3, <3>1 DEF Listed
  <2>3. rows \subseteq Listed(longer)
    BY <1>1, <1>4 DEF Listed
  <2> QED
    BY <2>1, <2>2, <2>3
<1>6. ASSUME Descending(seq), \A i \in Listed(seq), j \in rows : BornAt[i] > BornAt[j]
      PROVE  Descending(longer)
  <2>1. SUFFICES ASSUME NEW m \in 1..Len(longer), NEW n \in 1..Len(longer), m < n,
                        NEW i \in longer[m], NEW j \in longer[n]
                 PROVE  BornAt[i] > BornAt[j]
    BY DEF Descending
  <2>2. m \in 1..Len(seq) /\ i \in seq[m]
    BY <1>1, <1>2, <2>1
  <2>3. i \in Listed(seq)
    BY <2>2 DEF Listed
  <2>4. CASE n \in 1..Len(seq)
    BY <1>1, <1>6, <2>1, <2>2, <2>4 DEF Descending
  <2>5. CASE n = Len(seq) + 1
    BY <1>1, <1>6, <2>3, <2>5
  <2> QED
    BY <1>2, <2>4, <2>5
<1> QED
  BY <1>1, <1>5, <1>6 DEF longer

\* The rows of a page, out of those M that match, and where the cursor is put.
PageRead(p, M, rows, cursor) ==
    /\ rows = Top({j \in M : Older(j, p.cursor)}, UiJobsLimit)
    /\ rows = {} => cursor = p.cursor
    /\ rows # {} => \E j \in rows : cursor = BornAt[j] /\ \A i \in rows : BornAt[j] <= BornAt[i]

\* The cursor only goes down, and the page lies between two cursors.
LEMMA CursorFacts ==
    ASSUME NEW p, p.cursor \in Nat, NEW M, M \subseteq Job, NEW rows, NEW cursor,
           PageRead(p, M, rows, cursor)
    PROVE  /\ rows \subseteq M /\ cursor \in Nat
           /\ rows = {} => cursor = p.cursor
           /\ p.cursor # 0 => cursor # 0 /\ cursor <= p.cursor
           /\ \A i \in rows : /\ BornAt[i] \in Nat /\ BornAt[i] >= cursor /\ cursor # 0
                              /\ p.cursor # 0 => BornAt[i] < p.cursor
           /\ \A j \in M : Older(j, p.cursor) /\ ~Older(j, cursor) => j \in rows
           /\ Cardinality(rows) # UiJobsLimit => \A j \in M : Older(j, p.cursor) => j \in rows
<1> DEFINE R == {j \in M : Older(j, p.cursor)}
<1>1. R \subseteq Job /\ UiJobsLimit \in Nat \ {0}
  BY ConsoleAssumption
<1>2. rows = Top(R, UiJobsLimit) /\ rows \subseteq R /\ (rows = {} => cursor = p.cursor)
  BY DEF PageRead, Top
<1>3. \A i \in rows : BornAt[i] \in Nat /\ BornAt[i] > 0 /\ (p.cursor # 0 => BornAt[i] < p.cursor)
  BY <1>1, <1>2, Births DEF Older
<1>4. \A j \in R : BornAt[j] \in Nat
  BY <1>1, Births
<1>5. CASE rows = {}
  <2>1. Cardinality(rows) # UiJobsLimit => R = {}
    BY <1>1, <1>2, <1>5, TopSize
  <2> QED
    BY <1>2, <1>5, <2>1
<1>6. CASE rows # {}
  <2>1. PICK o \in rows : cursor = BornAt[o] /\ \A i \in rows : BornAt[o] <= BornAt[i]
    BY <1>6 DEF PageRead
  <2>2. /\ cursor \in Nat /\ cursor # 0
        /\ p.cursor # 0 => cursor < p.cursor
        /\ \A i \in rows : BornAt[i] >= cursor
    BY <1>3, <2>1
  <2>3. ASSUME NEW j \in M, Older(j, p.cursor), ~Older(j, cursor) PROVE j \in rows
    <3>1. j \in R /\ BornAt[j] >= BornAt[o]
      BY <1>3, <1>4, <2>1, <2>3 DEF Older
    <3> HIDE DEF R
    <3> QED
      BY <1>1, <1>2, <2>1, <3>1, TopClosed
  <2>4. Cardinality(rows) # UiJobsLimit => rows = R
    BY <1>1, <1>2, TopSize
  <2>5. \A i \in rows : /\ BornAt[i] \in Nat /\ BornAt[i] >= cursor /\ cursor # 0
                        /\ p.cursor # 0 => BornAt[i] < p.cursor
    BY <1>3, <2>2
  <2>6. p.cursor # 0 => cursor # 0 /\ cursor <= p.cursor
    BY <2>2
  <2>7. Cardinality(rows) # UiJobsLimit => \A j \in M : Older(j, p.cursor) => j \in rows
    BY <2>4
  <2>8. rows \subseteq M
    BY <1>2
  <2> HIDE DEF R
  <2> QED
    BY <1>2, <1>6, <2>2, <2>3, <2>5, <2>6, <2>7, <2>8
<1> QED
  BY <1>5, <1>6

\* ReadList: a full page moves the cursor to its oldest row, any other ends the
\* walk because it holds all there was.
LEMMA WalkReads ==
    ASSUME NEW S, S \subseteq Job, NEW p, WalkOK(p, S),
           NEW M, M \subseteq S, p.status = NoFilter => M = S,
           NEW rows, NEW cursor, PageRead(p, M, rows, cursor)
    PROVE  WalkOK([p EXCEPT !.listed = Append(@, rows), !.cursor = cursor,
                            !.next = IF Cardinality(rows) = UiJobsLimit THEN "rows" ELSE "shown"], S)
<1> DEFINE next == IF Cardinality(rows) = UiJobsLimit THEN "rows" ELSE "shown"
           listed == Append(p.listed, rows)
           q == [p EXCEPT !.listed = listed, !.cursor = cursor, !.next = next]
<1>1. /\ p \in ListPage /\ p.cursor \in Nat /\ p.listed \in Seq(SUBSET Job)
      /\ p.stayed \subseteq S
  BY DEF WalkOK, ListPage
<1>n. p.cursor \in Nat
  BY <1>1
<1>2. \A i \in Listed(p.listed) : p.cursor # 0 /\ BornAt[i] >= p.cursor /\ BornAt[i] \in Nat
  <2>1. Listed(p.listed) \subseteq Job
    BY <1>1, ListedJobs
  <2> QED
    BY <2>1, Births DEF WalkOK
<1>3. M \subseteq Job
  OBVIOUS
<1>4. /\ rows \subseteq M /\ cursor \in Nat
      /\ p.cursor # 0 => cursor # 0 /\ cursor <= p.cursor
      /\ \A i \in rows : /\ BornAt[i] \in Nat /\ BornAt[i] >= cursor /\ cursor # 0
                         /\ p.cursor # 0 => BornAt[i] < p.cursor
      /\ \A j \in M : Older(j, p.cursor) /\ ~Older(j, cursor) => j \in rows
      /\ Cardinality(rows) # UiJobsLimit => \A j \in M : Older(j, p.cursor) => j \in rows
  BY <1>1, <1>3, CursorFacts
<1>5. \A i \in Listed(p.listed), j \in rows : BornAt[i] > BornAt[j]
  <2> TAKE i \in Listed(p.listed), j \in rows
  <2>1. p.cursor # 0 /\ BornAt[i] >= p.cursor /\ BornAt[i] \in Nat
    BY <1>2
  <2>2. BornAt[j] \in Nat /\ BornAt[j] < p.cursor
    BY <1>4, <2>1
  <2> QED
    BY <1>n, <2>1, <2>2
<1>6. /\ listed \in Seq(SUBSET Job) /\ Listed(listed) = Listed(p.listed) \cup rows
      /\ Descending(listed)
  <2>1. rows \in SUBSET Job
    BY <1>3, <1>4
  <2> QED
    BY <1>1, <1>5, <2>1, AppendPage DEF WalkOK
<1>7. ASSUME NEW i \in Listed(listed) PROVE cursor # 0 /\ BornAt[i] >= cursor
  <2>1. CASE i \in rows
    BY <1>4, <2>1
  <2>2. CASE i \in Listed(p.listed)
    <3>1. p.cursor # 0 /\ BornAt[i] >= p.cursor /\ BornAt[i] \in Nat
      BY <1>2, <2>2
    <3>2. cursor \in Nat /\ cursor # 0 /\ cursor <= p.cursor
      BY <1>4, <3>1
    <3> QED
      BY <1>n, <3>1, <3>2
  <2> QED
    BY <1>6, <2>1, <2>2
<1>8. ASSUME p.status = NoFilter, NEW j \in p.stayed, next = "shown" \/ ~Older(j, cursor)
      PROVE  j \in Listed(listed)
  <2>1. CASE ~Older(j, p.cursor)
    BY <1>6, <1>8, <2>1 DEF WalkOK
  <2>2. CASE Older(j, p.cursor)
    <3>1. j \in M
      BY <1>1, <1>8
    <3>2. j \in rows
      BY <1>4, <1>8, <2>2, <3>1
    <3> QED
      BY <1>6, <3>2
  <2> QED
    BY <2>1, <2>2
<1>9. next \in {"rows", "shown"}
  OBVIOUS
<1> HIDE DEF next, listed
<1>10. /\ q \in ListPage /\ q.listed = listed /\ q.cursor = cursor /\ q.next = next
       /\ q.status = p.status /\ q.stayed = p.stayed
  BY <1>1, <1>4, <1>6, <1>9 DEF ListPage
<1> HIDE DEF q
<1>11. WalkOK(q, S)
  BY <1>1, <1>6, <1>7, <1>8, <1>10 DEF WalkOK
<1> QED
  BY <1>11 DEF q, next, listed

\* Jobs that are deleted meanwhile are not owed to anyone.
LEMMA WalkGoesOn ==
    ASSUME NEW S, NEW p, WalkOK(p, S), NEW T
    PROVE  WalkOK([p EXCEPT !.stayed = {j \in @ : j \in T}], T)
<1> DEFINE stayed == {j \in p.stayed : j \in T}
           q == [p EXCEPT !.stayed = stayed]
<1>1. p \in ListPage /\ stayed \in SUBSET p.stayed /\ stayed \subseteq T
  BY DEF WalkOK
<1> HIDE DEF stayed
<1>2. /\ q \in ListPage /\ q.listed = p.listed /\ q.cursor = p.cursor /\ q.next = p.next
      /\ q.status = p.status /\ q.stayed = stayed
  BY <1>1 DEF ListPage
<1> HIDE DEF q
<1>3. WalkOK(q, T)
  BY <1>1, <1>2 DEF WalkOK
<1> QED
  BY <1>3 DEF q, stayed

-----------------------------------------------------------------------------
(***************************************************************************)
(* What the history of a job tells besides TrailOK: events that were       *)
(* written together with another row, and the failure behind a retry.      *)
(***************************************************************************)
Told(row, ev, st, sg) ==
    /\ ev \in [EventType -> Nat] /\ sg \in Nat
    /\ IsFiniteSet(st) /\ ev["step_completed"] = Cardinality(st)
    /\ ev["signaled"] = sg
    /\ row.status = "retrying" => ev["failed_retrying"] > 0

\* A history that goes on: rows are only added, a checkpoint and a signal with
\* their event, and a job that newly waits for a retry has a new failure.
Continues(row, ev, st, sg, row2, ev2, st2, sg2) ==
    /\ ev2 \in [EventType -> Nat]
    /\ \A e \in EventType : ev[e] <= ev2[e]
    /\ \/ st2 = st /\ ev2["step_completed"] = ev["step_completed"]
       \/ /\ \E name : name \notin st /\ st2 = st \cup {name}
          /\ ev2["step_completed"] = ev["step_completed"] + 1
    /\ \/ sg2 = sg /\ ev2["signaled"] = ev["signaled"]
       \/ sg2 = sg + 1 /\ ev2["signaled"] = ev["signaled"] + 1
    /\ row2.status = "retrying" =>
          row.status = "retrying" \/ ev["failed_retrying"] < ev2["failed_retrying"]

\* Retention, which deletes the rows with the job.
Vanishes(row2, ev2, st2, sg2) ==
    row2.status = "pruned" /\ ev2 = NoEvents /\ st2 = {} /\ sg2 = 0

LEMMA ContinuesTold ==
    ASSUME NEW row, NEW ev, NEW st, NEW sg, Told(row, ev, st, sg),
           NEW row2, NEW ev2, NEW st2, NEW sg2,
           Continues(row, ev, st, sg, row2, ev2, st2, sg2)
    PROVE  /\ Told(row2, ev2, st2, sg2)
           /\ st \subseteq st2 /\ sg <= sg2
           /\ \A e \in EventType : ev[e] \in Nat /\ ev2[e] \in Nat /\ ev[e] <= ev2[e]
<1>1. /\ \A e \in EventType : ev[e] \in Nat /\ ev2[e] \in Nat /\ ev[e] <= ev2[e]
      /\ ev2 \in [EventType -> Nat]
  BY DEF Told, Continues
<1>2. IsFiniteSet(st2) /\ ev2["step_completed"] = Cardinality(st2) /\ st \subseteq st2
  BY FS_AddElement DEF Told, Continues
<1>3. sg2 \in Nat /\ ev2["signaled"] = sg2 /\ sg <= sg2
  BY DEF Told, Continues
<1>4. row2.status = "retrying" => ev2["failed_retrying"] > 0
  BY <1>1, Names DEF Told, Continues
<1> QED
  BY <1>1, <1>2, <1>3, <1>4 DEF Told

LEMMA VanishesTold ==
    ASSUME NEW row2, NEW ev2, NEW st2, NEW sg2, Vanishes(row2, ev2, st2, sg2)
    PROVE  Told(row2, ev2, st2, sg2)
<1>1. /\ NoEvents \in [EventType -> Nat] /\ NoEvents["step_completed"] = 0
      /\ NoEvents["signaled"] = 0
  BY Names DEF NoEvents
<1> QED
  BY <1>1, FS_EmptySet DEF Told, Vanishes

\* A step that leaves a job's history alone.
LEMMA StaysContinues ==
    ASSUME NEW row, NEW ev \in [EventType -> Nat], NEW st, NEW sg, NEW row2,
           row2.status = "retrying" => row.status = "retrying"
    PROVE  Continues(row, ev, st, sg, row2, ev, st, sg)
BY DEF Continues

\* A step that logs an event that comes alone.
LEMMA LogsContinues ==
    ASSUME NEW row, NEW ev \in [EventType -> Nat], NEW st, NEW sg, NEW row2,
           NEW e \in EventType \ {"step_completed", "signaled"},
           row2.status = "retrying" => row.status = "retrying" \/ e = "failed_retrying"
    PROVE  Continues(row, ev, st, sg, row2, [ev EXCEPT ![e] = @ + 1], st, sg)
<1> DEFINE ev2 == [ev EXCEPT ![e] = @ + 1]
<1>1. /\ ev2 \in [EventType -> Nat] /\ ev2[e] = ev[e] + 1 /\ ev[e] \in Nat
      /\ \A g \in EventType : g # e => ev2[g] = ev[g] /\ ev[g] \in Nat
  BY Bump
<1> HIDE DEF ev2
<1>2. \A g \in EventType : ev[g] <= ev2[g]
  BY <1>1
<1>3. /\ ev2["step_completed"] = ev["step_completed"] /\ ev2["signaled"] = ev["signaled"]
      /\ e = "failed_retrying" => ev["failed_retrying"] < ev2["failed_retrying"]
  BY <1>1, Names
<1>4. Continues(row, ev, st, sg, row2, ev2, st, sg)
  BY <1>1, <1>2, <1>3 DEF Continues
<1> QED
  BY <1>4 DEF ev2

\* SaveStep's history, and Signal's.
LEMMA SavesContinues ==
    ASSUME NEW row, NEW ev \in [EventType -> Nat], NEW st, NEW sg, NEW name, name \notin st
    PROVE  Continues(row, ev, st, sg, row, [ev EXCEPT !["step_completed"] = @ + 1],
                     st \cup {name}, sg)
<1> DEFINE ev2 == [ev EXCEPT !["step_completed"] = @ + 1]
<1>1. /\ ev2 \in [EventType -> Nat] /\ ev2["step_completed"] = ev["step_completed"] + 1
      /\ \A g \in EventType : g # "step_completed" => ev2[g] = ev[g]
      /\ \A g \in EventType : ev[g] \in Nat
  BY Names, Bump
<1> HIDE DEF ev2
<1>2. (\A g \in EventType : ev[g] <= ev2[g]) /\ ev2["signaled"] = ev["signaled"]
  BY <1>1, Names
<1>3. Continues(row, ev, st, sg, row, ev2, st \cup {name}, sg)
  BY <1>1, <1>2 DEF Continues
<1> QED
  BY <1>3 DEF ev2

LEMMA SignalsContinues ==
    ASSUME NEW row, NEW ev \in [EventType -> Nat], NEW st, NEW sg, NEW row2,
           row2.status = row.status
    PROVE  Continues(row, ev, st, sg, row2, [ev EXCEPT !["signaled"] = @ + 1], st, sg + 1)
<1> DEFINE ev2 == [ev EXCEPT !["signaled"] = @ + 1]
<1>1. /\ ev2 \in [EventType -> Nat] /\ ev2["signaled"] = ev["signaled"] + 1
      /\ \A g \in EventType : g # "signaled" => ev2[g] = ev[g]
      /\ \A g \in EventType : ev[g] \in Nat
  BY Names, Bump
<1> HIDE DEF ev2
<1>2. (\A g \in EventType : ev[g] <= ev2[g]) /\ ev2["step_completed"] = ev["step_completed"]
  BY <1>1, Names
<1>3. Continues(row, ev, st, sg, row2, ev2, st, sg + 1)
  BY <1>1, <1>2 DEF Continues
<1> QED
  BY <1>3 DEF ev2

-----------------------------------------------------------------------------
(***************************************************************************)
(* Every step continues each job's history or deletes it.                  *)
(***************************************************************************)
Goes(i) ==
    \/ Continues(jobs[i], events[i], steps[i], signals[i],
                 jobs'[i], events'[i], steps'[i], signals'[i])
    \/ Vanishes(jobs'[i], events'[i], steps'[i], signals'[i])

\* No step but Fail's makes a job wait for a retry.
NoNewRetry == \A i \in Watched : jobs'[i].status = "retrying" => jobs[i].status = "retrying"

LEMMA PutNoRetry ==
    ASSUME jobs \in [Job -> Row], NEW j \in Job, NEW row, SetRow(j, row),
           row.status = "retrying" => jobs[j].status = "retrying"
    PROVE  NoNewRetry
BY Put, HistoryAssumption DEF NoNewRetry

LEMMA SilentGoes ==
    ASSUME HistInv, NoNewRetry, UNCHANGED <<events, steps, signals>>
    PROVE  \A i \in Watched : Goes(i)
<1> TAKE i \in Watched
<1>1. events[i] \in [EventType -> Nat]
  BY DEF HistInv
<1>2. Continues(jobs[i], events[i], steps[i], signals[i], jobs'[i], events[i], steps[i], signals[i])
  BY <1>1, StaysContinues DEF NoNewRetry
<1> QED
  BY <1>2 DEF Goes

LEMMA LoggedGoes ==
    ASSUME HistInv, NEW S \in SUBSET Job, NEW e \in EventType \ {"step_completed", "signaled"},
           Log(S, e), UNCHANGED <<steps, signals>>,
           \A i \in Watched \ S : jobs'[i] = jobs[i],
           NoNewRetry \/ e = "failed_retrying"
    PROVE  \A i \in Watched : Goes(i)
<1> TAKE i \in Watched
<1>1. events[i] \in [EventType -> Nat] /\ written \in Nat
  BY DEF HistInv
<1>2. events'[i] = IF i \in S THEN [events[i] EXCEPT ![e] = @ + 1] ELSE events[i]
  BY <1>1, Logged
<1>3. jobs'[i].status = "retrying" => jobs[i].status = "retrying" \/ e = "failed_retrying"
  BY DEF NoNewRetry
<1>4. CASE i \in S
  <2> DEFINE ev2 == [events[i] EXCEPT ![e] = @ + 1]
  <2>1. Continues(jobs[i], events[i], steps[i], signals[i], jobs'[i], ev2, steps[i], signals[i])
    BY <1>1, <1>3, LogsContinues
  <2>2. events'[i] = ev2 /\ steps'[i] = steps[i] /\ signals'[i] = signals[i]
    BY <1>2, <1>4
  <2> HIDE DEF ev2
  <2> QED
    BY <2>1, <2>2 DEF Goes
<1>5. CASE i \notin S
  <2>1. Continues(jobs[i], events[i], steps[i], signals[i], jobs[i], events[i], steps[i], signals[i])
    BY <1>1, StaysContinues
  <2>2. jobs'[i] = jobs[i] /\ events'[i] = events[i] /\ steps'[i] = steps[i]
        /\ signals'[i] = signals[i]
    BY <1>2, <1>5
  <2> QED
    BY <2>1, <2>2 DEF Goes
<1> QED
  BY <1>4, <1>5

\* The events that come alone.
LEMMA AloneNames ==
    {"enqueued", "idempotent_hit", "claimed", "suspended", "failed_retrying",
     "failed_dead_letter", "dead_lettered"} \subseteq EventType \ {"step_completed", "signaled"}
BY Names

LEMMA LoggedOneGoes ==
    ASSUME HistInv, NEW j \in Job, NEW e \in EventType \ {"step_completed", "signaled"},
           Log({j}, e), UNCHANGED <<steps, signals>>,
           \A i \in Job : i # j => jobs'[i] = jobs[i],
           NoNewRetry \/ e = "failed_retrying"
    PROVE  \A i \in Watched : Goes(i)
<1> DEFINE S == {j}
<1>1. S \in SUBSET Job /\ Log(S, e) /\ \A i \in Watched \ S : jobs'[i] = jobs[i]
  BY HistoryAssumption
<1> HIDE DEF S
<1> QED
  BY <1>1, LoggedGoes

LEMMA RequestedGoes == HistInv /\ Requested => \A i \in Watched : Goes(i)
<1> SUFFICES ASSUME HistInv, Requested PROVE \A i \in Watched : Goes(i)
  OBVIOUS
<1> DEFINE Goal == \A i \in Watched : Goes(i)
<1>0. jobs \in [Job -> Row] /\ \A j \in Job : jobs[j] \in Row
  BY TakenApart DEF StoreInv
<1>1. ASSUME NEW j \in Job, EnqueueJob(j) PROVE Goal
  <2>1. PICK q \in Queue \cup {NoQueue}, m \in RequestedMax,
             d \in {"past", "ahead"}, k \in Key \cup {NoKey} : Enqueue(j, q, m, d, k)
    BY <1>1 DEF EnqueueJob
  <2> DEFINE r == Enqueued(q, m, d, k)
  <2>2. r.status # "retrying"
    BY DEF Enqueued, Default
  <2>3. SetRow(j, r)
    BY <2>1 DEF Enqueue
  <2> HIDE DEF r
  <2>4. NoNewRetry /\ \A i \in Job : i # j => jobs'[i] = jobs[i]
    BY <1>0, <2>2, <2>3, Put, PutNoRetry
  <2> QED
    BY <1>1, <2>4, LoggedOneGoes, AloneNames DEF EnqueueJob
<1>2. ASSUME NEW j \in Job, EnqueueHit(j) PROVE Goal
  <2>1. NoNewRetry /\ UNCHANGED jobs
    BY <1>2 DEF EnqueueHit, NoNewRetry
  <2> QED
    BY <1>2, <2>1, LoggedOneGoes, AloneNames DEF EnqueueHit
<1>3. ASSUME NEW j \in Job, SignalJob(j) PROVE Goal
  <2> DEFINE r == Woken(jobs[j])
  <2>1. SetRow(j, r) /\ r.status = jobs[j].status
    BY <1>0, <1>3, Fields DEF SignalJob, Signal
  <2> HIDE DEF r
  <2>2. jobs'[j] = r /\ \A i \in Job : i # j => jobs'[i] = jobs[i]
    BY <1>0, <2>1, Put
  <2>3. /\ Log({j}, "signaled") /\ UNCHANGED steps
        /\ \A i \in Watched : signals'[i] = IF i = j THEN signals[i] + 1 ELSE signals[i]
    BY <1>3 DEF SignalJob
  <2>4. ASSUME NEW i \in Watched PROVE Goes(i)
    <3>1. events[i] \in [EventType -> Nat] /\ written \in Nat /\ i \in Job
      BY HistoryAssumption DEF HistInv
    <3>2. events'[i] = IF i = j THEN [events[i] EXCEPT !["signaled"] = @ + 1] ELSE events[i]
      BY <2>3, <3>1, Logged, Names
    <3>3. CASE i = j
      <4> DEFINE ev2 == [events[i] EXCEPT !["signaled"] = @ + 1]
      <4>1. jobs'[i].status = jobs[i].status
        BY <2>1, <2>2, <3>3
      <4>2. Continues(jobs[i], events[i], steps[i], signals[i], jobs'[i], ev2, steps[i],
                      signals[i] + 1)
        BY <3>1, <4>1, SignalsContinues
      <4>3. events'[i] = ev2 /\ steps'[i] = steps[i] /\ signals'[i] = signals[i] + 1
        BY <2>3, <3>2, <3>3
      <4> HIDE DEF ev2
      <4> QED
        BY <4>2, <4>3 DEF Goes
    <3>4. CASE i # j
      <4>1. jobs'[i] = jobs[i] /\ events'[i] = events[i] /\ steps'[i] = steps[i]
            /\ signals'[i] = signals[i]
        BY <2>2, <2>3, <3>1, <3>2, <3>4
      <4>2. Continues(jobs[i], events[i], steps[i], signals[i], jobs[i], events[i], steps[i],
                      signals[i])
        BY <3>1, StaysContinues
      <4> QED
        BY <4>1, <4>2 DEF Goes
    <3> QED
      BY <3>3, <3>4
  <2> QED
    BY <2>4
<1>4. ASSUME NEW j \in Job, CancelJob(j) PROVE Goal
  <2>1. SetRow(j, Canceled(jobs[j])) /\ Canceled(jobs[j]).status # "retrying"
    BY <1>0, <1>4, Fields DEF CancelJob, Cancel
  <2>2. NoNewRetry
    BY <1>0, <2>1, PutNoRetry
  <2> QED
    BY <1>4, <2>2, SilentGoes DEF CancelJob
<1>5. ASSUME NEW j \in Job, RetryJob(j) PROVE Goal
  <2>1. SetRow(j, Requeued(jobs[j])) /\ Requeued(jobs[j]).status # "retrying"
    BY <1>0, <1>5, Fields DEF RetryJob, RetryDeadLetter
  <2>2. NoNewRetry
    BY <1>0, <2>1, PutNoRetry
  <2> QED
    BY <1>5, <2>2, SilentGoes DEF RetryJob
<1>6. ASSUME NEW k \in Job, NEW j \in Job, ReplayJob(k, j) PROVE Goal
  <2>1. SetRow(j, Copied(jobs[k])) /\ Copied(jobs[k]).status # "retrying"
    BY <1>0, <1>6, Fields DEF ReplayJob, Replay
  <2>2. NoNewRetry
    BY <1>0, <2>1, PutNoRetry
  <2> QED
    BY <1>6, <2>2, SilentGoes DEF ReplayJob
<1> QED
  BY <1>1, <1>2, <1>3, <1>4, <1>5, <1>6 DEF Requested

LEMMA WorkedGoes == HistInv /\ Worked => \A i \in Watched : Goes(i)
<1> SUFFICES ASSUME HistInv, Worked PROVE \A i \in Watched : Goes(i)
  OBVIOUS
<1> DEFINE Goal == \A i \in Watched : Goes(i)
<1>0. jobs \in [Job -> Row] /\ \A j \in Job : jobs[j] \in Row
  BY TakenApart DEF StoreInv
<1>1. ASSUME NEW w \in Worker, ClaimJobs(w) PROVE Goal
  <2>1. PICK q \in Queue, S \in SUBSET Job : Claim(w, q, S) /\ Log(S, "claimed")
    BY <1>1 DEF ClaimJobs
  <2>2. \A i \in Job : jobs'[i] = IF i \in S THEN Claimed(jobs[i], w) ELSE jobs[i]
    BY <2>1 DEF Claim
  <2>3. NoNewRetry /\ \A i \in Watched \ S : jobs'[i] = jobs[i]
    BY <1>0, <2>2, Fields, HistoryAssumption DEF NoNewRetry
  <2> QED
    BY <1>1, <2>1, <2>3, LoggedGoes, AloneNames DEF ClaimJobs
<1>2. ASSUME NEW w \in Worker, NEW j \in Job, SuspendJob(w, j) PROVE Goal
  <2>1. PICK v \in 0..MaxWake : Suspend(w, j, v)
    BY <1>2 DEF SuspendJob
  <2> DEFINE r == Suspended(jobs[j])
             a == Greatest(jobs[j].attempt - 1, 0)
  <2>2. r = [[jobs[j] EXCEPT !.owner = NoWorker, !.lease = "none"]
                EXCEPT !.status = "queued", !.runAfter = "ahead", !.attempt = a]
    BY DEF Suspended, Released
  <2> HIDE DEF a
  <2>3. SetRow(j, r) /\ r.status # "retrying"
    BY <1>0, <2>1, <2>2 DEF Suspend, Row
  <2> HIDE DEF r
  <2>4. NoNewRetry /\ \A i \in Job : i # j => jobs'[i] = jobs[i]
    BY <1>0, <2>3, Put, PutNoRetry
  <2> QED
    BY <1>2, <2>4, LoggedOneGoes, AloneNames DEF SuspendJob
<1>3. ASSUME NEW w \in Worker, NEW j \in Job, FailJob(w, j) PROVE Goal
  <2>1. PICK permanent \in BOOLEAN : Fail(w, j, permanent)
    BY <1>3 DEF FailJob
  <2> DEFINE r == Failed(jobs[j], permanent)
             e == IF r.status = "retrying" THEN "failed_retrying" ELSE "failed_dead_letter"
  <2>2. SetRow(j, r) /\ jobs'[j] = r /\ \A i \in Job : i # j => jobs'[i] = jobs[i]
    BY <1>0, <2>1, Put DEF Fail
  <2>3. Log({j}, e) /\ UNCHANGED <<steps, signals>>
    BY <1>3, <2>2 DEF FailJob
  <2> HIDE DEF r
  <2>4. NoNewRetry \/ e = "failed_retrying"
    BY <1>0, <2>2, PutNoRetry
  <2>5. e \in EventType \ {"step_completed", "signaled"}
    BY AloneNames
  <2> HIDE DEF e
  <2> QED
    BY <2>2, <2>3, <2>4, <2>5, LoggedOneGoes
<1>4. ASSUME NEW w \in Worker, NEW j \in Job, CompleteJob(w, j) PROVE Goal
  <2>1. SetRow(j, Succeeded(jobs[j])) /\ Succeeded(jobs[j]).status # "retrying"
    BY <1>0, <1>4, Fields DEF CompleteJob, Complete
  <2>2. NoNewRetry
    BY <1>0, <2>1, PutNoRetry
  <2> QED
    BY <1>4, <2>2, SilentGoes DEF CompleteJob
<1>5. ASSUME NEW w \in Worker, NEW j \in Job, NEW name \in StepName, SaveStep(w, j, name)
      PROVE  Goal
  <2>1. /\ j \in Watched /\ name \notin steps[j] /\ Log({j}, "step_completed")
        /\ UNCHANGED <<jobs, signals>> /\ steps' = [steps EXCEPT ![j] = @ \cup {name}]
    BY <1>5 DEF SaveStep
  <2>2. ASSUME NEW i \in Watched PROVE Goes(i)
    <3>1. /\ events[i] \in [EventType -> Nat] /\ written \in Nat
          /\ steps \in [Watched -> SUBSET StepName]
          /\ j \in Job
      BY <2>1, HistoryAssumption DEF HistInv
    <3>2. events'[i] = IF i = j THEN [events[i] EXCEPT !["step_completed"] = @ + 1] ELSE events[i]
      <4> DEFINE S == {j}
      <4>1. S \in SUBSET Job /\ Log(S, "step_completed") /\ "step_completed" \in EventType
        BY <2>1, <3>1, Names
      <4>2. (i \in S) <=> (i = j)
        OBVIOUS
      <4> HIDE DEF S
      <4>3. written \in Nat
        BY <3>1
      <4> QED
        BY <4>1, <4>2, <4>3, Logged
    <3>3. steps'[i] = IF i = j THEN steps[i] \cup {name} ELSE steps[i]
      BY <2>1, <3>1
    <3>4. CASE i = j
      <4> DEFINE ev2 == [events[i] EXCEPT !["step_completed"] = @ + 1]
      <4>1. Continues(jobs[i], events[i], steps[i], signals[i], jobs[i], ev2,
                      steps[i] \cup {name}, signals[i])
        BY <2>1, <3>1, <3>4, SavesContinues
      <4>2. /\ jobs'[i] = jobs[i] /\ events'[i] = ev2 /\ steps'[i] = steps[i] \cup {name}
            /\ signals'[i] = signals[i]
        BY <2>1, <3>2, <3>3, <3>4
      <4> HIDE DEF ev2
      <4> QED
        BY <4>1, <4>2 DEF Goes
    <3>5. CASE i # j
      <4>1. jobs'[i] = jobs[i] /\ events'[i] = events[i] /\ steps'[i] = steps[i]
            /\ signals'[i] = signals[i]
        BY <2>1, <3>2, <3>3, <3>5
      <4>2. Continues(jobs[i], events[i], steps[i], signals[i], jobs[i], events[i], steps[i],
                      signals[i])
        BY <3>1, StaysContinues
      <4> QED
        BY <4>1, <4>2 DEF Goes
    <3> QED
      BY <3>4, <3>5
  <2> QED
    BY <2>2
<1>6. CASE SweepJobs
  <2>1. PICK S \in SUBSET Job : DeadLetterExhausted(S) /\ Log(S, "dead_lettered")
    BY <1>6 DEF SweepJobs
  <2>2. \A i \in Job : jobs'[i] = IF i \in S THEN DeadLettered(jobs[i]) ELSE jobs[i]
    BY <2>1 DEF DeadLetterExhausted
  <2>3. NoNewRetry /\ \A i \in Watched \ S : jobs'[i] = jobs[i]
    BY <1>0, <2>2, Fields, HistoryAssumption DEF NoNewRetry
  <2> QED
    BY <1>6, <2>1, <2>3, LoggedGoes, AloneNames DEF SweepJobs
<1>7. ASSUME NEW S \in SUBSET Job, PruneJobs(S) PROVE Goal
  <2>1. PICK q \in Queue : PruneCompleted(q, S)
    BY <1>7 DEF PruneJobs
  <2>2. \A i \in Job : jobs'[i] = IF i \in S THEN Pruned ELSE jobs[i]
    BY <2>1 DEF PruneCompleted
  <2>3. ASSUME NEW i \in Watched PROVE Goes(i)
    <3>1. /\ i \in Job /\ events[i] \in [EventType -> Nat]
          /\ events'[i] = IF i \in S THEN NoEvents ELSE events[i]
          /\ steps'[i] = IF i \in S THEN {} ELSE steps[i]
          /\ signals'[i] = IF i \in S THEN 0 ELSE signals[i]
      BY <1>7, HistoryAssumption DEF PruneJobs, HistInv
    <3>2. CASE i \in S
      BY <2>2, <3>1, <3>2 DEF Goes, Vanishes, Pruned, Default
    <3>3. CASE i \notin S
      <4>1. jobs'[i] = jobs[i] /\ events'[i] = events[i] /\ steps'[i] = steps[i]
            /\ signals'[i] = signals[i]
        BY <2>2, <3>1, <3>3
      <4>2. Continues(jobs[i], events[i], steps[i], signals[i], jobs[i], events[i], steps[i],
                      signals[i])
        BY <3>1, StaysContinues
      <4> QED
        BY <4>1, <4>2 DEF Goes
    <3> QED
      BY <3>2, <3>3
  <2> QED
    BY <2>3
<1> QED
  BY <1>1, <1>2, <1>3, <1>4, <1>5, <1>6, <1>7 DEF Worked

LEMMA RestGoes == HistInv /\ (Settled \/ Quiet \/ UNCHANGED histVars) => \A i \in Watched : Goes(i)
<1> SUFFICES ASSUME HistInv, Settled \/ Quiet \/ UNCHANGED histVars
             PROVE \A i \in Watched : Goes(i)
  OBVIOUS
<1> DEFINE Goal == \A i \in Watched : Goes(i)
<1>0. jobs \in [Job -> Row] /\ \A j \in Job : jobs[j] \in Row
  BY TakenApart DEF StoreInv
<1>1. ASSUME NEW j \in Watched, NEW e \in After, AppendOwed(j, e) PROVE Goal
  <2>1. /\ events' = [events EXCEPT ![j][e] = @ + 1] \/ events' = events
        /\ UNCHANGED <<jobs, steps, signals>>
    BY <1>1 DEF AppendOwed
  <2>2. events \in [Watched -> [EventType -> Nat]]
    BY DEF HistInv
  <2>3. ASSUME NEW i \in Watched PROVE Goes(i)
    <3> DEFINE ev2 == [events[i] EXCEPT ![e] = @ + 1]
    <3>1. events'[i] = events[i] \/ events'[i] = ev2
      BY <2>1, <2>2
    <3>2. e \in EventType \ {"step_completed", "signaled"} /\ events[i] \in [EventType -> Nat]
      BY <2>2, Names DEF After
    <3>3. /\ Continues(jobs[i], events[i], steps[i], signals[i], jobs[i], events[i], steps[i],
                       signals[i])
          /\ Continues(jobs[i], events[i], steps[i], signals[i], jobs[i], ev2, steps[i], signals[i])
      BY <3>2, StaysContinues, LogsContinues
    <3>4. jobs'[i] = jobs[i] /\ steps'[i] = steps[i] /\ signals'[i] = signals[i]
      BY <2>1
    <3> HIDE DEF ev2
    <3> QED
      BY <3>1, <3>3, <3>4 DEF Goes
  <2> QED
    BY <2>3
<1>2. ASSUME NEW j \in Watched, NEW e \in After, LoseOwed(j, e) PROVE Goal
  <2>1. NoNewRetry /\ UNCHANGED <<events, steps, signals>>
    BY <1>2 DEF LoseOwed, NoNewRetry
  <2> QED
    BY <2>1, SilentGoes
<1>3. CASE Quiet
  <2>1. UNCHANGED <<events, steps, signals>>
    BY <1>3 DEF Quiet, trail
  <2>2. ASSUME NEW w \in Worker, NEW j \in Job, Heartbeat(w, j) PROVE NoNewRetry
    <3>1. SetRow(j, Renewed(jobs[j])) /\ Renewed(jobs[j]).status = jobs[j].status
      BY <1>0, <2>2 DEF Heartbeat, Renewed, Row
    <3> QED
      BY <1>0, <3>1, PutNoRetry
  <2>3. ASSUME NEW j \in Job, LeaseExpires(j) PROVE NoNewRetry
    <3> DEFINE r == [jobs[j] EXCEPT !.lease = "expired"]
    <3>1. SetRow(j, r) /\ r.status = jobs[j].status
      BY <1>0, <2>3 DEF LeaseExpires, Row
    <3> HIDE DEF r
    <3> QED
      BY <1>0, <3>1, PutNoRetry
  <2>4. ASSUME NEW j \in Job, ComesDue(j) PROVE NoNewRetry
    <3> DEFINE r == [jobs[j] EXCEPT !.runAfter = "past"]
    <3>1. SetRow(j, r) /\ r.status = jobs[j].status
      BY <1>0, <2>4 DEF ComesDue, Row
    <3> HIDE DEF r
    <3> QED
      BY <1>0, <3>1, PutNoRetry
  <2>5. NoNewRetry
    BY <1>3, <2>2, <2>3, <2>4 DEF Quiet, TimeNext
  <2> QED
    BY <2>1, <2>5, SilentGoes
<1>4. CASE UNCHANGED histVars
  <2>1. NoNewRetry /\ UNCHANGED <<events, steps, signals>>
    BY <1>4 DEF histVars, trail, NoNewRetry
  <2> QED
    BY <2>1, SilentGoes
<1> QED
  BY <1>1, <1>2, <1>3, <1>4 DEF Settled

LEMMA GoesNext == HistInv /\ [HistNext]_histVars => \A i \in Watched : Goes(i)
BY RequestedGoes, WorkedGoes, RestGoes DEF HistNext

-----------------------------------------------------------------------------
(***************************************************************************)
(* The job page.  ev, st and sg are what the tables hold of its job now.   *)
(***************************************************************************)
JobPage ==
    [kind : {"job"}, next : {"events", "steps", "signals", "shown"}, job : Watched,
     status : Status, attempt : Nat, events : [EventType -> Nat],
     steps : SUBSET StepName, signals : Nat, deleted : BOOLEAN]

\* Events that tell of the attempts and the failure a row shows.
Explains(ev, status, attempt) ==
    /\ attempt <= ev["claimed"]
    /\ status = "retrying" => ev["failed_retrying"] > 0
    /\ status = "dead_letter" => Deaths(ev) > 0

\* Each part is read no later than what it must not be ahead of, so it suffices
\* that the tables still hold what the parts to come need.
JobPageOK(p, ev, st, sg) ==
    /\ p \in JobPage
    /\ ~p.deleted =>
          /\ p.next = "events" => Explains(ev, p.status, p.attempt)
          /\ p.next # "events" => Explains(p.events, p.status, p.attempt)
          /\ p.next = "steps" => p.events["step_completed"] <= Cardinality(st)
          /\ p.next \in {"signals", "shown"} => p.events["step_completed"] <= Cardinality(p.steps)
          /\ p.next \in {"steps", "signals"} => p.events["signaled"] <= sg
          /\ p.next = "shown" => p.events["signaled"] <= p.signals

\* A row's history explains it.
LEMMA RowExplained ==
    ASSUME NEW row \in Row, Exists(row), NEW ev, NEW ow, NEW f, TrailOK(row, ev, ow, f),
           NEW st, NEW sg, Told(row, ev, st, sg)
    PROVE  Explains(ev, row.status, row.attempt)
<1>1. CountsOK(ev, ow, f) /\ row.attempt \in Nat
  BY DEF TrailOK, Row
<1>2. row.attempt <= ev["claimed"]
  BY <1>1, Names, Numbers DEF TrailOK
<1>3. row.status = "dead_letter" => Deaths(ev) > 0
  BY <1>1, Names, Numbers DEF TrailOK, Said
<1> QED
  BY <1>2, <1>3 DEF Explains, Told

\* Events are never taken back.
LEMMA StillExplains ==
    ASSUME NEW ev, NEW ev2, NEW status, NEW attempt \in Nat, Explains(ev, status, attempt),
           \A e \in EventType : ev[e] \in Nat /\ ev2[e] \in Nat /\ ev[e] <= ev2[e]
    PROVE  Explains(ev2, status, attempt)
<1>1. /\ ev["claimed"] \in Nat /\ ev2["claimed"] \in Nat /\ ev["claimed"] <= ev2["claimed"]
      /\ ev["failed_retrying"] \in Nat /\ ev2["failed_retrying"] \in Nat
      /\ ev["failed_retrying"] <= ev2["failed_retrying"]
  BY Names
<1>2. Deaths(ev) \in Nat /\ Deaths(ev2) \in Nat /\ Deaths(ev) <= Deaths(ev2)
  BY Names DEF Deaths
<1> QED
  BY <1>1, <1>2 DEF Explains

LEMMA JobPageOpens ==
    ASSUME NEW j \in Watched, NEW row \in Row, Exists(row),
           NEW ev, NEW ow, NEW f, TrailOK(row, ev, ow, f), NEW st, NEW sg, Told(row, ev, st, sg)
    PROVE  JobPageOK([kind |-> "job", next |-> "events", job |-> j,
                      status |-> row.status, attempt |-> row.attempt,
                      events |-> NoEvents, steps |-> {}, signals |-> 0, deleted |-> FALSE],
                     ev, st, sg)
<1> DEFINE p == [kind |-> "job", next |-> "events", job |-> j,
                 status |-> row.status, attempt |-> row.attempt,
                 events |-> NoEvents, steps |-> {}, signals |-> 0, deleted |-> FALSE]
<1>1. NoEvents \in [EventType -> Nat] /\ row.status \in Status /\ row.attempt \in Nat
  BY DEF NoEvents, Row
<1>2. /\ p \in JobPage /\ p.next = "events" /\ p.status = row.status /\ p.attempt = row.attempt
  BY <1>1 DEF JobPage
<1> HIDE DEF p
<1>3. JobPageOK(p, ev, st, sg)
  BY <1>2, RowExplained DEF JobPageOK
<1> QED
  BY <1>3 DEF p

\* ReadJob: the three reads in their order.
LEMMA JobPageReads ==
    ASSUME NEW row, NEW ev, NEW st, NEW sg, Told(row, ev, st, sg), st \subseteq StepName,
           NEW p, JobPageOK(p, ev, st, sg)
    PROVE  /\ p.next = "events" =>
                 JobPageOK([p EXCEPT !["events"] = ev, !.next = "steps"], ev, st, sg)
           /\ p.next = "steps" =>
                 JobPageOK([p EXCEPT !["steps"] = st, !.next = "signals"], ev, st, sg)
           /\ p.next = "signals" =>
                 JobPageOK([p EXCEPT !["signals"] = sg, !.next = "shown"], ev, st, sg)
<1>1. p \in JobPage
  BY DEF JobPageOK
<1>2. /\ ev \in [EventType -> Nat] /\ ev["step_completed"] = Cardinality(st)
      /\ ev["signaled"] = sg /\ sg \in Nat /\ ev["step_completed"] \in Nat
  BY Names DEF Told
<1>3. ASSUME p.next = "events"
      PROVE  JobPageOK([p EXCEPT !["events"] = ev, !.next = "steps"], ev, st, sg)
  <2> DEFINE q == [p EXCEPT !["events"] = ev, !.next = "steps"]
  <2>1. /\ q \in JobPage /\ q.next = "steps" /\ q.events = ev /\ q.deleted = p.deleted
        /\ q.status = p.status /\ q.attempt = p.attempt
    BY <1>1, <1>2 DEF JobPage
  <2> HIDE DEF q
  <2>2. ev["step_completed"] <= Cardinality(st) /\ ev["signaled"] <= sg
    BY <1>2
  <2>3. JobPageOK(q, ev, st, sg)
    BY <1>3, <2>1, <2>2 DEF JobPageOK
  <2> QED
    BY <2>3 DEF q
<1>4. ASSUME p.next = "steps"
      PROVE  JobPageOK([p EXCEPT !["steps"] = st, !.next = "signals"], ev, st, sg)
  <2> DEFINE q == [p EXCEPT !["steps"] = st, !.next = "signals"]
  <2>1. /\ q \in JobPage /\ q.next = "signals" /\ q.events = p.events /\ q.deleted = p.deleted
        /\ q.status = p.status /\ q.attempt = p.attempt /\ q.steps = st
    BY <1>1 DEF JobPage
  <2> HIDE DEF q
  <2>2. JobPageOK(q, ev, st, sg)
    BY <1>4, <2>1 DEF JobPageOK
  <2> QED
    BY <2>2 DEF q
<1>5. ASSUME p.next = "signals"
      PROVE  JobPageOK([p EXCEPT !["signals"] = sg, !.next = "shown"], ev, st, sg)
  <2> DEFINE q == [p EXCEPT !["signals"] = sg, !.next = "shown"]
  <2>1. /\ q \in JobPage /\ q.next = "shown" /\ q.events = p.events /\ q.deleted = p.deleted
        /\ q.status = p.status /\ q.attempt = p.attempt /\ q.steps = p.steps /\ q.signals = sg
    BY <1>1, <1>2 DEF JobPage
  <2> HIDE DEF q
  <2>2. JobPageOK(q, ev, st, sg)
    BY <1>5, <2>1 DEF JobPageOK
  <2> QED
    BY <2>2 DEF q
<1> QED
  BY <1>3, <1>4, <1>5

\* While the tables go on, the page keeps what it has, or its job is deleted.
LEMMA JobPageGoesOn ==
    ASSUME NEW row, NEW ev, NEW st, NEW sg, Told(row, ev, st, sg),
           NEW row2, NEW ev2, NEW st2, NEW sg2,
           \/ Continues(row, ev, st, sg, row2, ev2, st2, sg2)
           \/ Vanishes(row2, ev2, st2, sg2),
           NEW p, JobPageOK(p, ev, st, sg)
    PROVE  JobPageOK([p EXCEPT !.deleted = @ \/ ~Exists(row2)], ev2, st2, sg2)
<1> DEFINE deleted == p.deleted \/ ~Exists(row2)
           q == [p EXCEPT !.deleted = deleted]
<1>1. p \in JobPage /\ p.attempt \in Nat /\ p.events \in [EventType -> Nat]
  BY DEF JobPageOK, JobPage
<1>2. /\ q \in JobPage /\ q.next = p.next /\ q.events = p.events /\ q.deleted = deleted
      /\ q.status = p.status /\ q.attempt = p.attempt /\ q.steps = p.steps
      /\ q.signals = p.signals
  BY <1>1 DEF JobPage
<1> HIDE DEF q
<1>3. CASE deleted
  <2>1. JobPageOK(q, ev2, st2, sg2)
    BY <1>2, <1>3 DEF JobPageOK
  <2> QED
    BY <2>1 DEF q
<1>4. CASE ~deleted
  <2>1. Continues(row, ev, st, sg, row2, ev2, st2, sg2) /\ ~p.deleted
    BY <1>4 DEF Vanishes, Exists, NoRow
  <2>2. /\ Told(row2, ev2, st2, sg2) /\ st \subseteq st2 /\ sg <= sg2
        /\ \A e \in EventType : ev[e] \in Nat /\ ev2[e] \in Nat /\ ev[e] <= ev2[e]
    BY <2>1, ContinuesTold
  <2>3. p.next = "events" => Explains(ev2, p.status, p.attempt)
    BY <1>1, <2>1, <2>2, StillExplains DEF JobPageOK
  <2>4. /\ Cardinality(st) \in Nat /\ Cardinality(st2) \in Nat
        /\ Cardinality(st) <= Cardinality(st2)
        /\ sg \in Nat /\ sg2 \in Nat
    BY <2>2, FS_Subset, FS_CardinalityType DEF Told
  <2>5. p.events["step_completed"] \in Nat /\ p.events["signaled"] \in Nat
    BY <1>1, Names
  <2>6. /\ p.next = "steps" => p.events["step_completed"] <= Cardinality(st2)
        /\ p.next \in {"steps", "signals"} => p.events["signaled"] <= sg2
    BY <2>1, <2>2, <2>4, <2>5 DEF JobPageOK
  <2>7. JobPageOK(q, ev2, st2, sg2)
    BY <1>2, <2>1, <2>3, <2>6 DEF JobPageOK
  <2> QED
    BY <2>7 DEF q
<1> QED
  BY <1>3, <1>4

-----------------------------------------------------------------------------
(***************************************************************************)
(* The overview, and what its numbers count.                               *)
(***************************************************************************)
OverviewPage ==
    [kind : {"overview"}, next : {"jobs", "attention", "parked", "shown"},
     depths : [Queue -> [Status -> Nat]], jobs : SUBSET Job, attention : SUBSET Job,
     parked : Nat]

\* What has been read is what the tables still hold.
OverviewOK(p, depths, latest, dead, parked) ==
    /\ p \in OverviewPage
    /\ p.depths = depths
    /\ p.next # "jobs" => p.jobs = latest
    /\ p.next \in {"parked", "shown"} => p.attention = dead
    /\ p.next = "shown" => p.parked = parked

LEMMA OverviewOpens ==
    ASSUME NEW depths \in [Queue -> [Status -> Nat]], NEW latest, NEW dead, NEW parked
    PROVE  OverviewOK([kind |-> "overview", next |-> "jobs", depths |-> depths,
                       jobs |-> {}, attention |-> {}, parked |-> 0],
                      depths, latest, dead, parked)
BY DEF OverviewOK, OverviewPage

LEMMA OverviewReads ==
    ASSUME NEW depths, NEW latest \in SUBSET Job, NEW dead \in SUBSET Job, NEW parked \in Nat,
           NEW p, OverviewOK(p, depths, latest, dead, parked)
    PROVE  /\ p.next = "jobs" =>
                 OverviewOK([p EXCEPT !.next = "attention", !.jobs = latest],
                            depths, latest, dead, parked)
           /\ p.next = "attention" =>
                 OverviewOK([p EXCEPT !.next = "parked", !.attention = dead],
                            depths, latest, dead, parked)
           /\ p.next = "parked" =>
                 OverviewOK([p EXCEPT !.next = "shown", !.parked = parked],
                            depths, latest, dead, parked)
<1>1. p \in OverviewPage
  BY DEF OverviewOK
<1>2. ASSUME p.next = "jobs"
      PROVE  OverviewOK([p EXCEPT !.next = "attention", !.jobs = latest],
                        depths, latest, dead, parked)
  <2> DEFINE q == [p EXCEPT !.next = "attention", !.jobs = latest]
  <2>1. q \in OverviewPage /\ q.next = "attention" /\ q.jobs = latest /\ q.depths = p.depths
    BY <1>1 DEF OverviewPage
  <2> HIDE DEF q
  <2>2. OverviewOK(q, depths, latest, dead, parked)
    BY <1>2, <2>1 DEF OverviewOK
  <2> QED
    BY <2>2 DEF q
<1>3. ASSUME p.next = "attention"
      PROVE  OverviewOK([p EXCEPT !.next = "parked", !.attention = dead],
                        depths, latest, dead, parked)
  <2> DEFINE q == [p EXCEPT !.next = "parked", !.attention = dead]
  <2>1. /\ q \in OverviewPage /\ q.next = "parked" /\ q.jobs = p.jobs /\ q.depths = p.depths
        /\ q.attention = dead
    BY <1>1 DEF OverviewPage
  <2> HIDE DEF q
  <2>2. OverviewOK(q, depths, latest, dead, parked)
    BY <1>3, <2>1 DEF OverviewOK
  <2> QED
    BY <2>2 DEF q
<1>4. ASSUME p.next = "parked"
      PROVE  OverviewOK([p EXCEPT !.next = "shown", !.parked = parked],
                        depths, latest, dead, parked)
  <2> DEFINE q == [p EXCEPT !.next = "shown", !.parked = parked]
  <2>1. /\ q \in OverviewPage /\ q.next = "shown" /\ q.jobs = p.jobs /\ q.depths = p.depths
        /\ q.attention = p.attention /\ q.parked = parked
    BY <1>1 DEF OverviewPage
  <2> HIDE DEF q
  <2>2. OverviewOK(q, depths, latest, dead, parked)
    BY <1>4, <2>1 DEF OverviewOK
  <2> QED
    BY <2>2 DEF q
<1> QED
  BY <1>2, <1>3, <1>4

\* A list without a cursor shows the youngest n of what matches.
LEMMA ListSize ==
    ASSUME NEW status, NEW n \in 1..100
    PROVE  /\ List(status, 0, n) \subseteq Matching(status)
           /\ Cardinality(Matching(status)) \in Nat
           /\ Cardinality(List(status, 0, n)) =
                 IF Cardinality(Matching(status)) <= n THEN Cardinality(Matching(status)) ELSE n
           /\ Cardinality(Matching(status)) <= n => List(status, 0, n) = Matching(status)
<1> DEFINE M == Matching(status)
           P == Top(M, n)
<1>1. M \subseteq Job
  BY DEF Matching
<1>2. {j \in M : Older(j, 0)} = M
  BY DEF Older
<1>3. List(status, 0, n) = P
  BY <1>2, ListIsTop
<1>4. /\ P \subseteq M /\ IsFiniteSet(M) /\ Cardinality(M) \in Nat
      /\ Cardinality(P) \in 0..n
      /\ Cardinality(P) # n => P = M
  <2>1. n \in Nat \ {0}
    OBVIOUS
  <2> QED
    BY <1>1, <2>1, Births, TopSize DEF Top
<1> HIDE DEF M, P
<1>5. Cardinality(P) <= Cardinality(M) /\ (Cardinality(P) = Cardinality(M) => P = M)
  BY <1>4, FS_Subset
<1>6. /\ Cardinality(P) = IF Cardinality(M) <= n THEN Cardinality(M) ELSE n
      /\ Cardinality(M) <= n => P = M
  BY <1>4, <1>5
<1> QED
  BY <1>3, <1>4, <1>6 DEF M

\* Rows of a status, and of a queue.
In(q) == {j \in Job : jobs[j].queue = q}

LEMMA DepthCounts ==
    ASSUME NEW q \in Queue, NEW s \in Status
    PROVE  QueueDepth[q][s] = Cardinality({j \in Job : jobs[j].queue = q /\ jobs[j].status = s})
BY DEF QueueDepth

LEMMA DepthType == QueueDepth \in [Queue -> [Status -> Nat]]
<1>1. \A q \in Queue, s \in Status :
         Cardinality({j \in Job : jobs[j].queue = q /\ jobs[j].status = s}) \in Nat
  <2> TAKE q \in Queue, s \in Status
  <2>1. {j \in Job : jobs[j].queue = q /\ jobs[j].status = s} \subseteq Job
    OBVIOUS
  <2> QED
    BY <2>1, Births
<1> QED
  BY <1>1 DEF QueueDepth

\* The statuses the dashboard knows are those of rows.
LEMMA RowStatuses ==
    /\ IsFiniteSet(DashboardStatuses) /\ DashboardStatuses \subseteq Status
    /\ \A row \in Row : Exists(row) <=> row.status \in DashboardStatuses
<1>1. DashboardStatuses = {"queued", "retrying", "running", "succeeded", "dead_letter", "canceled"}
  BY DEF DashboardStatuses, Waiting, Terminal
<1>2. IsFiniteSet({"queued", "retrying", "running", "succeeded", "dead_letter", "canceled"})
  <2>1. /\ \A x : IsFiniteSet({x})
        /\ \A U, V : IsFiniteSet(U) /\ IsFiniteSet(V) => IsFiniteSet(U \cup V)
    BY FS_Singleton, FS_Union
  <2>2. /\ IsFiniteSet({"queued"} \cup {"retrying"})
        /\ IsFiniteSet({"running"} \cup {"succeeded"})
        /\ IsFiniteSet({"dead_letter"} \cup {"canceled"})
    BY <2>1
  <2>3. IsFiniteSet((({"queued"} \cup {"retrying"}) \cup ({"running"} \cup {"succeeded"}))
                       \cup ({"dead_letter"} \cup {"canceled"}))
    BY <2>1, <2>2
  <2>4. (({"queued"} \cup {"retrying"}) \cup ({"running"} \cup {"succeeded"}))
            \cup ({"dead_letter"} \cup {"canceled"})
          = {"queued", "retrying", "running", "succeeded", "dead_letter", "canceled"}
    OBVIOUS
  <2> QED
    BY <2>3, <2>4
<1>3. DashboardStatuses \subseteq Status
  BY DEF DashboardStatuses, Status
<1>4. \A row \in Row : Exists(row) <=> row.status \in DashboardStatuses
  BY DEF Row, Status, Exists, DashboardStatuses, Waiting, Terminal, NoRow
<1> QED
  BY <1>1, <1>2, <1>3, <1>4

\* A queue's total is the number of its rows.
LEMMA QueueTotalCounts ==
    ASSUME page.depths = QueueDepth, NEW q \in Queue
    PROVE  QueueTotal(q) = Cardinality({j \in In(q) : jobs[j].status \in DashboardStatuses})
<1> DEFINE J == In(q)
           g == [j \in J |-> jobs[j].status]
           f == page.depths[q]
           D == DashboardStatuses
<1>1. IsFiniteSet(J) /\ IsFiniteSet(D) /\ D \subseteq Status
  BY Births, RowStatuses DEF In
<1>2. QueueTotal(q) = Sum(f, D)
  BY DEF QueueTotal, Sum
<1>3. \A s \in D : f[s] = Cardinality(Within(J, g, {s}))
  <2> TAKE s \in D
  <2>1. Within(J, g, {s}) = {j \in Job : jobs[j].queue = q /\ jobs[j].status = s}
    BY DEF Within, In
  <2>2. f[s] = QueueDepth[q][s] /\ s \in Status
    BY <1>1
  <2> HIDE DEF f, g, J
  <2> QED
    BY <2>1, <2>2, DepthCounts
<1>4. Within(J, g, D) = {j \in J : jobs[j].status \in D}
  BY DEF Within
<1> HIDE DEF f, g, J, D
<1>5. Sum(f, D) = Cardinality(Within(J, g, D))
  BY <1>1, <1>3, CountByClass
<1> QED
  BY <1>2, <1>4, <1>5 DEF J, D

\* buildOverview's sums over the queues are sums of functions.
LEMMA TotalIsSum ==
    MapThenSumSet(QueueTotal, Queue) = Sum([q \in Queue |-> QueueTotal(q)], Queue)
<1> DEFINE f == [q \in Queue |-> QueueTotal(q)]
           Iter(g) == g = [s \in SUBSET Queue |->
                              IF s = {} THEN 0 ELSE QueueTotal(Pick(s)) + g[s \ {Pick(s)}]]
           G == CHOOSE g : Iter(g)
           H == CHOOSE g : Adds(g, f, Queue)
<1>1. MapThenSumSet(QueueTotal, Queue) = G[Queue]
  BY DEF MapThenSumSet, MapThenFoldSet, Pick
<1>2. Sum(f, Queue) = H[Queue]
  BY DEF Sum, MapThenSumSet, MapThenFoldSet, Adds, FoldStep, Pick
<1>3. ASSUME NEW g PROVE Iter(g) <=> Adds(g, f, Queue)
  <2>1. ASSUME NEW s \in SUBSET Queue, s # {} PROVE f[Pick(s)] = QueueTotal(Pick(s))
    <3>1. Pick(s) \in s
      BY <2>1 DEF Pick
    <3> QED
      BY <3>1
  <2>2. [s \in SUBSET Queue |-> IF s = {} THEN 0 ELSE QueueTotal(Pick(s)) + g[s \ {Pick(s)}]]
          = [s \in SUBSET Queue |-> FoldStep(f, g, s)]
    <3> HIDE DEF f
    <3> QED
      BY <2>1 DEF FoldStep
  <2> QED
    BY <2>2 DEF Adds
<1> HIDE DEF f, Iter
<1>4. \E g : Adds(g, f, Queue)
  BY ConsoleAssumption, AddsExists
<1>5. Adds(G, f, Queue) /\ Adds(H, f, Queue)
  <2>1. Iter(G)
    BY <1>3, <1>4
  <2> QED
    BY <1>3, <1>4, <2>1
<1> HIDE DEF G, H
<1>6. Queue \in FiniteSubsetsOf(Queue)
  BY ConsoleAssumption DEF FiniteSubsetsOf
<1>7. G[Queue] = H[Queue]
  BY <1>5, <1>6, AddsAgree
<1>8. MapThenSumSet(QueueTotal, Queue) = Sum(f, Queue)
  BY <1>1, <1>2, <1>7
<1> QED
  BY <1>8 DEF f

LEMMA TileIsSum ==
    ASSUME NEW status
    PROVE  Tile(status) = Sum([q \in Queue |-> page.depths[q][status]], Queue)
<1> DEFINE f == [q \in Queue |-> page.depths[q][status]]
           Iter(g) == g = [s \in SUBSET Queue |->
                              IF s = {} THEN 0 ELSE page.depths[Pick(s)][status] + g[s \ {Pick(s)}]]
           G == CHOOSE g : Iter(g)
           H == CHOOSE g : Adds(g, f, Queue)
<1>1. Tile(status) = G[Queue]
  BY DEF Tile, MapThenSumSet, MapThenFoldSet, Pick
<1>2. Sum(f, Queue) = H[Queue]
  BY DEF Sum, MapThenSumSet, MapThenFoldSet, Adds, FoldStep, Pick
<1>3. ASSUME NEW g PROVE Iter(g) <=> Adds(g, f, Queue)
  <2>1. ASSUME NEW s \in SUBSET Queue, s # {} PROVE f[Pick(s)] = page.depths[Pick(s)][status]
    <3>1. Pick(s) \in s
      BY <2>1 DEF Pick
    <3> QED
      BY <3>1
  <2>2. [s \in SUBSET Queue |-> IF s = {} THEN 0
                                   ELSE page.depths[Pick(s)][status] + g[s \ {Pick(s)}]]
          = [s \in SUBSET Queue |-> FoldStep(f, g, s)]
    <3> HIDE DEF f
    <3> QED
      BY <2>1 DEF FoldStep
  <2> QED
    BY <2>2 DEF Adds
<1> HIDE DEF f, Iter
<1>4. \E g : Adds(g, f, Queue)
  BY ConsoleAssumption, AddsExists
<1>5. Adds(G, f, Queue) /\ Adds(H, f, Queue)
  <2>1. Iter(G)
    BY <1>3, <1>4
  <2> QED
    BY <1>3, <1>4, <2>1
<1> HIDE DEF G, H
<1>6. Queue \in FiniteSubsetsOf(Queue)
  BY ConsoleAssumption DEF FiniteSubsetsOf
<1>7. G[Queue] = H[Queue]
  BY <1>5, <1>6, AddsAgree
<1>8. Tile(status) = Sum(f, Queue)
  BY <1>1, <1>2, <1>7
<1> QED
  BY <1>8 DEF f

LEMMA OverviewTotals ==
    ASSUME StoreInv, page.depths = QueueDepth
    PROVE  /\ MapThenSumSet(QueueTotal, Queue) = Cardinality(Matching(NoFilter))
           /\ Tile("dead_letter") = Cardinality(Matching("dead_letter"))
<1> DEFINE g == [j \in Job |-> jobs[j].queue]
           All == Matching(NoFilter)
           Dead == Matching("dead_letter")
<1>1. \A j \in Job : /\ jobs[j] \in Row /\ g[j] = jobs[j].queue /\ g[j] \in Queue
                     /\ Exists(jobs[j]) <=> jobs[j].status \in DashboardStatuses
  BY RowStatuses DEF StoreInv, Row
<1>2. All = {j \in Job : jobs[j].status \in DashboardStatuses}
  BY <1>1 DEF Matching
<1>3. Dead = {j \in Job : jobs[j].status = "dead_letter"}
  <2>1. NoFilter # "dead_letter"
    BY DEF NoFilter
  <2> QED
    BY <2>1 DEF Matching, Exists, NoRow
<1>4. /\ IsFiniteSet(All) /\ IsFiniteSet(Dead) /\ IsFiniteSet(Queue)
      /\ All \subseteq Job /\ Dead \subseteq Job
  BY <1>2, <1>3, Births, ConsoleAssumption
<1>5. Within(All, g, Queue) = All /\ Within(Dead, g, Queue) = Dead
  BY <1>1, <1>4 DEF Within
<1>6. MapThenSumSet(QueueTotal, Queue) = Cardinality(All)
  <2> DEFINE f == [q \in Queue |-> QueueTotal(q)]
  <2>1. \A q \in Queue : f[q] = Cardinality(Within(All, g, {q}))
    <3> TAKE q \in Queue
    <3>1. {j \in In(q) : jobs[j].status \in DashboardStatuses} = Within(All, g, {q})
      BY <1>1, <1>2 DEF Within, In
    <3> QED
      BY <3>1, QueueTotalCounts
  <2>2. MapThenSumSet(QueueTotal, Queue) = Sum(f, Queue)
    BY TotalIsSum
  <2> HIDE DEF f, g, All
  <2>3. Sum(f, Queue) = Cardinality(Within(All, g, Queue))
    BY <1>4, <2>1, CountByClass
  <2> QED
    BY <1>5, <2>2, <2>3
<1>7. Tile("dead_letter") = Cardinality(Dead)
  <2> DEFINE f == [q \in Queue |-> page.depths[q]["dead_letter"]]
  <2>1. \A q \in Queue : f[q] = Cardinality(Within(Dead, g, {q}))
    <3> TAKE q \in Queue
    <3>1. {j \in Job : jobs[j].queue = q /\ jobs[j].status = "dead_letter"}
             = Within(Dead, g, {q})
      BY <1>1, <1>3 DEF Within
    <3>2. "dead_letter" \in Status
      BY DEF Status, Terminal
    <3>3. f[q] = QueueDepth[q]["dead_letter"]
      OBVIOUS
    <3> QED
      BY <3>1, <3>2, <3>3, DepthCounts
  <2>2. Tile("dead_letter") = Sum(f, Queue)
    BY TileIsSum
  <2> HIDE DEF f, g, Dead
  <2>3. Sum(f, Queue) = Cardinality(Within(Dead, g, Queue))
    BY <1>4, <2>1, CountByClass
  <2> QED
    BY <1>5, <2>2, <2>3
<1> QED
  BY <1>6, <1>7

-----------------------------------------------------------------------------
(***************************************************************************)
(* What the browser waits for or shows, and that every step keeps it so.   *)
(***************************************************************************)
There == {j \in Job : Exists(jobs[j])}

Latest == List(NoFilter, 0, 12)
Attention == List("dead_letter", 0, 10)

PageOK ==
    \/ page = Blank
    \/ JobPageOK(page, events[page.job], steps[page.job], signals[page.job])
    \/ WalkOK(page, There)
    \/ OverviewOK(page, QueueDepth, Latest, Attention, ParkedCount)

ConsoleInv ==
    /\ HistInv
    /\ \A j \in Watched : Told(jobs[j], events[j], steps[j], signals[j])
    /\ PageOK

\* A page's kind says which of the four it is.
LEMMA PageKinds ==
    ASSUME PageOK
    PROVE  /\ page = Blank => page.kind = "blank"
           /\ page.kind = "job" =>
                 /\ JobPageOK(page, events[page.job], steps[page.job], signals[page.job])
                 /\ page \in JobPage
           /\ page.kind = "list" => WalkOK(page, There) /\ page \in ListPage
           /\ page.kind = "overview" =>
                 /\ OverviewOK(page, QueueDepth, Latest, Attention, ParkedCount)
                 /\ page \in OverviewPage
           /\ page.kind \notin {"job", "list", "overview"} => page = Blank
<1>1. page = Blank => page.kind = "blank"
  BY DEF Blank
<1>2. JobPageOK(page, events[page.job], steps[page.job], signals[page.job]) =>
         page.kind = "job" /\ page \in JobPage
  BY DEF JobPageOK, JobPage
<1>3. WalkOK(page, There) => page.kind = "list" /\ page \in ListPage
  BY DEF WalkOK, ListPage
<1>4. OverviewOK(page, QueueDepth, Latest, Attention, ParkedCount) =>
         page.kind = "overview" /\ page \in OverviewPage
  BY DEF OverviewOK, OverviewPage
<1> QED
  BY <1>1, <1>2, <1>3, <1>4 DEF PageOK

\* The numbers and sets an overview is read from.
LEMMA OverviewSources ==
    /\ QueueDepth \in [Queue -> [Status -> Nat]]
    /\ Latest \in SUBSET Job /\ Attention \in SUBSET Job /\ ParkedCount \in Nat
<1>1. Latest \subseteq Job /\ Attention \subseteq Job
  BY DEF Latest, Attention, List, Matching
<1>2. ParkedCount \in Nat
  <2>1. {j \in Job : jobs[j].status \in Waiting /\ jobs[j].runAfter = "ahead"} \subseteq Job
    OBVIOUS
  <2> QED
    BY <2>1, Births DEF ParkedCount
<1> QED
  BY <1>1, <1>2, DepthType

\* As long as no row changes, so do they.
LEMMA SameSources ==
    ASSUME UNCHANGED jobs
    PROVE  /\ QueueDepth' = QueueDepth /\ Latest' = Latest /\ Attention' = Attention
           /\ ParkedCount' = ParkedCount /\ There' = There
BY DEF QueueDepth, Latest, Attention, List, Matching, ParkedCount, There

\* The events are read before the steps and the signals.
LEMMA ReadingOrder ==
    /\ AfterRead("events") = "steps"
    /\ AfterRead("steps") = "signals"
    /\ AfterRead("signals") = "shown"
<1>1. (CHOOSE i \in 1..3 : JobReads[i] = "events") = 1
  BY DEF JobReads
<1>2. (CHOOSE i \in 1..3 : JobReads[i] = "steps") = 2
  BY DEF JobReads
<1>3. (CHOOSE i \in 1..3 : JobReads[i] = "signals") = 3
  BY DEF JobReads
<1> QED
  BY <1>1, <1>2, <1>3 DEF AfterRead, JobReads

\* The handlers, statement by statement.
LEMMA BrowseKeeps == ConsoleInv /\ Browse => PageOK'
<1> SUFFICES ASSUME ConsoleInv, Browse PROVE PageOK'
  OBVIOUS
<1>0. /\ UNCHANGED <<jobs, events, steps, signals>>
      /\ PageOK /\ \A j \in Watched : Told(jobs[j], events[j], steps[j], signals[j])
      /\ \A j \in Watched : steps[j] \subseteq StepName
  BY DEF Browse, histVars, trail, ConsoleInv, HistInv
<1>s. /\ QueueDepth' = QueueDepth /\ Latest' = Latest /\ Attention' = Attention
      /\ ParkedCount' = ParkedCount /\ There' = There
  BY <1>0, SameSources
<1>j. ASSUME JobPageOK(page', events[page'.job], steps[page'.job], signals[page'.job])
      PROVE  PageOK'
  BY <1>0, <1>j DEF PageOK
<1>w. ASSUME WalkOK(page', There) PROVE PageOK'
  BY <1>s, <1>w DEF PageOK
<1>o. ASSUME OverviewOK(page', QueueDepth, Latest, Attention, ParkedCount) PROVE PageOK'
  BY <1>s, <1>o DEF PageOK
<1>1. ASSUME NEW j \in Watched, OpenJob(j) PROVE PageOK'
  <2>1. /\ jobs[j] \in Row /\ Exists(jobs[j])
        /\ TrailOK(jobs[j], events[j], owed[j], forgiven[j])
        /\ Told(jobs[j], events[j], steps[j], signals[j])
    BY <1>0, <1>1, HistoryAssumption DEF OpenJob, ConsoleInv, HistInv, StoreInv
  <2> DEFINE q == [kind |-> "job", next |-> "events", job |-> j,
                   status |-> jobs[j].status, attempt |-> jobs[j].attempt,
                   events |-> NoEvents, steps |-> {}, signals |-> 0, deleted |-> FALSE]
  <2>2. page' = q /\ q.job = j
    BY <1>1 DEF OpenJob, JobReads
  <2>3. JobPageOK(q, events[j], steps[j], signals[j])
    BY <2>1, JobPageOpens
  <2> HIDE DEF q
  <2> QED
    BY <1>j, <2>2, <2>3
<1>2. CASE ReadJob
  <2>1. /\ page \in JobPage /\ page.kind = "job" /\ page.job \in Watched
        /\ JobPageOK(page, events[page.job], steps[page.job], signals[page.job])
        /\ page.next \in {"events", "steps", "signals"}
    BY <1>0, <1>2, PageKinds DEF ReadJob, JobPage
  <2> DEFINE j == page.job
  <2>2. /\ Told(jobs[j], events[j], steps[j], signals[j]) /\ steps[j] \subseteq StepName
    BY <1>0, <2>1
  <2>3. CASE page.next = "events"
    <3> DEFINE q == [page EXCEPT !["events"] = events[j], !.next = "steps"]
    <3>2. page' = q
      <4>1. page' = [page EXCEPT ![page.next] = Rows(page.job, page.next),
                                 !.next = AfterRead(page.next)]
        BY <1>2 DEF ReadJob
      <4>2. AfterRead("events") = "steps"
        BY ReadingOrder
      <4>3. Rows(page.job, page.next) = events[j]
        BY <2>3 DEF Rows
      <4> QED
        BY <2>3, <4>1, <4>2, <4>3
    <3>4. q.job = j
      BY <2>1 DEF JobPage
    <3>3. JobPageOK(q, events[j], steps[j], signals[j])
      BY <2>1, <2>2, <2>3, JobPageReads
    <3> HIDE DEF q
    <3> QED
      BY <1>j, <3>2, <3>4, <3>3
  <2>4. CASE page.next = "steps"
    <3> DEFINE q == [page EXCEPT !["steps"] = steps[j], !.next = "signals"]
    <3>2. page' = q
      <4>1. page' = [page EXCEPT ![page.next] = Rows(page.job, page.next),
                                 !.next = AfterRead(page.next)]
        BY <1>2 DEF ReadJob
      <4>2. AfterRead("steps") = "signals"
        BY ReadingOrder
      <4>3. Rows(page.job, page.next) = steps[j]
        BY <2>4 DEF Rows
      <4> QED
        BY <2>4, <4>1, <4>2, <4>3
    <3>4. q.job = j
      BY <2>1 DEF JobPage
    <3>3. JobPageOK(q, events[j], steps[j], signals[j])
      BY <2>1, <2>2, <2>4, JobPageReads
    <3> HIDE DEF q
    <3> QED
      BY <1>j, <3>2, <3>4, <3>3
  <2>5. CASE page.next = "signals"
    <3> DEFINE q == [page EXCEPT !["signals"] = signals[j], !.next = "shown"]
    <3>2. page' = q
      <4>1. page' = [page EXCEPT ![page.next] = Rows(page.job, page.next),
                                 !.next = AfterRead(page.next)]
        BY <1>2 DEF ReadJob
      <4>2. AfterRead("signals") = "shown"
        BY ReadingOrder
      <4>3. Rows(page.job, page.next) = signals[j]
        BY <2>5 DEF Rows
      <4> QED
        BY <2>5, <4>1, <4>2, <4>3
    <3>4. q.job = j
      BY <2>1 DEF JobPage
    <3>3. JobPageOK(q, events[j], steps[j], signals[j])
      BY <2>1, <2>2, <2>5, JobPageReads
    <3> HIDE DEF q
    <3> QED
      BY <1>j, <3>2, <3>4, <3>3
  <2> QED
    BY <2>1, <2>3, <2>4, <2>5
<1>3. ASSUME NEW status \in {NoFilter, "dead_letter"}, OpenList(status) PROVE PageOK'
  <2> DEFINE S == There
             q == [kind |-> "list", next |-> "rows", status |-> status, cursor |-> 0,
                   listed |-> <<>>, stayed |-> S]
  <2>1. Matching(NoFilter) = S /\ S \in SUBSET Job
    BY DEF Matching, There
  <2>2. page' = q
    BY <1>3, <2>1 DEF OpenList
  <2> HIDE DEF S
  <2>3. WalkOK(q, S)
    BY <2>1, WalkOpens
  <2> HIDE DEF q
  <2> QED
    BY <1>w, <2>2, <2>3 DEF S
<1>4. CASE ReadList
  <2>1. WalkOK(page, There) /\ page \in ListPage /\ page.kind = "list"
    BY <1>0, <1>4, PageKinds DEF ReadList, At
  <2> DEFINE M == Matching(page.status)
             rows == List(page.status, page.cursor, UiJobsLimit)
             last == CHOOSE j \in rows : \A i \in rows : BornAt[j] <= BornAt[i]
             cursor == IF rows = {} THEN page.cursor ELSE BornAt[last]
             q == [page EXCEPT !.listed = Append(@, rows), !.cursor = cursor,
                               !.next = IF Cardinality(rows) = UiJobsLimit THEN "rows" ELSE "shown"]
  <2>2. page' = q
    BY <1>4 DEF ReadList
  <2>3. /\ M \subseteq There /\ There \subseteq Job
        /\ page.status = NoFilter => M = There
    BY DEF Matching, There
  <2>4. rows = Top({j \in M : Older(j, page.cursor)}, UiJobsLimit)
    BY ConsoleAssumption, ListIsTop
  <2>5. rows \subseteq Job
    BY <2>3, <2>4 DEF Top
  <2> HIDE DEF rows
  <2>6. rows # {} => last \in rows /\ \A i \in rows : BornAt[last] <= BornAt[i]
    BY <2>5, OldestExists
  <2>7. PageRead(page, M, rows, cursor)
    BY <2>4, <2>6 DEF PageRead
  <2> HIDE DEF cursor, M
  <2>8. WalkOK(q, There)
    BY <2>1, <2>3, <2>7, WalkReads
  <2> HIDE DEF q
  <2> QED
    BY <1>w, <2>2, <2>8
<1>5. CASE OpenOverview
  <2>1. OverviewOK(page', QueueDepth, Latest, Attention, ParkedCount)
    BY <1>5, OverviewSources, OverviewOpens DEF OpenOverview
  <2> QED
    BY <1>o, <2>1
<1>6. CASE ReadOverview
  <2>1. /\ OverviewOK(page, QueueDepth, Latest, Attention, ParkedCount)
        /\ page.next \in {"jobs", "attention", "parked"}
    BY <1>0, <1>6, PageKinds DEF ReadOverview, OverviewPage
  <2>2. /\ page.next = "jobs" => page' = [page EXCEPT !.next = "attention", !.jobs = Latest]
        /\ page.next = "attention" =>
              page' = [page EXCEPT !.next = "parked", !.attention = Attention]
        /\ page.next = "parked" => page' = [page EXCEPT !.next = "shown", !.parked = ParkedCount]
    BY <1>6 DEF ReadOverview, Latest, Attention
  <2>3. /\ page.next = "jobs" =>
              OverviewOK([page EXCEPT !.next = "attention", !.jobs = Latest],
                         QueueDepth, Latest, Attention, ParkedCount)
        /\ page.next = "attention" =>
              OverviewOK([page EXCEPT !.next = "parked", !.attention = Attention],
                         QueueDepth, Latest, Attention, ParkedCount)
        /\ page.next = "parked" =>
              OverviewOK([page EXCEPT !.next = "shown", !.parked = ParkedCount],
                         QueueDepth, Latest, Attention, ParkedCount)
    BY <2>1, OverviewSources, OverviewReads
  <2>4. CASE page.next = "jobs"
    BY <1>o, <2>2, <2>3, <2>4
  <2>5. CASE page.next = "attention"
    BY <1>o, <2>2, <2>3, <2>5
  <2>6. CASE page.next = "parked"
    BY <1>o, <2>2, <2>3, <2>6
  <2> QED
    BY <2>1, <2>4, <2>5, <2>6
<1>7. CASE CloseTab
  BY <1>7 DEF CloseTab, PageOK
<1> QED
  BY <1>1, <1>2, <1>3, <1>4, <1>5, <1>6, <1>7 DEF Browse

\* A step of the system between two statements: a walk keeps the jobs that are
\* still there, a job page learns of a deletion, an overview is let go.
LEMMA TablesKeep ==
    ASSUME ConsoleInv, \A i \in Watched : Goes(i), page' = Observed
    PROVE  PageOK'
<1>0. PageOK /\ \A j \in Watched : Told(jobs[j], events[j], steps[j], signals[j])
  BY DEF ConsoleInv
<1>1. CASE page.kind = "list"
  <2>1. WalkOK(page, There) /\ page.stayed \subseteq Job
    BY <1>0, <1>1, PageKinds DEF ListPage
  <2> DEFINE T == There'
  <2>2. page' = [page EXCEPT !.stayed = {j \in @ : Exists(jobs'[j])}]
    BY <1>1 DEF Observed
  <2>3. {j \in page.stayed : Exists(jobs'[j])} = {j \in page.stayed : j \in T}
    BY <2>1 DEF There
  <2> HIDE DEF T
  <2>4. page' = [page EXCEPT !.stayed = {j \in @ : j \in T}]
    BY <2>2, <2>3
  <2>5. WalkOK([page EXCEPT !.stayed = {j \in @ : j \in T}], T)
    BY <2>1, WalkGoesOn
  <2>6. WalkOK(page', T)
    BY <2>4, <2>5
  <2> QED
    BY <2>6 DEF PageOK, T
<1>2. CASE page.kind = "job"
  <2>1. /\ JobPageOK(page, events[page.job], steps[page.job], signals[page.job])
        /\ page \in JobPage
    BY <1>0, <1>2, PageKinds
  <2> DEFINE j == page.job
             q == [page EXCEPT !.deleted = @ \/ ~Exists(jobs'[j])]
  <2>2. page' = q
    BY <1>2 DEF Observed
  <2>3. j \in Watched /\ q.job = j
    BY <2>1 DEF JobPage
  <2>4. /\ Told(jobs[j], events[j], steps[j], signals[j])
        /\ \/ Continues(jobs[j], events[j], steps[j], signals[j],
                        jobs'[j], events'[j], steps'[j], signals'[j])
           \/ Vanishes(jobs'[j], events'[j], steps'[j], signals'[j])
    BY <1>0, <2>3 DEF Goes
  <2>5. JobPageOK(q, events'[j], steps'[j], signals'[j])
    BY <2>1, <2>4, JobPageGoesOn
  <2> HIDE DEF q
  <2>6. JobPageOK(page', events'[page'.job], steps'[page'.job], signals'[page'.job])
    BY <2>2, <2>3, <2>5
  <2> QED
    BY <2>6 DEF PageOK
<1>3. CASE page.kind = "overview" /\ jobs' = jobs
  <2>1. OverviewOK(page, QueueDepth, Latest, Attention, ParkedCount)
    BY <1>0, <1>3, PageKinds
  <2>2. page' = page
    BY <1>3 DEF Observed
  <2> QED
    BY <1>3, <2>1, <2>2, SameSources DEF PageOK
<1>4. CASE page.kind = "overview" /\ jobs' # jobs
  BY <1>4 DEF Observed, PageOK, Blank
<1>5. CASE page.kind \notin {"list", "job", "overview"}
  <2>1. page = Blank
    BY <1>0, <1>5, PageKinds
  <2>2. page' = page
    BY <1>5 DEF Observed
  <2> QED
    BY <2>1, <2>2 DEF PageOK, Blank
<1> QED
  BY <1>1, <1>2, <1>3, <1>4, <1>5

\* Before anything happened there is nothing to tell, and no page.
LEMMA ConsoleInvInit == ConsoleInit => ConsoleInv
<1> SUFFICES ASSUME ConsoleInit PROVE ConsoleInv
  OBVIOUS
<1>1. HistInv
  BY HistInvInit DEF ConsoleInit
<1>2. PageOK
  BY DEF ConsoleInit, PageOK
<1>3. ASSUME NEW j \in Watched
      PROVE  Told(jobs[j], events[j], steps[j], signals[j])
  <2>1. /\ events[j] = NoEvents /\ steps[j] = {} /\ signals[j] = 0
        /\ jobs[j].status # "retrying"
    BY <1>3, HistoryAssumption DEF ConsoleInit, HistInit, Init, Default, NoRow
  <2>2. NoEvents \in [EventType -> Nat] /\ \A e \in EventType : NoEvents[e] = 0
    BY DEF NoEvents
  <2>3. "step_completed" \in EventType /\ "signaled" \in EventType
    BY DEF EventType, OwnTx
  <2> QED
    BY <2>1, <2>2, <2>3, FS_EmptySet DEF Told
<1> QED
  BY <1>1, <1>2, <1>3 DEF ConsoleInv

LEMMA ConsoleInvNext == ConsoleInv /\ [ConsoleNext]_consoleVars => ConsoleInv'
<1> SUFFICES ASSUME ConsoleInv, [ConsoleNext]_consoleVars PROVE ConsoleInv'
  OBVIOUS
<1>1. [HistNext]_histVars
  BY DEF ConsoleNext, Browse, consoleVars
<1>2. HistInv'
  BY <1>1, HistInvNext DEF ConsoleInv
<1>3. \A i \in Watched : Goes(i)
  BY <1>1, GoesNext DEF ConsoleInv
<1>4. \A j \in Watched : Told(jobs'[j], events'[j], steps'[j], signals'[j])
  BY <1>3, ContinuesTold, VanishesTold DEF ConsoleInv, Goes
<1>5. PageOK'
  <2>1. CASE Browse
    BY <2>1, BrowseKeeps
  <2>2. CASE HistNext /\ page' = Observed
    BY <1>3, <2>2, TablesKeep
  <2>3. CASE UNCHANGED consoleVars
    <3>1. UNCHANGED <<jobs, events, steps, signals, page>>
      BY <2>3 DEF consoleVars, histVars, trail
    <3> QED
      BY <3>1, SameSources DEF ConsoleInv, PageOK
  <2> QED
    BY <2>1, <2>2, <2>3 DEF ConsoleNext
<1> QED
  BY <1>2, <1>4, <1>5 DEF ConsoleInv


\* buildTimeline's lines about failures and deaths, in the counts of events.
LEMMA TimelineCounts ==
    ASSUME page.events \in [EventType -> Nat]
    PROVE  /\ Timeline("Step") = Cardinality(page.steps)
           /\ Timeline("Signal") = page.signals
           /\ Timeline("Attempt failed") =
                 page.events["failed_retrying"] + page.events["failed_dead_letter"]
           /\ Timeline("Dead-lettered") = page.events["dead_lettered"]
<1> DEFINE ev == page.events
           With(title) == {e \in EventType : TitleOf(e) = title}
<1>1. With("Attempt failed") = {"failed_retrying"} \cup {"failed_dead_letter"}
  BY DEF TitleOf, EventType, OwnTx, After
<1>2. With("Dead-lettered") = {} \cup {"dead_lettered"}
  BY DEF TitleOf, EventType, OwnTx, After
<1>3. /\ Timeline("Attempt failed") = Sum(ev, With("Attempt failed"))
      /\ Timeline("Dead-lettered") = Sum(ev, With("Dead-lettered"))
  BY DEF Timeline, Sum
<1>4. Timeline("Step") = Cardinality(page.steps) /\ Timeline("Signal") = page.signals
  BY DEF Timeline
<1>5. /\ ev["failed_retrying"] \in Nat /\ ev["failed_dead_letter"] \in Nat
      /\ ev["dead_lettered"] \in Nat
  BY DEF EventType, OwnTx
<1> HIDE DEF ev, With
<1>6. \A e : ev[e] \in Nat => Sum(ev, {} \cup {e}) = ev[e]
  BY SumAdds, SumEmpty, FS_EmptySet
<1>7. Sum(ev, {"failed_retrying"} \cup {"failed_dead_letter"})
        = ev["failed_dead_letter"] + Sum(ev, {"failed_retrying"})
  <2> DEFINE S == {"failed_retrying"}
             x == "failed_dead_letter"
  <2>1. IsFiniteSet(S) /\ x \notin S
    BY FS_Singleton
  <2>2. \A y \in S \cup {x} : ev[y] \in Int
    BY <1>5
  <2> HIDE DEF S, x
  <2>3. Sum(ev, S \cup {x}) = ev[x] + Sum(ev, S)
    BY <2>1, <2>2, SumAdds
  <2> QED
    BY <2>3 DEF S, x
<1>8. Sum(ev, {"failed_retrying"}) = ev["failed_retrying"]
  <2>1. {"failed_retrying"} = {} \cup {"failed_retrying"}
    OBVIOUS
  <2> QED
    BY <1>5, <1>6, <2>1
<1>9. Timeline("Attempt failed") = ev["failed_retrying"] + ev["failed_dead_letter"]
  <2>1. Timeline("Attempt failed") = ev["failed_dead_letter"] + Sum(ev, {"failed_retrying"})
    BY <1>1, <1>3, <1>7, Zenon
  <2>2. Timeline("Attempt failed") = ev["failed_dead_letter"] + ev["failed_retrying"]
    BY <1>8, <2>1, Zenon
  <2>3. \A m, n \in Nat : m + n = n + m
    OBVIOUS
  <2> QED
    BY <1>5, <2>2, <2>3, Zenon
<1>10. Timeline("Dead-lettered") = ev["dead_lettered"]
  BY <1>2, <1>3, <1>5, <1>6
<1> QED
  BY <1>4, <1>9, <1>10 DEF ev

\* Rows, history and the page are always as the pages need them.
THEOREM ConsoleInvariant == ConsoleSpec => []ConsoleInv
BY ConsoleInvInit, ConsoleInvNext, PTL DEF ConsoleSpec

\* uiJob reads the row and its events in one statement each before the steps and
\* the signals, so that what a page shows explains the status on it.
THEOREM JobPageExplains == ConsoleSpec => []PageNotBehind
<1>1. ConsoleInv => PageNotBehind
  <2> SUFFICES ASSUME ConsoleInv, page.kind = "job", page.next = "shown", ~page.deleted
               PROVE  PageNotBehind
    BY DEF PageNotBehind
  <2>1. /\ JobPageOK(page, events[page.job], steps[page.job], signals[page.job])
        /\ page \in JobPage
    BY PageKinds DEF ConsoleInv
  <2>2. /\ page.events \in [EventType -> Nat]
        /\ Explains(page.events, page.status, page.attempt)
        /\ page.events["step_completed"] <= Cardinality(page.steps)
        /\ page.events["signaled"] <= page.signals
    BY <2>1 DEF JobPageOK, JobPage
  <2>3. /\ page.events["failed_retrying"] \in Nat /\ page.events["failed_dead_letter"] \in Nat
        /\ page.events["dead_lettered"] \in Nat
    BY <2>2 DEF EventType, OwnTx
  <2> DEFINE failed == Timeline("Attempt failed")
             dead == Timeline("Dead-lettered")
  <2>4. /\ failed = page.events["failed_retrying"] + page.events["failed_dead_letter"]
        /\ dead = page.events["dead_lettered"]
        /\ Timeline("Step") = Cardinality(page.steps) /\ Timeline("Signal") = page.signals
    BY <2>2, TimelineCounts
  <2>5. /\ page.attempt <= page.events["claimed"]
        /\ page.status = "retrying" => page.events["failed_retrying"] > 0
        /\ page.status = "dead_letter" =>
              page.events["failed_dead_letter"] + page.events["dead_lettered"] > 0
    BY <2>2 DEF Explains, Deaths
  <2> HIDE DEF failed, dead
  <2>6. /\ page.status = "retrying" => failed > 0
        /\ page.status = "dead_letter" => failed + dead > 0
    BY <2>3, <2>4, <2>5
  <2> QED
    BY <2>2, <2>4, <2>5, <2>6 DEF PageNotBehind, failed, dead
<1> QED
  BY <1>1, ConsoleInvariant, PTL

\* The keyset cursor of Store.List: however jobs come, go and change while the
\* pages are asked for, none is listed twice and none that stayed is missed.
THEOREM WalksComplete == ConsoleSpec => []WalkComplete
<1>1. ConsoleInv => WalkComplete
  <2> SUFFICES ASSUME ConsoleInv, page.kind = "list" PROVE WalkComplete
    BY DEF WalkComplete
  <2>1. WalkOK(page, There) /\ page \in ListPage
    BY PageKinds DEF ConsoleInv
  <2> QED
    BY <2>1 DEF WalkComplete, WalkOK, Descending, Listed
<1> QED
  BY <1>1, ConsoleInvariant, PTL

\* buildOverview and the template count the same jobs: the depths by queue and
\* status, the two limited lists and the parked tile are of one state, or let go.
THEOREM OverviewsAgree == ConsoleSpec => []OverviewAgrees
<1>1. ConsoleInv => OverviewAgrees
  <2> SUFFICES ASSUME ConsoleInv, page.kind = "overview", page.next = "shown"
               PROVE  OverviewAgrees
    BY DEF OverviewAgrees
  <2>1. /\ page.depths = QueueDepth
        /\ page.jobs = Latest /\ page.attention = Attention /\ page.parked = ParkedCount
    BY PageKinds DEF ConsoleInv, OverviewOK
  <2>2. /\ MapThenSumSet(QueueTotal, Queue) = Cardinality(Matching(NoFilter))
        /\ Tile("dead_letter") = Cardinality(Matching("dead_letter"))
    BY <2>1, OverviewTotals DEF ConsoleInv, HistInv
  <2> DEFINE All == Matching(NoFilter)
             Ahead == {j \in Job : jobs[j].status \in Waiting /\ jobs[j].runAfter = "ahead"}
             Shown == {j \in page.jobs : IsParked(jobs[j])}
  <2>3. /\ Latest \subseteq All /\ Cardinality(All) \in Nat
        /\ Cardinality(Latest) = IF Cardinality(All) <= 12 THEN Cardinality(All) ELSE 12
        /\ Cardinality(All) <= 12 => Latest = All
    BY ListSize DEF Latest
  <2>4. Cardinality(Attention) = IF Cardinality(Matching("dead_letter")) <= 10
                                 THEN Cardinality(Matching("dead_letter")) ELSE 10
    BY ListSize DEF Attention
  <2>5. All \subseteq Job /\ Ahead \subseteq All
    BY DEF Matching, Exists, NoRow, Waiting
  <2>6. Shown \subseteq Ahead /\ (page.jobs = All => Shown = Ahead)
    BY <2>1, <2>3, <2>5 DEF IsParked
  <2>7. page.parked = Cardinality(Ahead)
    BY <2>1 DEF ParkedCount
  <2>8. Cardinality(Shown) <= Cardinality(Ahead)
    BY <2>5, <2>6, Births, FS_Subset
  <2> HIDE DEF All, Ahead, Shown
  <2>9. /\ Cardinality(Shown) <= page.parked
        /\ Cardinality(All) <= 12 => page.parked = Cardinality(Shown)
    BY <2>1, <2>3, <2>6, <2>7, <2>8
  <2> QED
    BY <2>1, <2>2, <2>3, <2>4, <2>9 DEF OverviewAgrees, All, Shown
<1> QED
  BY <1>1, ConsoleInvariant, PTL


\* The read-only half of the dashboard changes nothing it reads: a system that
\* is browsed behaves like one that is not, and its theorems still hold.
THEOREM ConsoleImplementsHistory == ConsoleSpec => HistSpec
<1>1. ConsoleInit => HistInit
  BY DEF ConsoleInit
<1>2. [ConsoleNext]_consoleVars => [HistNext]_histVars
  BY DEF ConsoleNext, Browse, consoleVars
<1> QED
  BY <1>1, <1>2, PTL DEF ConsoleSpec, HistSpec
=============================================================================
