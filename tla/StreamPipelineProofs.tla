------------------------- MODULE StreamPipelineProofs -------------------------
(***************************************************************************)
(* Proofs about VelocityQuery beside any producer, and about the pipeline, *)
(* where the producer is the generator: for any users, window length,      *)
(* delay, threshold and limits, and any number of starts and failures.     *)
(* What the generator promises of a backfill is at the end.                *)
(***************************************************************************)
EXTENDS StreamPipeline, FiniteSetTheorems, TLAPS

readVars == <<topic, queryVars>>

\* What is planned is recorded in the offsets log until it is committed.
PlanInv ==
    /\ lateMark <= evictMark
    /\ step \in {"planned", "written"} => planned
    /\ ~planned => upto = done

QueryInv ==
    /\ QueryTypeOK
    /\ PlanInv
    /\ OpenWindowsExact
    /\ FlagIsEarned

-----------------------------------------------------------------------------
(* Counting rows. *)

\* A range of offsets is finite, and so are the rows of it in a window.
LEMMA RowsFinite ==
    ASSUME NEW u, NEW w, NEW lo \in Nat, NEW hi \in Nat
    PROVE  IsFiniteSet(RowsIn(u, w, lo, hi)) /\ Cardinality(RowsIn(u, w, lo, hi)) \in Nat
<1>1. IsFiniteSet(lo + 1 .. hi)
    BY FS_Interval
<1>2. RowsIn(u, w, lo, hi) \in SUBSET (lo + 1 .. hi)
    BY DEF RowsIn
<1>3. QED
    BY <1>1, <1>2, FS_Subset, FS_CardinalityType

\* The rows up to hi are those up to mid and those after it.
LEMMA RowsSplit ==
    ASSUME NEW u, NEW w, NEW mid \in Nat, NEW hi \in Nat, mid <= hi
    PROVE  Real(u, w, hi) = Real(u, w, mid) + Cardinality(RowsIn(u, w, mid, hi))
<1> DEFINE before == RowsIn(u, w, 0, mid)
           after == RowsIn(u, w, mid, hi)
<1>1. IsFiniteSet(before) /\ IsFiniteSet(after)
    BY RowsFinite
<1>2. RowsIn(u, w, 0, hi) = before \cup after
    BY DEF RowsIn
<1>3. before \cap after = {}
    BY DEF RowsIn
<1>4. Cardinality(before) \in Nat /\ Cardinality(after) \in Nat
    BY RowsFinite
<1>5. Cardinality(before \cup after) =
        Cardinality(before) + Cardinality(after) - Cardinality(before \cap after)
    BY <1>1, FS_Union
<1>6. Cardinality(before \cap after) = 0
    BY <1>3, FS_EmptySet, Zenon
<1>7. Real(u, w, hi) = Cardinality(before \cup after)
    BY <1>2, Zenon DEF Real
<1>8. Real(u, w, mid) = Cardinality(before)
    BY DEF Real
<1>9. QED
    BY <1>4, <1>5, <1>6, <1>7, <1>8

\* More rows are not fewer.
LEMMA RealGrows ==
    ASSUME NEW u, NEW w, NEW mid \in Nat, NEW hi \in Nat, mid <= hi
    PROVE  Real(u, w, mid) \in Nat /\ Real(u, w, hi) \in Nat /\ Real(u, w, mid) <= Real(u, w, hi)
BY RowsSplit, RowsFinite DEF Real

-----------------------------------------------------------------------------
(* The topic only grows. *)

Grows ==
    \A u \in Users :
        /\ Len(topic[u]) <= Len(topic'[u])
        /\ \A o \in 1 .. Len(topic[u]) : topic'[u][o] = topic[u][o]

\* Accepting a transaction appends it.
LEMMA AcceptGrows ==
    ASSUME topic \in [Users -> Seq(Txn)], NEW u \in Users, NEW txn \in Txn, Accept(u, txn)
    PROVE  topic' \in [Users -> Seq(Txn)] /\ Grows
<1>1. topic' \in [Users -> Seq(Txn)]
    BY DEF Accept
<1>2. ASSUME NEW v \in Users
      PROVE  /\ Len(topic[v]) <= Len(topic'[v])
             /\ \A o \in 1 .. Len(topic[v]) : topic'[v][o] = topic[v][o]
    <2>1. CASE v = u
        <3>1. topic'[v] = Append(topic[v], txn) /\ topic[v] \in Seq(Txn)
            BY <2>1 DEF Accept
        <3>2. QED
            BY <3>1
    <2>2. CASE v # u
        <3>1. topic'[v] = topic[v] /\ topic[v] \in Seq(Txn)
            BY <2>2 DEF Accept
        <3>2. QED
            BY <3>1
    <2>3. QED
        BY <2>1, <2>2
<1>3. QED
    BY <1>1, <1>2 DEF Grows

\* Rows that are there stay in their windows.
LEMMA RowsKept ==
    ASSUME topic \in [Users -> Seq(Txn)], Grows \/ topic' = topic,
           NEW u \in Users, NEW w, NEW lo \in Nat, NEW hi \in Nat, hi <= Len(topic[u])
    PROVE  RowsIn(u, w, lo, hi)' = RowsIn(u, w, lo, hi)
<1>1. Len(topic[u]) \in Nat
    OBVIOUS
<1>2. \A o \in lo + 1 .. hi : topic'[u][o] = topic[u][o]
    BY <1>1 DEF Grows
<1>3. QED
    BY <1>2 DEF RowsIn, InWindow

-----------------------------------------------------------------------------
(* Types. *)

\* Offsets, windows and counts of a user.
LEMMA TypesOf ==
    ASSUME QueryTypeOK, NEW u \in Users
    PROVE  /\ topic[u] \in Seq(Txn) /\ Len(topic[u]) \in Nat
           /\ done[u] \in Nat /\ upto[u] \in Nat
           /\ done[u] <= upto[u] /\ upto[u] <= Len(topic[u])
           /\ \A w \in Windows : /\ counts[u][w] \in Nat
                                 /\ Count(u, w) \in Nat
           /\ velocity[u] \in Counter
<1>1. /\ topic[u] \in Seq(Txn) /\ Len(topic[u]) \in Nat
      /\ done[u] \in Nat /\ upto[u] \in Nat
      /\ done[u] <= upto[u] /\ upto[u] <= Len(topic[u])
      /\ velocity[u] \in Counter
    BY DEF QueryTypeOK
<1>2. \A w \in Windows : counts[u][w] \in Nat
    BY DEF QueryTypeOK
<1>3. \A w \in Windows : Cardinality(NewRows(u, w)) \in Nat
    BY <1>1, RowsFinite DEF NewRows
<1>4. QED
    BY <1>1, <1>2, <1>3 DEF Count

\* Windows are integers.
LEMMA WindowsAreInt == Windows \subseteq Int
BY QueryAssumption, TopicAssumption DEF Windows

\* An open window's count, the batch under way included, is exact.
LEMMA CountIsReal ==
    ASSUME QueryTypeOK, OpenWindowsExact, NEW u \in Users, NEW w \in Windows, Accepts(w)
    PROVE  Count(u, w) = Real(u, w, upto[u])
<1>1. counts[u][w] = Real(u, w, done[u])
    BY DEF OpenWindowsExact
<1>2. done[u] \in Nat /\ upto[u] \in Nat /\ done[u] <= upto[u]
    BY TypesOf
<1>3. QED
    BY <1>1, <1>2, RowsSplit DEF Count, NewRows

-----------------------------------------------------------------------------
(* The steps. *)

\* A producer's step: the query's rows are where they were.
LEMMA ProduceStep ==
    ASSUME QueryInv, UNCHANGED queryVars,
           NEW u0 \in Users, NEW txn \in Txn, Accept(u0, txn)
    PROVE  QueryInv'
<1> USE DEF QueryInv, queryVars, offsets, state, online
<1>1. topic \in [Users -> Seq(Txn)]
    BY DEF QueryTypeOK
<1>2. topic' \in [Users -> Seq(Txn)] /\ Grows
    BY <1>1, AcceptGrows
<1>3. QueryTypeOK'
    <2>1. \A u \in Users : done[u] <= upto[u] /\ upto[u] <= Len(topic'[u])
        <3>1. \A u \in Users : Len(topic'[u]) \in Nat
            BY <1>2
        <3>2. QED
            BY <1>2, <3>1, TypesOf DEF Grows
    <2>2. QED
        BY <1>2, <2>1 DEF QueryTypeOK
<1>4. \A u \in Users, w \in Windows :
        /\ Real(u, w, done[u])' = Real(u, w, done[u])
        /\ Real(u, w, upto[u])' = Real(u, w, upto[u])
    BY <1>1, <1>2, TypesOf, RowsKept DEF Real
<1>5. OpenWindowsExact'
    BY <1>4 DEF OpenWindowsExact, Accepts
<1>6. FlagIsEarned'
    <2>1. \A u \in Users : Real(u, velocity[u].start, upto[u])' = Real(u, velocity[u].start, upto[u])
        BY <1>1, <1>2, TypesOf, RowsKept DEF Real
    <2>2. QED
        BY <2>1 DEF FlagIsEarned
<1>7. QED
    BY <1>3, <1>5, <1>6 DEF PlanInv

\* Starting and ending move nothing that was counted.
LEMMA RestartStep ==
    ASSUME QueryInv, StartQuery \/ QueryEnds
    PROVE  QueryInv'
<1> USE DEF QueryInv, StartQuery, QueryEnds, offsets, state, online
<1>1. QueryTypeOK'
    BY QueryAssumption DEF QueryTypeOK
<1>2. OpenWindowsExact' /\ FlagIsEarned'
    BY DEF OpenWindowsExact, FlagIsEarned, Accepts, Real, RowsIn, InWindow
<1>3. QED
    BY <1>1, <1>2 DEF PlanInv

\* A batch ends where the topic has rows, and not before the last one.
LEMMA EndsAreOffsets ==
    ASSUME QueryTypeOK, NEW ends \in BatchEnds
    PROVE  /\ ends \in [Users -> Nat]
           /\ \A u \in Users : done[u] <= ends[u] /\ ends[u] <= Len(topic[u])
<1>1. \A v \in Users : done[v] \in Nat /\ Len(topic[v]) \in Nat /\ done[v] <= Len(topic[v])
    BY TypesOf
<1>2. CASE ends = Latest
    BY <1>1, <1>2 DEF Latest
<1>3. CASE ends # Latest
    <2>1. /\ ends \in [Users -> UNION {done[v] .. Len(topic[v]) : v \in Users}]
          /\ \A v \in Users : ends[v] \in done[v] .. Len(topic[v])
        BY <1>3 DEF BatchEnds
    <2>2. \A v \in Users : ends[v] \in Nat /\ done[v] <= ends[v] /\ ends[v] <= Len(topic[v])
        BY <1>1, <2>1
    <2>3. QED
        BY <2>1, <2>2
<1>4. QED
    BY <1>2, <1>3

\* Planning moves the end forward: what was earned stays earned.
LEMMA PlanStep ==
    ASSUME QueryInv, PlanBatch
    PROVE  QueryInv'
<1> USE DEF QueryInv, PlanBatch, state, online
<1>1. upto' \in [Users -> Nat]
    <2>1. CASE planned
        BY <2>1 DEF QueryTypeOK
    <2>2. CASE ~planned
        BY <2>2, EndsAreOffsets
    <2>3. QED
        BY <2>1, <2>2
<1>2. \A u \in Users : upto[u] <= upto'[u] /\ upto'[u] <= Len(topic[u])
    <2>1. CASE planned
        BY <2>1, TypesOf
    <2>2. CASE ~planned
        BY <2>2, EndsAreOffsets DEF PlanInv
    <2>3. QED
        BY <2>1, <2>2
<1>3. QueryTypeOK'
    <2>1. \A u \in Users : done[u] <= upto'[u]
        BY <1>1, <1>2, TypesOf
    <2>2. QED
        BY <1>1, <1>2, <2>1 DEF QueryTypeOK
<1>4. OpenWindowsExact'
    BY DEF OpenWindowsExact, Accepts, Real, RowsIn, InWindow
<1>5. FlagIsEarned'
    <2> SUFFICES ASSUME NEW u \in Users
                 PROVE  velocity[u].n <= Real(u, velocity[u].start, upto'[u])
        BY DEF FlagIsEarned, Real, RowsIn, InWindow
    <2>1. velocity[u].n \in Nat /\ upto[u] \in Nat /\ upto'[u] \in Nat
        BY <1>1, TypesOf DEF Counter
    <2>2. velocity[u].n <= Real(u, velocity[u].start, upto[u])
        BY DEF FlagIsEarned
    <2>3. QED
        BY <1>2, <2>1, <2>2, RealGrows
<1>6. QED
    BY <1>3, <1>4, <1>5 DEF PlanInv

\* What is written is the count of an open window, which is exact.
LEMMA WriteStep ==
    ASSUME QueryInv, WriteVelocity
    PROVE  QueryInv'
<1> USE DEF QueryInv, offsets, state
<1>1. PICK last \in [Touched -> UNION {Updated(u) : u \in Touched}] :
         /\ \A u \in Touched : LastWritten(u, last[u])
         /\ velocity' = [u \in Users |->
                IF u \in Touched THEN [start |-> last[u], n |-> Count(u, last[u])]
                ELSE velocity[u]]
    BY DEF WriteVelocity
<1>0. \A u \in Touched : last[u] \in Windows /\ Accepts(last[u])
    BY <1>1 DEF LastWritten, Updated
<1>2. \A u \in Users : velocity'[u] \in Counter
    <2> SUFFICES ASSUME NEW u \in Users PROVE velocity'[u] \in Counter
        OBVIOUS
    <2>1. CASE u \in Touched
        <3>1. last[u] \in Windows /\ Count(u, last[u]) \in Nat
            BY <1>0, <2>1, TypesOf
        <3>2. QED
            BY <1>1, <2>1, <3>1 DEF Counter
    <2>2. CASE u \notin Touched
        BY <1>1, <2>2, TypesOf
    <2>3. QED
        BY <2>1, <2>2
<1>3. QueryTypeOK'
    <2>1. velocity' \in [Users -> Counter]
        BY <1>1, <1>2
    <2>2. QED
        BY <2>1 DEF QueryTypeOK, WriteVelocity, Touched
<1>4. OpenWindowsExact'
    BY DEF OpenWindowsExact, Accepts, Real, RowsIn, InWindow, WriteVelocity
<1>5. FlagIsEarned'
    <2> SUFFICES ASSUME NEW u \in Users
                 PROVE  velocity'[u].n <= Real(u, velocity'[u].start, upto[u])
        BY DEF FlagIsEarned, Real, RowsIn, InWindow, WriteVelocity
    <2>1. CASE u \notin Touched
        BY <1>1, <2>1 DEF FlagIsEarned
    <2>2. CASE u \in Touched
        <3>1. last[u] \in Windows /\ Accepts(last[u])
            BY <1>0, <2>2
        <3>2. velocity'[u].start = last[u] /\ velocity'[u].n = Count(u, last[u])
            BY <1>1, <2>2
        <3>3. Count(u, last[u]) = Real(u, last[u], upto[u])
            BY <3>1, CountIsReal
        <3>4. Count(u, last[u]) \in Nat
            BY <3>1, TypesOf
        <3>5. QED
            BY <3>2, <3>3, <3>4
    <2>3. QED
        BY <2>1, <2>2
<1>6. QED
    BY <1>3, <1>4, <1>5 DEF PlanInv, WriteVelocity

\* The watermark is an integer: event times are.
LEMMA MarksAreInt ==
    ASSUME QueryTypeOK
    PROVE  Marks \subseteq Int
<1> SUFFICES ASSUME NEW r \in Backlog(upto)
             PROVE  topic[r[1]][r[2]].at - Delay \in Int
    BY DEF Marks, QueryTypeOK
<1>1. PICK u \in Users : r \in {u} \X (done[u] + 1 .. upto[u])
    BY DEF Backlog
<1>2. r[1] = u /\ r[2] \in done[u] + 1 .. upto[u]
    BY <1>1
<1>3. r[2] \in 1 .. Len(topic[u])
    BY <1>2, TypesOf
<1>4. topic[u][r[2]] \in Txn
    BY <1>3, TypesOf
<1>5. topic[u][r[2]].at \in Int
    BY <1>4, TopicAssumption DEF Txn
<1>6. QED
    BY <1>2, <1>5, QueryAssumption

\* A window that is open after a commit was open before it, so its count is the
\* exact one; the others are not looked at again.
LEMMA CommitStep ==
    ASSUME QueryInv, CommitBatch
    PROVE  QueryInv'
<1> USE DEF QueryInv, online
<1>1. evictMark' \in Int /\ evictMark \in Int /\ lateMark \in Int /\ evictMark <= evictMark'
    <2>1. evictMark' \in Marks /\ evictMark \in Marks
        BY DEF CommitBatch, Marks
    <2>2. QED
        BY <2>1, MarksAreInt DEF CommitBatch, QueryTypeOK
<1>2. counts' \in [Users -> [Windows -> Nat]]
    <2>1. \A u \in Users, w \in Windows : Count(u, w) \in Nat /\ counts[u][w] \in Nat
        BY TypesOf
    <2>2. QED
        BY <2>1 DEF CommitBatch, NewCounts
<1>3. QueryTypeOK'
    <2>1. \A u \in Users : upto[u] \in Nat /\ upto[u] <= upto[u]
        BY TypesOf
    <2>2. QED
        BY <1>1, <1>2, <2>1 DEF QueryTypeOK, CommitBatch
<1>4. OpenWindowsExact'
    <2> SUFFICES ASSUME NEW u \in Users, NEW w \in Windows, w + WindowLen > evictMark
                 PROVE  counts'[u][w] = Real(u, w, upto[u])
        BY DEF OpenWindowsExact, Accepts, Real, RowsIn, InWindow, CommitBatch
    <2>1. w + WindowLen \in Int
        BY WindowsAreInt, QueryAssumption
    <2>2. Accepts(w) /\ ~(w + WindowLen <= evictMark)
        BY <1>1, <2>1 DEF Accepts, PlanInv
    <2>3. counts'[u][w] = Count(u, w)
        BY <2>2 DEF CommitBatch, NewCounts
    <2>4. QED
        BY <2>2, <2>3, CountIsReal
<1>5. FlagIsEarned'
    BY DEF FlagIsEarned, Real, RowsIn, InWindow, CommitBatch
<1>6. PlanInv'
    BY <1>1 DEF PlanInv, CommitBatch
<1>7. QED
    BY <1>3, <1>4, <1>5, <1>6

-----------------------------------------------------------------------------
(* The theorems. *)

\* An empty topic, and nothing counted.
LEMMA QueryInvInit == TopicInit /\ QueryInit => QueryInv
<1> SUFFICES ASSUME TopicInit, QueryInit PROVE QueryInv
    OBVIOUS
<1>1. QueryTypeOK
    <2>1. topic \in [Users -> Seq(Txn)] /\ \A u \in Users : Len(topic[u]) = 0
        BY DEF TopicInit
    <2>2. NoVelocity \in Counter
        BY DEF NoVelocity, Counter
    <2>3. velocity \in [Users -> Counter] /\ counts \in [Users -> [Windows -> Nat]]
        BY <2>2 DEF QueryInit
    <2>4. /\ done \in [Users -> Nat] /\ upto \in [Users -> Nat]
          /\ \A u \in Users : done[u] <= upto[u] /\ upto[u] <= Len(topic[u])
        BY <2>1 DEF QueryInit
    <2>5. stops \in 0 .. MaxStops /\ lateMark \in Int /\ evictMark \in Int
        BY QueryAssumption DEF QueryInit
    <2>6. QED
        BY <2>1, <2>3, <2>4, <2>5 DEF QueryInit, QueryTypeOK
<1>2. \A u, w : Real(u, w, 0) = 0
    <2>1. \A u, w : RowsIn(u, w, 0, 0) = {}
        BY DEF RowsIn
    <2>2. QED
        BY <2>1, FS_EmptySet, Zenon DEF Real
<1>3. OpenWindowsExact /\ FlagIsEarned
    BY <1>2 DEF OpenWindowsExact, FlagIsEarned, QueryInit, NoVelocity
<1>4. QED
    BY <1>1, <1>3 DEF QueryInv, PlanInv, QueryInit

\* One step of the query, of the producer, or of neither.
LEMMA QueryInvNext == QueryInv /\ [QueryNext \/ Produce]_readVars => QueryInv'
<1> SUFFICES ASSUME QueryInv, [QueryNext \/ Produce]_readVars PROVE QueryInv'
    OBVIOUS
<1>1. CASE StartQuery \/ QueryEnds
    BY <1>1, RestartStep
<1>2. CASE PlanBatch
    BY <1>2, PlanStep
<1>3. CASE WriteVelocity
    BY <1>3, WriteStep
<1>4. CASE CommitBatch
    BY <1>4, CommitStep
<1>5. CASE Produce
    BY <1>5, ProduceStep DEF Produce
<1>6. CASE UNCHANGED readVars
    BY <1>6 DEF readVars, queryVars, offsets, state, online, QueryInv, QueryTypeOK, PlanInv,
                OpenWindowsExact, FlagIsEarned, Accepts, Real, RowsIn, InWindow
<1>7. QED
    BY <1>1, <1>2, <1>3, <1>4, <1>5, <1>6 DEF QueryNext

\* The invariant of the query beside any producer.
THEOREM QueryInvariant == QuerySpec => []QueryInv
<1>1. QED
    BY QueryInvInit, QueryInvNext, PTL DEF QuerySpec, readVars

\* Every variable of the query has its type.
THEOREM QueryTypeCorrect == QuerySpec => []QueryTypeOK
<1>1. QueryInv => QueryTypeOK
    BY DEF QueryInv
<1>2. QED
    BY <1>1, QueryInvariant, PTL

\* Through any crashes and replays, an open window has counted each committed row
\* once (velocity_engine.py _compute_velocity).
THEOREM OpenCountsAreExact == QuerySpec => []OpenWindowsExact
<1>1. QueryInv => OpenWindowsExact
    BY DEF QueryInv
<1>2. QED
    BY <1>1, QueryInvariant, PTL

\* The velocity in Redis is never more than the user's transactions in the stored
\* window (velocity_engine.py process_batch, write_velocity_batch).
THEOREM FlagsAreEarned == QuerySpec => []FlagIsEarned
<1>1. QueryInv => FlagIsEarned
    BY DEF QueryInv
<1>2. QED
    BY <1>1, QueryInvariant, PTL

-----------------------------------------------------------------------------
(* The generator's types. *)

TypedRow == [user : Users, txn : Txn]

\* A thread that is sending has something to send.
SendingInv ==
    /\ StreamTypeOK
    /\ topic \in [Users -> Seq(Txn)]
    /\ \A t \in Threads : pc[t] = "send" => todo[t] # <<>>

\* The bounds, as the provers use them.
LEMMA Bounds ==
    /\ MaxAt \in Nat /\ MaxTime \in Nat /\ MaxTime + Ahead <= MaxAt
    /\ Ahead \in Nat /\ Span \in Nat /\ Timeout \in Nat
    /\ BurstCount \in Nat /\ BurstCount >= 1
    /\ BatchSize \in Nat /\ BatchSize >= 1
    /\ Main \in Threads /\ Injector \in Threads /\ Main # Injector
BY StreamAssumption, TopicAssumption DEF Main, Injector, Threads

LEMMA RowType ==
    ASSUME NEW u \in Users, NEW at \in 0 .. MaxAt, NEW b \in BurstIds \cup {NoBurst}
    PROVE  Row(u, at, b) \in TypedRow
BY DEF Row, TypedRow, Txn

\* A burst is a sequence of rows, from the anchor to Ahead later.
LEMMA BurstType ==
    ASSUME NEW u \in Users, NEW b \in BurstIds,
           NEW anchor \in Nat, anchor + Ahead <= MaxAt, NEW rows \in Bursts(u, b, anchor)
    PROVE  /\ rows \in Seq(TypedRow) /\ rows # <<>> /\ Len(rows) = BurstCount
           /\ \A i \in DOMAIN rows : rows[i].txn.at \in anchor .. anchor + Ahead
<1>1. PICK delay \in [1 .. BurstCount -> 0 .. Ahead] :
         rows = [i \in 1 .. BurstCount |-> Row(u, anchor + delay[i], b)]
    BY DEF Bursts
<1>2. ASSUME NEW i \in 1 .. BurstCount
      PROVE  rows[i] \in TypedRow /\ rows[i].txn.at \in anchor .. anchor + Ahead
    <2>1. anchor + delay[i] \in 0 .. MaxAt /\ anchor + delay[i] \in anchor .. anchor + Ahead
        BY Bounds
    <2>2. rows[i] = Row(u, anchor + delay[i], b)
        BY <1>1
    <2>3. QED
        BY <2>1, <2>2, RowType DEF Row
<1>3. rows \in [1 .. BurstCount -> TypedRow] /\ DOMAIN rows = 1 .. BurstCount
    BY <1>1, <1>2
<1>4. rows \in Seq(TypedRow) /\ Len(rows) = BurstCount
    BY <1>3, Bounds
<1>5. QED
    BY <1>2, <1>3, <1>4, Bounds

\* _produce keeps the queue one of messages.
LEMMA EnqueueType ==
    ASSUME queue \in [Users -> Seq(Message)], clock \in 0 .. MaxTime,
           NEW row \in TypedRow, Enqueue(row)
    PROVE  queue' \in [Users -> Seq(Message)]
<1>1. [txn |-> row.txn, since |-> clock] \in Message /\ row.user \in Users
    BY DEF Message, TypedRow
<1>2. QED
    BY <1>1 DEF Enqueue

LEMMA NonEmpty ==
    ASSUME NEW S, NEW s \in Seq(S), Len(s) >= 1
    PROVE  s # <<>>
OBVIOUS

LEMMA StartSendingType ==
    ASSUME SendingInv, NEW t \in Threads, NEW rows \in Seq(TypedRow), rows # <<>>,
           StartSending(t, rows)
    PROVE  /\ pc' \in [Threads -> {"loop", "collect", "sleep", "send", "flush", "close",
                                   "exit", "ended", "dead"}]
           /\ todo' \in [Threads -> Rows]
           /\ since' \in [Threads -> 0 .. MaxTime]
           /\ \A s \in Threads : pc'[s] = "send" => todo'[s] # <<>>
BY DEF StartSending, SendingInv, StreamTypeOK, Rows, TypedRow

-----------------------------------------------------------------------------
(* Each step of the generator keeps its types. *)

PcValues == {"loop", "collect", "sleep", "send", "flush", "close", "exit", "ended", "dead"}

\* What a sending thread's variables are.
ThreadsOK ==
    /\ pc \in [Threads -> PcValues]
    /\ todo \in [Threads -> Rows]
    /\ since \in [Threads -> 0 .. MaxTime]
    /\ \A t \in Threads : pc[t] = "send" => todo[t] # <<>>

LEMMA LiveType ==
    ASSUME SendingInv, NEW u \in Users, Normal(u) \/ Fraud(u)
    PROVE  SendingInv'
<1>1. clock \in 0 .. MaxAt /\ Row(u, clock, NoBurst) \in TypedRow
    BY Bounds, RowType DEF SendingInv, StreamTypeOK
<1>2. CASE Normal(u)
    <2>1. queue' \in [Users -> Seq(Message)]
        BY <1>1, <1>2, EnqueueType DEF Normal, SendingInv, StreamTypeOK
    <2>2. singles' \in 0 .. MaxSingles
        BY <1>2, StreamAssumption DEF Normal, SendingInv, StreamTypeOK
    <2>3. QED
        BY <1>2, <2>1, <2>2 DEF Normal, SendingInv, StreamTypeOK, clockVars, threadVars
<1>3. CASE Fraud(u)
    <2>1. ThreadsOK'
        <3>1. <<Row(u, clock, NoBurst)>> \in Seq(TypedRow) /\ <<Row(u, clock, NoBurst)>> # <<>>
            BY <1>1
        <3>2. StartSending(Main, <<Row(u, clock, NoBurst)>>)
            BY <1>3 DEF Fraud
        <3>3. QED
            BY <3>1, <3>2, Bounds, StartSendingType DEF ThreadsOK, PcValues
    <2>2. singles' \in 0 .. MaxSingles
        BY <1>3, StreamAssumption DEF Fraud, SendingInv, StreamTypeOK
    <2>3. QED
        BY <1>3, <2>1, <2>2 DEF Fraud, SendingInv, StreamTypeOK, clockVars, ThreadsOK, PcValues
<1>4. QED
    BY <1>2, <1>3

LEMMA SpikeType ==
    ASSUME SendingInv, NEW t \in Threads, NEW u \in Users, NEW b \in BurstIds, Spike(t, u, b)
    PROVE  SendingInv'
<1>1. PICK rows \in Bursts(u, b, clock) : StartSending(t, rows)
    BY DEF Spike
<1>2. clock \in Nat /\ clock + Ahead <= MaxAt
    BY Bounds DEF SendingInv, StreamTypeOK
<1>3. rows \in Seq(TypedRow) /\ rows # <<>>
    BY <1>2, BurstType
<1>4. ThreadsOK'
    BY <1>1, <1>3, StartSendingType DEF ThreadsOK, PcValues
<1>5. QED
    BY <1>4 DEF Spike, SendingInv, StreamTypeOK, clockVars, ThreadsOK, PcValues

LEMMA SendType ==
    ASSUME SendingInv, NEW t \in Threads, Send(t)
    PROVE  SendingInv'
<1>1. todo[t] \in Seq(TypedRow) /\ todo[t] # <<>>
    BY DEF Send, SendingInv, StreamTypeOK, Rows, TypedRow
<1>2. Head(todo[t]) \in TypedRow /\ Tail(todo[t]) \in Seq(TypedRow)
    BY <1>1
<1>3. queue' \in [Users -> Seq(Message)]
    BY <1>2, EnqueueType DEF Send, SendingInv, StreamTypeOK
<1>4. ThreadsOK'
    <2>1. todo' \in [Threads -> Rows]
        BY <1>2 DEF Send, SendingInv, StreamTypeOK, Rows, TypedRow
    <2>2. CASE Tail(todo[t]) = <<>>
        <3>1. pc' = [pc EXCEPT ![t] = "flush"] /\ since' = [since EXCEPT ![t] = 0]
            BY <2>2 DEF Send
        <3>2. pc' \in [Threads -> PcValues] /\ since' \in [Threads -> 0 .. MaxTime]
            BY <3>1, Bounds DEF SendingInv, StreamTypeOK, PcValues
        <3>3. \A s \in Threads : pc'[s] = "send" => todo'[s] # <<>>
            BY <3>1 DEF Send, SendingInv, StreamTypeOK
        <3>4. QED
            BY <2>1, <3>2, <3>3 DEF ThreadsOK
    <2>3. CASE Tail(todo[t]) # <<>>
        BY <2>1, <2>3 DEF Send, SendingInv, StreamTypeOK, ThreadsOK, PcValues
    <2>4. QED
        BY <2>2, <2>3
<1>5. QED
    BY <1>3, <1>4 DEF Send, SendingInv, StreamTypeOK, clockVars, bookVars, ThreadsOK, PcValues

\* A batch is cut off when it is full: neither part is anything but rows.
LEMMA CollectType ==
    ASSUME SendingInv, NEW rows \in Seq(TypedRow), Collect(rows)
    PROVE  ThreadsOK' /\ batch' \in Rows /\ collected' \in Nat
<1> DEFINE all == batch \o rows
<1>1. all \in Seq(TypedRow)
    BY DEF SendingInv, StreamTypeOK, Rows, TypedRow
<1>2. collected' \in Nat
    BY DEF Collect, SendingInv, StreamTypeOK
<1>3. CASE Len(all) >= BatchSize
    <2>1. SubSeq(all, 1, BatchSize) \in Seq(TypedRow) /\ Len(SubSeq(all, 1, BatchSize)) = BatchSize
        BY <1>1, <1>3, Bounds
    <2>2. SubSeq(all, 1, BatchSize) # <<>>
        BY <2>1, Bounds, NonEmpty
    <2>3. SubSeq(all, BatchSize + 1, Len(all)) \in Seq(TypedRow)
        BY <1>1, <1>3, Bounds
    <2>4. StartSending(Main, SubSeq(all, 1, BatchSize))
          /\ batch' = SubSeq(all, BatchSize + 1, Len(all))
        BY <1>3 DEF Collect
    <2>5. QED
        BY <1>2, <2>1, <2>2, <2>3, <2>4, Bounds, StartSendingType
        DEF ThreadsOK, PcValues, Rows, TypedRow
<1>4. CASE ~(Len(all) >= BatchSize)
    <2>1. batch' = all /\ UNCHANGED threadVars
        BY <1>4 DEF Collect
    <2>2. QED
        BY <1>1, <1>2, <2>1
        DEF threadVars, SendingInv, StreamTypeOK, ThreadsOK, PcValues, Rows, TypedRow
<1>5. QED
    BY <1>3, <1>4

LEMMA BackfillType ==
    ASSUME SendingInv, \/ \E u \in Users : CollectSingle(u)
                       \/ \E u \in Users, b \in BurstIds : CollectBurst(u, b)
                       \/ CollectEnds
    PROVE  SendingInv'
<1>1. ASSUME NEW u \in Users, CollectSingle(u)
      PROVE  SendingInv'
    <2>1. PICK at \in 0 .. MaxAt : Collect(<<Row(u, at, NoBurst)>>)
        BY <1>1 DEF CollectSingle
    <2>2. <<Row(u, at, NoBurst)>> \in Seq(TypedRow)
        BY RowType
    <2>3. ThreadsOK' /\ batch' \in Rows /\ collected' \in Nat
        BY <2>1, <2>2, CollectType
    <2>4. QED
        BY <1>1, <2>3 DEF CollectSingle, SendingInv, StreamTypeOK, clockVars, ThreadsOK, PcValues
<1>2. ASSUME NEW u \in Users, NEW b \in BurstIds, CollectBurst(u, b)
      PROVE  SendingInv'
    <2>1. PICK anchor \in 0 .. MaxAt - Ahead : \E rows \in Bursts(u, b, anchor) : Collect(rows)
        BY <1>2 DEF CollectBurst
    <2>2. PICK rows \in Bursts(u, b, anchor) : Collect(rows)
        BY <2>1
    <2>3. rows \in Seq(TypedRow)
        BY <2>1, Bounds, BurstType
    <2>4. ThreadsOK' /\ batch' \in Rows /\ collected' \in Nat
        BY <2>2, <2>3, CollectType
    <2>5. QED
        BY <1>2, <2>4 DEF CollectBurst, SendingInv, StreamTypeOK, clockVars, ThreadsOK, PcValues
<1>3. CASE CollectEnds
    <2>1. CASE batch = <<>>
        BY <1>3, <2>1 DEF CollectEnds, SendingInv, StreamTypeOK, clockVars
    <2>2. CASE batch # <<>>
        <3>1. StartSending(Main, batch) /\ batch' = <<>> /\ batch \in Seq(TypedRow)
            BY <1>3, <2>2 DEF CollectEnds, SendingInv, StreamTypeOK, Rows, TypedRow
        <3>2. ThreadsOK'
            BY <2>2, <3>1, Bounds, StartSendingType DEF ThreadsOK, PcValues
        <3>3. batch' \in Rows
            BY <3>1 DEF Rows
        <3>4. QED
            BY <1>3, <3>2, <3>3 DEF CollectEnds, SendingInv, StreamTypeOK, clockVars,
                                    ThreadsOK, PcValues
    <2>3. QED
        BY <2>1, <2>2
<1>4. QED
    BY <1>1, <1>2, <1>3

LEMMA ShutdownType ==
    ASSUME SendingInv, Interrupt \/ Close \/ Exit \/ \E t \in Threads : FlushReturns(t)
    PROVE  SendingInv'
<1>1. CASE Interrupt
    <2>1. todo' \in [Threads -> Rows]
        <3>1. <<>> \in Rows
            BY DEF Rows
        <3>2. QED
            BY <1>1, <3>1 DEF Interrupt, SendingInv, StreamTypeOK
    <2>2. pc' \in [Threads -> PcValues] /\ since' \in [Threads -> 0 .. MaxTime]
        BY <1>1, Bounds DEF Interrupt, SendingInv, StreamTypeOK, PcValues
    <2>3. \A s \in Threads : pc'[s] = "send" => todo'[s] # <<>>
        BY <1>1, Bounds DEF Interrupt, SendingInv, StreamTypeOK
    <2>4. QED
        BY <1>1, <2>1, <2>2, <2>3
        DEF Interrupt, SendingInv, StreamTypeOK, clockVars, bookVars, PcValues
<1>2. CASE Close
    BY <1>2 DEF Close, SendingInv, StreamTypeOK, clockVars, bookVars
<1>3. CASE Exit
    <2>1. todo' \in [Threads -> Rows] /\ queue' \in [Users -> Seq(Message)]
        BY <1>3 DEF Exit, Rows
    <2>2. since' \in [Threads -> 0 .. MaxTime]
        BY <1>3, Bounds DEF Exit
    <2>3. QED
        BY <1>3, <2>1, <2>2 DEF Exit, SendingInv, StreamTypeOK, clockVars, bookVars
<1>4. ASSUME NEW t \in Threads, FlushReturns(t) PROVE SendingInv'
    BY <1>4 DEF FlushReturns, Resting, SendingInv, StreamTypeOK, clockVars, bookVars
<1>5. QED
    BY <1>1, <1>2, <1>3, <1>4

\* librdkafka and the clock.
LEMMA QueueType ==
    ASSUME SendingInv, NEW u \in Users, queue[u] # <<>>
    PROVE  /\ Head(queue[u]) \in Message /\ Tail(queue[u]) \in Seq(Message)
           /\ Head(queue[u]).txn \in Txn
           /\ [queue EXCEPT ![u] = Tail(@)] \in [Users -> Seq(Message)]
<1>1. queue[u] \in Seq(Message)
    BY DEF SendingInv, StreamTypeOK
<1>2. Head(queue[u]) \in Message /\ Tail(queue[u]) \in Seq(Message)
    BY <1>1
<1>3. QED
    BY <1>2 DEF Message, SendingInv, StreamTypeOK

LEMMA DeliveryType ==
    ASSUME SendingInv, Tick \/ \E u \in Users : Deliver(u) \/ Expire(u)
    PROVE  SendingInv'
<1>1. CASE Tick
    BY <1>1, Bounds DEF Tick, SendingInv, StreamTypeOK, threadVars, bookVars
<1>2. ASSUME NEW u \in Users, Deliver(u) PROVE SendingInv'
    <2>1. topic' \in [Users -> Seq(Txn)]
        BY <1>2, QueueType, AcceptGrows DEF Deliver, SendingInv
    <2>2. queue' \in [Users -> Seq(Message)]
        BY <1>2, QueueType DEF Deliver
    <2>3. QED
        BY <1>2, <2>1, <2>2 DEF Deliver, SendingInv, StreamTypeOK, clockVars, threadVars, bookVars
<1>3. ASSUME NEW u \in Users, Expire(u) PROVE SendingInv'
    <2>1. queue' \in [Users -> Seq(Message)]
        BY <1>3, QueueType DEF Expire
    <2>2. QED
        BY <1>3, <2>1 DEF Expire, SendingInv, StreamTypeOK, clockVars, threadVars, bookVars
<1>4. QED
    BY <1>1, <1>2, <1>3

LEMMA SendingInvInit == TopicInit /\ StreamInit => SendingInv
<1> SUFFICES ASSUME TopicInit, StreamInit PROVE SendingInv
    OBVIOUS
<1>1. topic \in [Users -> Seq(Txn)] /\ queue \in [Users -> Seq(Message)]
    BY DEF TopicInit, StreamInit
<1>2. todo \in [Threads -> Rows] /\ batch \in Rows
    BY DEF StreamInit, Rows
<1>3. since \in [Threads -> 0 .. MaxTime] /\ clock \in 0 .. MaxTime
    BY Bounds DEF StreamInit
<1>4. QED
    BY <1>1, <1>2, <1>3, StreamAssumption DEF StreamInit, SendingInv, StreamTypeOK

LEMMA SendingInvNext == SendingInv /\ StreamNext => SendingInv'
BY LiveType, SpikeType, SendType, BackfillType, ShutdownType, DeliveryType DEF StreamNext

-----------------------------------------------------------------------------
(* The generator is a producer. *)

\* Of its steps only a delivery writes the topic.
LEMMA TopicWriters ==
    ASSUME SendingInv, StreamNext
    PROVE  \/ topic' = topic
           \/ \E u \in Users, txn \in Txn : Accept(u, txn)
<1>1. ASSUME NEW u \in Users, Deliver(u)
      PROVE  \E v \in Users, txn \in Txn : Accept(v, txn)
    BY <1>1, QueueType DEF Deliver
<1>2. ASSUME NEW u \in Users,
             \/ Normal(u) \/ Fraud(u) \/ CollectSingle(u) \/ Expire(u)
             \/ \E b \in BurstIds : CollectBurst(u, b) \/ \E t \in Threads : Spike(t, u, b)
      PROVE  topic' = topic
    BY <1>2 DEF Normal, Fraud, CollectSingle, Expire, CollectBurst, Spike
<1>3. ASSUME \/ CollectEnds \/ Interrupt \/ Close \/ Exit \/ Tick
             \/ \E t \in Threads : Send(t) \/ FlushReturns(t)
      PROVE  topic' = topic
    BY <1>3 DEF CollectEnds, Interrupt, Close, Exit, Tick, Send, FlushReturns
<1>4. QED
    BY <1>1, <1>2, <1>3 DEF StreamNext

LEMMA QueryStepKeepsSending ==
    ASSUME SendingInv, topic' = topic, UNCHANGED streamVars
    PROVE  SendingInv'
BY DEF SendingInv, StreamTypeOK, streamVars, clockVars, threadVars, bookVars

LEMMA QueryLeavesTopic == QueryNext => topic' = topic
BY DEF QueryNext, StartQuery, PlanBatch, WriteVelocity, CommitBatch, QueryEnds

LEMMA SendingInvariant == Spec => []SendingInv
<1>1. Init => SendingInv
    BY SendingInvInit DEF Init
<1>2. SendingInv /\ [Next]_vars => SendingInv'
    BY SendingInvNext, QueryStepKeepsSending, QueryLeavesTopic DEF Next, vars
<1>3. QED
    BY <1>1, <1>2, PTL DEF Spec

\* Beside this generator the query does what it does beside any producer.
THEOREM PipelineIsAQuery == Spec => QuerySpec
<1>1. Init => TopicInit /\ QueryInit
    BY DEF Init
<1>2. SendingInv /\ [Next]_vars => [QueryNext \/ Produce]_readVars
    BY TopicWriters DEF Next, vars, readVars, Produce
<1>3. QED
    BY <1>1, <1>2, SendingInvariant, PTL DEF Spec, QuerySpec, readVars

\* Every variable of the generator and of the query has its type.
THEOREM PipelineTypeCorrect == Spec => []TypeOK
<1>1. SendingInv => StreamTypeOK
    BY DEF SendingInv
<1>2. QED
    BY <1>1, SendingInvariant, PipelineIsAQuery, QueryTypeCorrect, PTL DEF TypeOK

-----------------------------------------------------------------------------
(* No live row is late: a row is delivered at most Span and Timeout after  *)
(* it was generated, and no row is dated more than Ahead after that.       *)

DelaySuffices == Delay >= Ahead + Span + Timeout

\* The rows a thread is sending, and the time it takes.
SendTimely(t) ==
    pc[t] = "send" =>
        /\ since[t] <= clock /\ clock <= since[t] + Span
        /\ \A i \in DOMAIN todo[t] : /\ since[t] <= todo[t][i].txn.at
                                     /\ todo[t][i].txn.at <= since[t] + Ahead

\* The messages that wait for their delivery.
MessageTimely(m, now) ==
    /\ m.since <= now /\ now <= m.since + Timeout
    /\ m.since - Span <= m.txn.at /\ m.txn.at <= m.since + Ahead

TimelyInv ==
    /\ pc[Main] # "collect"
    /\ \A t \in Threads : SendTimely(t)
    /\ \A u \in Users : \A i \in DOMAIN queue[u] : MessageTimely(queue[u][i], clock)

\* The times of the offsets a reader has not got to, and the watermark.
MarkInv ==
    /\ \A u \in Users : \A o \in DOMAIN topic[u] : topic[u][o].at <= clock + Ahead
    /\ evictMark <= 0 \/ evictMark <= clock + Ahead - Delay
    /\ ~split => \A u \in Users : \A o \in DOMAIN topic[u] :
                    o > done[u] => evictMark <= topic[u][o].at
    /\ ~split /\ planned =>
          \A u \in Users : \A o \in DOMAIN topic[u] : o > upto[u] =>
              \A r \in Backlog(upto) : topic[r[1]][r[2]].at - Delay <= topic[u][o].at

LiveInv == mode = "live" => TimelyInv /\ MarkInv

\* Sequences, as they are used here.
LEMMA HeadAndTail ==
    ASSUME NEW S, NEW s \in Seq(S), s # <<>>
    PROVE  /\ 1 \in DOMAIN s /\ Head(s) = s[1]
           /\ DOMAIN Tail(s) = 1 .. Len(s) - 1
           /\ \A i \in DOMAIN Tail(s) : i + 1 \in DOMAIN s /\ Tail(s)[i] = s[i + 1]
OBVIOUS

LEMMA AppendElements ==
    ASSUME NEW S, NEW s \in Seq(S), NEW e \in S
    PROVE  /\ DOMAIN Append(s, e) = DOMAIN s \cup {Len(s) + 1}
           /\ \A i \in DOMAIN s : Append(s, e)[i] = s[i] /\ i # Len(s) + 1
           /\ Append(s, e)[Len(s) + 1] = e
OBVIOUS

\* A message is timely when it is enqueued, if its row was generated in time.
LEMMA EnqueueTimely ==
    ASSUME SendingInv, TimelyInv, clock' = clock, NEW row \in TypedRow, Enqueue(row),
           clock - Span <= row.txn.at, row.txn.at <= clock + Ahead
    PROVE  \A u \in Users : \A i \in DOMAIN queue'[u] : MessageTimely(queue'[u][i], clock')
<1> DEFINE m == [txn |-> row.txn, since |-> clock]
<1>1. m \in Message /\ row.user \in Users
    BY DEF Message, TypedRow, SendingInv, StreamTypeOK
<1>2. MessageTimely(m, clock')
    BY Bounds DEF MessageTimely, SendingInv, StreamTypeOK
<1>3. ASSUME NEW u \in Users, NEW i \in DOMAIN queue'[u]
      PROVE  MessageTimely(queue'[u][i], clock')
    <2>1. queue[u] \in Seq(Message)
        BY DEF SendingInv, StreamTypeOK
    <2>2. CASE u = row.user
        <3>1. queue'[u] = Append(queue[u], m)
            BY <2>2 DEF Enqueue, SendingInv, StreamTypeOK
        <3>2. CASE i = Len(queue[u]) + 1
            BY <1>1, <1>2, <2>1, <3>1, <3>2, AppendElements
        <3>3. CASE i \in DOMAIN queue[u]
            <4>1. queue'[u][i] = queue[u][i] /\ MessageTimely(queue[u][i], clock)
                BY <1>1, <2>1, <3>1, <3>3, AppendElements DEF TimelyInv
            <4>2. QED
                BY <4>1 DEF MessageTimely
        <3>4. QED
            BY <1>1, <2>1, <3>1, <3>2, <3>3, AppendElements
    <2>3. CASE u # row.user
        <3>1. queue'[u] = queue[u]
            BY <2>3 DEF Enqueue, SendingInv, StreamTypeOK
        <3>2. QED
            BY <3>1 DEF TimelyInv, MessageTimely
    <2>4. QED
        BY <2>2, <2>3
<1>4. QED
    BY <1>3

\* A thread starts sending rows it has just generated.
LEMMA StartTimely ==
    ASSUME SendingInv, TimelyInv, clock' = clock, queue' = queue,
           NEW t \in Threads, NEW rows, StartSending(t, rows),
           \A i \in DOMAIN rows : clock <= rows[i].txn.at /\ rows[i].txn.at <= clock + Ahead
    PROVE  TimelyInv'
<1>1. \A u \in Users : \A i \in DOMAIN queue'[u] : MessageTimely(queue'[u][i], clock')
    BY DEF TimelyInv, MessageTimely
<1>2. ASSUME NEW s \in Threads PROVE SendTimely(s)'
    <2>1. CASE s = t
        <3>1. todo'[s] = rows /\ since'[s] = clock
            BY <2>1 DEF StartSending, SendingInv, StreamTypeOK
        <3>2. QED
            BY <3>1, Bounds DEF SendTimely, SendingInv, StreamTypeOK
    <2>2. CASE s # t
        <3>1. todo'[s] = todo[s] /\ since'[s] = since[s] /\ pc'[s] = pc[s]
            BY <2>2 DEF StartSending, SendingInv, StreamTypeOK
        <3>2. SendTimely(s)
            BY DEF TimelyInv
        <3>3. QED
            BY <3>1, <3>2 DEF SendTimely
    <2>3. QED
        BY <2>1, <2>2
<1>3. pc'[Main] # "collect"
    BY Bounds DEF StartSending, TimelyInv, SendingInv, StreamTypeOK
<1>4. QED
    BY <1>1, <1>2, <1>3 DEF TimelyInv

LEMMA LiveTimely ==
    ASSUME SendingInv, TimelyInv, NEW u \in Users,
           \/ Normal(u) \/ Fraud(u)
           \/ \E t \in Threads, b \in BurstIds : Spike(t, u, b)
    PROVE  TimelyInv'
<1> DEFINE row == Row(u, clock, NoBurst)
<1>1. clock \in Nat /\ clock + Ahead <= MaxAt /\ clock \in 0 .. MaxAt
    BY Bounds DEF SendingInv, StreamTypeOK
<1>2. row \in TypedRow /\ row.txn.at = clock
    BY <1>1, RowType DEF Row
<1>3. CASE Normal(u)
    <2>1. \A v \in Users : \A i \in DOMAIN queue'[v] : MessageTimely(queue'[v][i], clock')
        BY <1>1, <1>2, <1>3, Bounds, EnqueueTimely DEF Normal, clockVars
    <2>2. \A t \in Threads : SendTimely(t)'
        BY <1>3 DEF Normal, clockVars, threadVars, TimelyInv, SendTimely
    <2>3. QED
        BY <1>3, <2>1, <2>2 DEF Normal, threadVars, TimelyInv
<1>4. CASE Fraud(u)
    <2>1. StartSending(Main, <<row>>) /\ clock' = clock /\ queue' = queue
        BY <1>4 DEF Fraud, clockVars
    <2>2. \A i \in DOMAIN <<row>> : clock <= <<row>>[i].txn.at /\ <<row>>[i].txn.at <= clock + Ahead
        BY <1>1, <1>2, Bounds
    <2>3. QED
        BY <2>1, <2>2, Bounds, StartTimely
<1>5. ASSUME NEW t \in Threads, NEW b \in BurstIds, Spike(t, u, b)
      PROVE  TimelyInv'
    <2>1. PICK rows \in Bursts(u, b, clock) : StartSending(t, rows)
        BY <1>5 DEF Spike
    <2>2. \A i \in DOMAIN rows : clock <= rows[i].txn.at /\ rows[i].txn.at <= clock + Ahead
        BY <1>1, BurstType
    <2>3. clock' = clock /\ queue' = queue
        BY <1>5 DEF Spike, clockVars
    <2>4. QED
        BY <2>1, <2>2, <2>3, StartTimely
<1>6. QED
    BY <1>3, <1>4, <1>5

\* What was sent in time is timely in the queue, and the rest stays in time.
LEMMA SendStepTimely ==
    ASSUME SendingInv, TimelyInv, NEW t \in Threads, Send(t)
    PROVE  TimelyInv'
<1>1. todo[t] \in Seq(TypedRow) /\ todo[t] # <<>> /\ pc[t] = "send" /\ clock' = clock
    BY DEF Send, clockVars, SendingInv, StreamTypeOK, Rows, TypedRow
<1>2. SendTimely(t)
    BY DEF TimelyInv
<1>3. /\ 1 \in DOMAIN todo[t] /\ Head(todo[t]) = todo[t][1]
      /\ \A i \in DOMAIN Tail(todo[t]) :
            i + 1 \in DOMAIN todo[t] /\ Tail(todo[t])[i] = todo[t][i + 1]
    BY <1>1, HeadAndTail
<1>4. /\ since[t] \in Int /\ clock \in Int
      /\ Head(todo[t]) \in TypedRow /\ Head(todo[t]).txn.at \in Int
    <2>1. since[t] \in Int /\ clock \in Int
        BY Bounds DEF SendingInv, StreamTypeOK
    <2>2. Head(todo[t]) \in TypedRow
        BY <1>1
    <2>3. Head(todo[t]).txn \in Txn
        BY <2>2 DEF TypedRow
    <2>4. QED
        BY <2>1, <2>2, <2>3, Bounds DEF Txn
<1>5. clock - Span <= Head(todo[t]).txn.at /\ Head(todo[t]).txn.at <= clock + Ahead
    <2>1. /\ since[t] <= clock /\ clock <= since[t] + Span
          /\ since[t] <= Head(todo[t]).txn.at /\ Head(todo[t]).txn.at <= since[t] + Ahead
        BY <1>1, <1>2, <1>3 DEF SendTimely
    <2>2. QED
        BY <1>4, <2>1, Bounds
<1>6. \A u \in Users : \A i \in DOMAIN queue'[u] : MessageTimely(queue'[u][i], clock')
    BY <1>1, <1>4, <1>5, EnqueueTimely DEF Send
<1>7. ASSUME NEW s \in Threads PROVE SendTimely(s)'
    <2>1. CASE s = t
        <3>1. todo'[s] = Tail(todo[t])
            BY <2>1 DEF Send, SendingInv, StreamTypeOK
        <3>2. pc'[s] = "send" => since'[s] = since[t]
            BY <2>1 DEF Send, SendingInv, StreamTypeOK
        <3>3. QED
            BY <1>1, <1>2, <1>3, <2>1, <3>1, <3>2 DEF SendTimely
    <2>2. CASE s # t
        <3>1. /\ todo'[s] = todo[s]
              /\ pc'[s] = "send" => pc[s] = "send" /\ since'[s] = since[s]
            BY <2>2 DEF Send, SendingInv, StreamTypeOK
        <3>2. SendTimely(s)
            BY DEF TimelyInv
        <3>3. QED
            BY <1>1, <3>1, <3>2 DEF SendTimely
    <2>3. QED
        BY <2>1, <2>2
<1>8. pc'[Main] # "collect"
    BY Bounds DEF Send, TimelyInv, SendingInv, StreamTypeOK
<1>9. QED
    BY <1>6, <1>7, <1>8 DEF TimelyInv

\* A thread that stops sending has nothing left to be late with.
LEMMA StopTimely ==
    ASSUME SendingInv, TimelyInv, mode = "live",
           Interrupt \/ Close \/ Exit \/ \E t \in Threads : FlushReturns(t)
    PROVE  TimelyInv'
<1>1. CASE Interrupt
    <2>1. \A t \in Threads : SendTimely(t)'
        BY <1>1 DEF Interrupt, clockVars, TimelyInv, SendTimely, SendingInv, StreamTypeOK
    <2>2. QED
        BY <1>1, <2>1, Bounds DEF Interrupt, clockVars, TimelyInv, MessageTimely, SendingInv, StreamTypeOK
<1>2. CASE Close
    <2>1. \A t \in Threads : SendTimely(t)'
        BY <1>2 DEF Close, clockVars, TimelyInv, SendTimely, SendingInv, StreamTypeOK
    <2>2. QED
        BY <1>2, <2>1, Bounds DEF Close, clockVars, TimelyInv, MessageTimely, SendingInv, StreamTypeOK
<1>3. CASE Exit
    <2>1. \A t \in Threads : SendTimely(t)'
        BY <1>3 DEF Exit, SendTimely
    <2>2. \A u \in Users : DOMAIN queue'[u] = {}
        BY <1>3 DEF Exit
    <2>3. pc'[Main] # "collect"
        BY <1>3, Bounds DEF Exit
    <2>4. QED
        BY <2>1, <2>2, <2>3 DEF TimelyInv
<1>4. ASSUME NEW t \in Threads, FlushReturns(t) PROVE TimelyInv'
    <2>1. \A s \in Threads : SendTimely(s)'
        BY <1>4 DEF FlushReturns, Resting, clockVars, TimelyInv, SendTimely, SendingInv, StreamTypeOK
    <2>2. pc'[Main] # "collect"
        BY <1>4, Bounds DEF FlushReturns, Resting, TimelyInv, SendingInv, StreamTypeOK
    <2>3. QED
        BY <1>4, <2>1, <2>2 DEF FlushReturns, clockVars, TimelyInv, MessageTimely
<1>5. QED
    BY <1>1, <1>2, <1>3, <1>4

\* Messages leave the queue at its head; the clock waits for those that are due.
LEMMA QueueTimely ==
    ASSUME SendingInv, TimelyInv, Tick \/ \E u \in Users : Deliver(u) \/ Expire(u)
    PROVE  TimelyInv'
<1>1. CASE Tick
    <2>1. clock \in Nat /\ clock' = clock + 1 /\ UNCHANGED <<threadVars, queue>>
        BY <1>1, Bounds DEF Tick, SendingInv, StreamTypeOK
    <2>2. ASSUME NEW t \in Threads PROVE SendTimely(t)'
        <3>1. since[t] \in Int /\ (pc[t] = "send" => clock < since[t] + Span)
            BY <1>1, Bounds DEF Tick, SendingInv, StreamTypeOK
        <3>2. SendTimely(t)
            BY DEF TimelyInv
        <3>3. pc'[t] = pc[t] /\ todo'[t] = todo[t] /\ since'[t] = since[t]
            BY <2>1 DEF threadVars
        <3>4. QED
            BY <2>1, <3>1, <3>2, <3>3, Bounds DEF SendTimely
    <2>3. ASSUME NEW u \in Users, NEW i \in DOMAIN queue[u]
          PROVE  MessageTimely(queue[u][i], clock + 1)
        <3>1. queue[u][i] \in Message
            BY DEF SendingInv, StreamTypeOK
        <3>2. queue[u][i].since \in Int
            BY <3>1, Bounds DEF Message
        <3>3. ~(clock >= queue[u][i].since + Timeout)
            BY <1>1 DEF Tick, TimedOut
        <3>4. MessageTimely(queue[u][i], clock)
            BY DEF TimelyInv
        <3>5. QED
            BY <2>1, <3>2, <3>3, <3>4, Bounds DEF MessageTimely
    <2>4. QED
        BY <2>1, <2>2, <2>3 DEF TimelyInv, threadVars
<1>2. ASSUME NEW u \in Users, Deliver(u) \/ Expire(u) PROVE TimelyInv'
    <2>1. /\ queue' = [queue EXCEPT ![u] = Tail(@)] /\ queue[u] # <<>>
          /\ clock' = clock /\ UNCHANGED threadVars
        BY <1>2 DEF Deliver, Expire, clockVars
    <2>2. ASSUME NEW v \in Users, NEW i \in DOMAIN queue'[v]
          PROVE  MessageTimely(queue'[v][i], clock')
        <3>1. queue[v] \in Seq(Message)
            BY DEF SendingInv, StreamTypeOK
        <3>2. CASE v = u
            <4>1. queue'[v] = Tail(queue[v])
                BY <2>1, <3>2 DEF SendingInv, StreamTypeOK
            <4>2. i + 1 \in DOMAIN queue[v] /\ queue'[v][i] = queue[v][i + 1]
                BY <2>1, <3>1, <3>2, <4>1, HeadAndTail
            <4>3. QED
                BY <2>1, <4>2 DEF TimelyInv
        <3>3. CASE v # u
            BY <2>1, <3>3 DEF TimelyInv, SendingInv, StreamTypeOK
        <3>4. QED
            BY <3>2, <3>3
    <2>3. QED
        BY <2>1, <2>2 DEF TimelyInv, SendTimely, threadVars
<1>3. QED
    BY <1>1, <1>2

\* A live stream stays in time.
LEMMA TimelyNext ==
    ASSUME SendingInv, TimelyInv, mode = "live", StreamNext
    PROVE  TimelyInv'
<1>1. ~CollectEnds /\ \A u \in Users : ~CollectSingle(u) /\ \A b \in BurstIds : ~CollectBurst(u, b)
    BY DEF CollectEnds, CollectSingle, CollectBurst, TimelyInv
<1>2. QED
    BY <1>1, LiveTimely, SendStepTimely, StopTimely, QueueTimely DEF StreamNext

\* Where the rows of a batch are.
LEMMA BacklogRows ==
    ASSUME QueryTypeOK, NEW r \in Backlog(upto)
    PROVE  /\ r[1] \in Users /\ r[2] \in DOMAIN topic[r[1]]
           /\ r[2] > done[r[1]] /\ r[2] <= upto[r[1]]
           /\ topic[r[1]][r[2]].at \in Int
<1>1. PICK u \in Users : r \in {u} \X (done[u] + 1 .. upto[u])
    BY DEF Backlog
<1>2. r[1] = u /\ r[2] \in done[u] + 1 .. upto[u]
    BY <1>1
<1>3. r[2] \in 1 .. Len(topic[u]) /\ topic[u] \in Seq(Txn)
    BY <1>2, TypesOf
<1>4. topic[u][r[2]] \in Txn
    BY <1>3
<1>5. topic[u][r[2]].at \in Int
    BY <1>4, TopicAssumption DEF Txn
<1>6. QED
    BY <1>2, <1>3, <1>5, TypesOf

\* A row is delivered no earlier than it may be dated, less Ahead, and no later
\* than Span and Timeout after that: no watermark has passed it.
LEMMA DeliveredInTime ==
    ASSUME DelaySuffices, SendingInv, QueryTypeOK, TimelyInv, MarkInv,
           NEW u \in Users, queue[u] # <<>>
    PROVE  LET at == Head(queue[u]).txn.at
           IN  /\ at \in Nat /\ at <= clock + Ahead /\ evictMark <= at
               /\ clock + Ahead - Delay <= at
<1> DEFINE m == Head(queue[u])
<1>1. m \in Message /\ m.txn \in Txn
    BY QueueType
<1>2. m.txn.at \in Nat /\ m.since \in Int /\ clock \in Int /\ evictMark \in Int
    BY <1>1, Bounds DEF Message, Txn, SendingInv, StreamTypeOK, QueryTypeOK
<1>3. MessageTimely(m, clock)
    BY HeadAndTail DEF TimelyInv, SendingInv, StreamTypeOK
<1>4. clock - Timeout - Span <= m.txn.at /\ m.txn.at <= clock + Ahead
    <2>1. /\ m.since <= clock /\ clock <= m.since + Timeout
          /\ m.since - Span <= m.txn.at /\ m.txn.at <= m.since + Ahead
        BY <1>3 DEF MessageTimely
    <2> HIDE DEF m
    <2>2. QED
        BY <1>2, <2>1, Bounds
<1>5. clock + Ahead - Delay <= m.txn.at
    BY <1>2, <1>4, Bounds, QueryAssumption DEF DelaySuffices
<1>6. evictMark <= m.txn.at
    BY <1>2, <1>5, Bounds, QueryAssumption DEF MarkInv
<1>7. QED
    BY <1>2, <1>4, <1>5, <1>6

LEMMA DeliverMarks ==
    ASSUME DelaySuffices, SendingInv, QueryInv, TimelyInv, MarkInv, NEW u \in Users,
           Deliver(u), UNCHANGED queryVars
    PROVE  MarkInv'
<1> DEFINE new == Head(queue[u]).txn
<1>1. queue[u] # <<>> /\ Accept(u, new) /\ clock' = clock /\ new \in Txn
    BY QueueType DEF Deliver, clockVars
<1>2. /\ new.at \in Nat /\ new.at <= clock + Ahead /\ evictMark <= new.at
      /\ clock + Ahead - Delay <= new.at
    BY <1>1, DeliveredInTime DEF QueryInv
<1>3. ASSUME NEW v \in Users, NEW o \in DOMAIN topic'[v]
      PROVE  \/ o \in DOMAIN topic[v] /\ topic'[v][o] = topic[v][o]
             \/ topic'[v][o] = new
    <2>1. topic[v] \in Seq(Txn)
        BY DEF SendingInv
    <2>2. CASE v = u
        <3>1. topic'[v] = Append(topic[v], new)
            BY <1>1, <2>2 DEF Accept, SendingInv
        <3>2. QED
            BY <1>1, <2>1, <3>1, AppendElements
    <2>3. CASE v # u
        BY <1>1, <2>3 DEF Accept, SendingInv
    <2>4. QED
        BY <2>2, <2>3
<1>4. UNCHANGED <<done, upto, planned, split, evictMark>>
    BY DEF queryVars, offsets, state
<1>5. ASSUME NEW r \in Backlog(upto)
      PROVE  /\ topic'[r[1]][r[2]] = topic[r[1]][r[2]]
             /\ topic[r[1]][r[2]].at - Delay <= clock + Ahead - Delay
             /\ topic[r[1]][r[2]].at - Delay \in Int
    <2>1. /\ r[1] \in Users /\ r[2] \in DOMAIN topic[r[1]]
          /\ topic[r[1]][r[2]].at \in Int
        BY BacklogRows DEF QueryInv
    <2>2. topic[r[1]][r[2]].at <= clock + Ahead
        BY <2>1 DEF MarkInv
    <2>3. topic[r[1]] \in Seq(Txn) /\ Grows
        BY <1>1, <2>1, AcceptGrows DEF SendingInv
    <2>4. topic'[r[1]][r[2]] = topic[r[1]][r[2]]
        BY <2>1, <2>3 DEF Grows
    <2>5. clock \in Int
        BY DEF SendingInv, StreamTypeOK
    <2>6. QED
        BY <2>1, <2>2, <2>4, <2>5, Bounds, QueryAssumption
<1>6. \A v \in Users : \A o \in DOMAIN topic'[v] : topic'[v][o].at <= clock + Ahead
    BY <1>2, <1>3 DEF MarkInv
<1>7. ~split => \A v \in Users : \A o \in DOMAIN topic'[v] :
                    o > done[v] => evictMark <= topic'[v][o].at
    BY <1>2, <1>3 DEF MarkInv
<1>8. ASSUME ~split, planned, NEW v \in Users, NEW o \in DOMAIN topic'[v], o > upto[v],
             NEW r \in Backlog(upto)
      PROVE  topic'[r[1]][r[2]].at - Delay <= topic'[v][o].at
    <2>1. CASE o \in DOMAIN topic[v] /\ topic'[v][o] = topic[v][o]
        BY <1>5, <1>8, <2>1 DEF MarkInv
    <2>2. CASE topic'[v][o] = new
        <3>1. clock \in Int
            BY DEF SendingInv, StreamTypeOK
        <3>2. QED
            BY <1>2, <1>5, <2>2, <3>1, Bounds, QueryAssumption
    <2>3. QED
        BY <1>3, <2>1, <2>2
<1>9. Backlog(upto)' = Backlog(upto)
    BY <1>4 DEF Backlog
<1>10. evictMark <= 0 \/ evictMark <= clock + Ahead - Delay
    BY DEF MarkInv
<1>11. QED
    BY <1>1, <1>4, <1>6, <1>7, <1>8, <1>9, <1>10 DEF MarkInv

\* The generator's other steps leave the topic alone and do not turn the clock back.
LEMMA OtherStreamMarks ==
    ASSUME SendingInv, QueryInv, MarkInv, topic' = topic, clock' \in {clock, clock + 1},
           UNCHANGED queryVars
    PROVE  MarkInv'
<1>1. UNCHANGED <<done, upto, planned, split, evictMark>> /\ Backlog(upto)' = Backlog(upto)
    BY DEF queryVars, offsets, state, Backlog
<1>2. clock \in Int /\ clock' \in Int /\ clock <= clock' /\ evictMark \in Int
    BY DEF SendingInv, StreamTypeOK, QueryInv, QueryTypeOK
<1>3. \A u \in Users : \A o \in DOMAIN topic[u] : topic[u][o].at <= clock' + Ahead
    <2> SUFFICES ASSUME NEW u \in Users, NEW o \in DOMAIN topic[u]
                 PROVE  topic[u][o].at <= clock' + Ahead
        OBVIOUS
    <2>1. topic[u][o] \in Txn
        BY DEF SendingInv
    <2>2. topic[u][o].at \in Int
        BY <2>1, Bounds DEF Txn
    <2>3. QED
        BY <1>2, <2>2, Bounds DEF MarkInv
<1>4. evictMark <= 0 \/ evictMark <= clock' + Ahead - Delay
    BY <1>2, Bounds, QueryAssumption DEF MarkInv
<1>5. QED
    BY <1>1, <1>3, <1>4 DEF MarkInv

\* A whole batch plans all there is; its commit raises the watermark to no more
\* than the rows it leaves.
LEMMA QueryMarks ==
    ASSUME SendingInv, QueryInv, MarkInv, QueryNext, clock' = clock
    PROVE  MarkInv'
<1>0. topic' = topic
    BY QueryLeavesTopic
<1>1. CASE PlanBatch
    <2>1. UNCHANGED <<done, evictMark>> /\ (split => split')
        BY <1>1 DEF PlanBatch, state
    <2>2. CASE planned
        <3>1. UNCHANGED <<upto, planned, split>>
            BY <1>1, <2>2 DEF PlanBatch
        <3>2. QED
            BY <1>0, <2>1, <3>1 DEF MarkInv, Backlog
    <2>3. CASE ~planned
        <3>1. ~split' => upto' = Latest
            BY <1>1, <2>3 DEF PlanBatch, BatchEnds
        <3>2. ASSUME ~split', NEW u \in Users, NEW o \in DOMAIN topic[u]
              PROVE  ~(o > upto'[u])
            <4>1. o \in 1 .. Len(topic[u]) /\ Len(topic[u]) \in Nat
                BY DEF SendingInv
            <4>2. QED
                BY <3>1, <3>2, <4>1 DEF Latest
        <3>3. QED
            BY <1>0, <2>1, <3>2 DEF MarkInv
    <2>4. QED
        BY <2>2, <2>3
<1>2. CASE CommitBatch
    <2>1. planned /\ done' = upto /\ ~planned' /\ split' = split /\ evictMark' \in Marks
        BY <1>2 DEF CommitBatch, QueryInv, PlanInv
    <2>2. \/ evictMark' = evictMark
          \/ \E r \in Backlog(upto) : evictMark' = topic[r[1]][r[2]].at - Delay
        BY <2>1 DEF Marks
    <2>3. evictMark' <= 0 \/ evictMark' <= clock + Ahead - Delay
        <3>1. CASE evictMark' = evictMark
            BY <3>1 DEF MarkInv
        <3>2. ASSUME NEW r \in Backlog(upto), evictMark' = topic[r[1]][r[2]].at - Delay
              PROVE  evictMark' <= clock + Ahead - Delay
            <4>1. /\ r[1] \in Users /\ r[2] \in DOMAIN topic[r[1]]
                  /\ topic[r[1]][r[2]].at \in Int
                BY BacklogRows DEF QueryInv
            <4>2. topic[r[1]][r[2]].at <= clock + Ahead /\ clock \in Int
                BY <4>1 DEF MarkInv, SendingInv, StreamTypeOK
            <4>3. QED
                BY <3>2, <4>1, <4>2, Bounds, QueryAssumption
        <3>3. QED
            BY <2>2, <3>1, <3>2
    <2>4. ASSUME ~split, NEW u \in Users, NEW o \in DOMAIN topic[u], o > upto[u]
          PROVE  evictMark' <= topic[u][o].at
        <3>1. CASE evictMark' = evictMark
            <4>1. o \in Nat /\ o > done[u]
                BY <2>4, TypesOf DEF SendingInv, QueryInv
            <4>2. QED
                BY <2>4, <3>1, <4>1 DEF MarkInv
        <3>2. ASSUME NEW r \in Backlog(upto), evictMark' = topic[r[1]][r[2]].at - Delay
              PROVE  evictMark' <= topic[u][o].at
            BY <2>1, <2>4, <3>2 DEF MarkInv
        <3>3. QED
            BY <2>2, <3>1, <3>2
    <2>5. QED
        BY <1>0, <2>1, <2>3, <2>4 DEF MarkInv
<1>3. ASSUME StartQuery \/ WriteVelocity \/ QueryEnds
      PROVE  MarkInv'
    <2>1. UNCHANGED <<done, upto, planned, split, evictMark>>
        BY <1>3 DEF StartQuery, WriteVelocity, QueryEnds, offsets, state
    <2>2. QED
        BY <1>0, <2>1 DEF MarkInv, Backlog
<1>4. QED
    BY <1>1, <1>2, <1>3 DEF QueryNext

\* No batch loses a row of which every reader of the watermark is in time.
LEMMA MarksSuffice ==
    ASSUME QueryInv, MarkInv, ~split
    PROVE  NoRowIsLate
<1> SUFFICES ASSUME NEW u \in Users, NEW w \in Windows, NEW o \in NewRows(u, w)
             PROVE  Accepts(w)
    BY DEF NoRowIsLate
<1>1. o \in done[u] + 1 .. upto[u] /\ topic[u][o].at \in w .. w + WindowLen - 1
    BY DEF NewRows, RowsIn, InWindow
<1>2. o \in DOMAIN topic[u] /\ o > done[u]
    BY <1>1, TypesOf DEF QueryInv
<1>3. evictMark <= topic[u][o].at
    BY <1>2 DEF MarkInv
<1>4. lateMark <= evictMark /\ lateMark \in Int /\ evictMark \in Int /\ w \in Int
    BY WindowsAreInt DEF QueryInv, PlanInv, QueryTypeOK
<1>5. QED
    BY <1>1, <1>3, <1>4, QueryAssumption DEF Accepts

\* The clock is the generator's, and the mode is chosen once.
LEMMA StreamClock ==
    ASSUME SendingInv, StreamNext
    PROVE  /\ mode' = mode /\ clock' \in {clock, clock + 1}
           /\ topic' = topic \/ \E u \in Users : Deliver(u)
BY DEF StreamNext, Normal, Fraud, CollectSingle, Deliver, Expire, CollectBurst, Spike, Send,
       FlushReturns, CollectEnds, Interrupt, Close, Exit, Tick, clockVars

LEMMA LiveInvNext ==
    ASSUME DelaySuffices, SendingInv, QueryInv, LiveInv, [Next]_vars
    PROVE  LiveInv'
<1>1. CASE StreamNext /\ UNCHANGED queryVars
    <2> SUFFICES ASSUME mode = "live", TimelyInv, MarkInv
                 PROVE  TimelyInv' /\ MarkInv'
        BY <1>1, StreamClock DEF LiveInv
    <2>1. TimelyInv'
        BY <1>1, TimelyNext
    <2>2. MarkInv'
        BY <1>1, StreamClock, DeliverMarks, OtherStreamMarks
    <2>3. QED
        BY <2>1, <2>2
<1>2. CASE QueryNext /\ UNCHANGED streamVars
    <2>1. mode' = mode /\ clock' = clock /\ UNCHANGED <<pc, todo, since, queue>>
        BY <1>2 DEF streamVars, clockVars, threadVars
    <2>2. TimelyInv => TimelyInv'
        BY <2>1 DEF TimelyInv, SendTimely, MessageTimely
    <2>3. QED
        BY <1>2, <2>1, <2>2, QueryMarks DEF LiveInv
<1>3. CASE UNCHANGED vars
    BY <1>3 DEF vars, streamVars, queryVars, clockVars, threadVars, offsets, state, LiveInv,
                TimelyInv, SendTimely, MessageTimely, MarkInv, Backlog
<1>4. QED
    BY <1>1, <1>2, <1>3 DEF Next

LEMMA LiveInvInit == Init => LiveInv
<1> SUFFICES ASSUME Init, mode = "live" PROVE TimelyInv /\ MarkInv
    BY DEF LiveInv
<1>1. TimelyInv
    BY Bounds DEF Init, StreamInit, TimelyInv, SendTimely
<1>2. \A u \in Users : DOMAIN topic[u] = {}
    BY DEF Init, TopicInit
<1>3. MarkInv
    BY <1>2 DEF Init, QueryInit, MarkInv
<1>4. QED
    BY <1>1, <1>3

\* A watermark of the generator's lead and its delays together is enough: while
\* batches are whole, no transaction of a live stream is ever late.
THEOREM LiveRowsAreCounted ==
    ASSUME DelaySuffices
    PROVE  Spec => []NoLiveRowIsLate
<1>1. Init => LiveInv
    BY LiveInvInit
<1>2. SendingInv /\ QueryInv /\ LiveInv /\ [Next]_vars => LiveInv'
    BY LiveInvNext
<1>3. SendingInv /\ QueryInv /\ LiveInv => NoLiveRowIsLate
    BY MarksSuffice DEF LiveInv, NoLiveRowIsLate
<1>4. Spec => []QueryInv
    BY PipelineIsAQuery, QueryInvariant, PTL
<1>5. QED
    BY <1>1, <1>2, <1>3, <1>4, SendingInvariant, PTL DEF Spec

\* Beside this generator too, the open windows are exact and the stored counts earned.
THEOREM PipelineCountsAreEarned == Spec => []OpenWindowsExact /\ []FlagIsEarned
BY PipelineIsAQuery, OpenCountsAreExact, FlagsAreEarned, PTL

-----------------------------------------------------------------------------
(* A backfill counts its rows. *)

\* The places of a sequence of each user: Delivered is the topic's.
Places(f) == UNION {{u} \X DOMAIN f[u] : u \in Users}

\* Where a row that was generated may be.
InBatch == Len(batch)
Sending == Len(todo[Main])
Queued == Cardinality(Places(queue))
Sent == Cardinality(Delivered)

\* How many are due: BurstRows of the bursts so far.
BurstRows == BurstCount * Cardinality(used)

RowsAccountedFor ==
    /\ IsFiniteSet(Places(queue)) /\ IsFiniteSet(Delivered)
    /\ collected = InBatch + Sending + Queued + Sent + failed

\* The bursts come first, then singles up to the budget.
WithinBudget ==
    /\ collected >= BurstRows
    /\ collected > BurstRows => used = BurstIds /\ collected <= NumBackfill

\* What a backfill has done when it is where it is.
BackfillStage ==
    /\ pc[Main] \in {"collect", "send", "flush", "close", "exit", "ended"}
    /\ pc[Injector] = "dead"
    /\ pc[Main] # "send" => todo[Main] = <<>>
    /\ pc[Main] \in {"close", "exit", "ended"}
          => batch = <<>> /\ used = BurstIds /\ collected >= NumBackfill
    /\ pc[Main] \in {"exit", "ended"} => Drained

BookInv == mode = "backfill" => RowsAccountedFor /\ WithinBudget /\ BackfillStage

\* One user's sequence is one longer.
LEMMA OnePlaceMore ==
    ASSUME NEW f, NEW g, NEW u \in Users, NEW n \in Nat,
           DOMAIN f[u] = 1 .. n, DOMAIN g[u] = 1 .. n + 1,
           \A v \in Users : v # u => DOMAIN g[v] = DOMAIN f[v],
           IsFiniteSet(Places(f))
    PROVE  IsFiniteSet(Places(g)) /\ Cardinality(Places(g)) = Cardinality(Places(f)) + 1
<1>1. ASSUME NEW p PROVE p \in Places(g) <=> p \in Places(f) \cup {<<u, n + 1>>}
  <2>1. \A v \in Users : p \in {v} \X DOMAIN g[v] <=>
           p \in {v} \X DOMAIN f[v] \/ (v = u /\ p = <<u, n + 1>>)
    <3> SUFFICES ASSUME NEW v \in Users
                 PROVE  p \in {v} \X DOMAIN g[v] <=>
                           p \in {v} \X DOMAIN f[v] \/ (v = u /\ p = <<u, n + 1>>)
        OBVIOUS
    <3>1. CASE v # u
        BY <3>1
    <3>2. CASE v = u
      <4>1. DOMAIN g[v] = DOMAIN f[v] \cup {n + 1}
          BY <3>2
      <4>2. QED
          BY <3>2, <4>1
    <3>3. QED
        BY <3>1, <3>2
  <2>2. QED
      BY <2>1 DEF Places
<1>2. Places(g) = Places(f) \cup {<<u, n + 1>>}
    BY <1>1
<1>3. <<u, n + 1>> \notin Places(f)
  <2>1. n + 1 \notin DOMAIN f[u]
      OBVIOUS
  <2>2. QED
      BY <2>1 DEF Places
<1>4. /\ IsFiniteSet(Places(f) \cup {<<u, n + 1>>})
      /\ Cardinality(Places(f) \cup {<<u, n + 1>>}) =
            IF <<u, n + 1>> \in Places(f) THEN Cardinality(Places(f)) ELSE Cardinality(Places(f)) + 1
    BY FS_AddElement, Zenon
<1>5. QED
    BY <1>2, <1>3, <1>4

\* ... or one shorter.
LEMMA OnePlaceLess ==
    ASSUME NEW f, NEW g, NEW u \in Users, NEW n \in Nat,
           DOMAIN f[u] = 1 .. n + 1, DOMAIN g[u] = 1 .. n,
           \A v \in Users : v # u => DOMAIN g[v] = DOMAIN f[v],
           IsFiniteSet(Places(f))
    PROVE  /\ IsFiniteSet(Places(g)) /\ Cardinality(Places(g)) \in Nat
           /\ Cardinality(Places(f)) = Cardinality(Places(g)) + 1
<1>1. Places(g) \subseteq Places(f)
  <2>1. \A v \in Users : DOMAIN g[v] \subseteq DOMAIN f[v]
      OBVIOUS
  <2>2. QED
      BY <2>1 DEF Places
<1>2. IsFiniteSet(Places(g))
    BY <1>1, FS_Subset
<1>3. QED
    BY <1>2, OnePlaceMore, FS_CardinalityType

\* _produce moves a row from a thread to the queue.
LEMMA EnqueuePlaces ==
    ASSUME SendingInv, NEW row \in TypedRow, Enqueue(row), IsFiniteSet(Places(queue))
    PROVE  IsFiniteSet(Places(queue')) /\ Queued' = Queued + 1
<1> DEFINE m == [txn |-> row.txn, since |-> clock]
           u == row.user
<1>1. m \in Message /\ u \in Users /\ queue[u] \in Seq(Message)
    BY DEF Message, TypedRow, SendingInv, StreamTypeOK
<1>2. queue' = [queue EXCEPT ![u] = Append(queue[u], m)]
    BY DEF Enqueue
<1> HIDE DEF m, u
<1>3. queue'[u] = Append(queue[u], m) /\ \A v \in Users : v # u => queue'[v] = queue[v]
    BY <1>1, <1>2 DEF SendingInv, StreamTypeOK
<1>4. DOMAIN queue[u] = 1 .. Len(queue[u]) /\ DOMAIN queue'[u] = 1 .. Len(queue[u]) + 1
         /\ Len(queue[u]) \in Nat
    BY <1>1, <1>3
<1>5. QED
    BY <1>1, <1>3, <1>4, OnePlaceMore DEF Queued

\* A message leaves the queue.
Dequeue(u) == queue' = [queue EXCEPT ![u] = Tail(@)]

LEMMA DequeuePlaces ==
    ASSUME SendingInv, NEW u \in Users, queue[u] # <<>>, Dequeue(u), IsFiniteSet(Places(queue))
    PROVE  IsFiniteSet(Places(queue')) /\ Queued' \in Nat /\ Queued = Queued' + 1
<1>1. queue[u] \in Seq(Message)
    BY DEF SendingInv, StreamTypeOK
<1>2. queue'[u] = Tail(queue[u]) /\ \A v \in Users : v # u => queue'[v] = queue[v]
    BY DEF Dequeue, SendingInv, StreamTypeOK
<1>3. /\ DOMAIN Tail(queue[u]) = 1 .. Len(Tail(queue[u])) /\ Len(Tail(queue[u])) \in Nat
      /\ DOMAIN queue[u] = 1 .. Len(Tail(queue[u])) + 1
    BY <1>1
<1>4. PICK n \in Nat : DOMAIN queue[u] = 1 .. n + 1 /\ DOMAIN Tail(queue[u]) = 1 .. n
    BY <1>3
<1>5. DOMAIN queue[u] = 1 .. n + 1 /\ DOMAIN queue'[u] = 1 .. n
    BY <1>2, <1>4
<1>6. \A v \in Users : v # u => DOMAIN queue'[v] = DOMAIN queue[v]
    BY <1>2
<1>7. /\ IsFiniteSet(Places(queue')) /\ Cardinality(Places(queue')) \in Nat
      /\ Cardinality(Places(queue)) = Cardinality(Places(queue')) + 1
    BY <1>4, <1>5, <1>6, OnePlaceLess
<1>8. QED
    BY <1>7 DEF Queued

\* The broker's partition grows by what it accepts.
LEMMA DeliveredGrows ==
    ASSUME SendingInv, NEW u \in Users, Deliver(u), IsFiniteSet(Delivered)
    PROVE  IsFiniteSet(Delivered') /\ Sent' = Sent + 1
<1> DEFINE txn == Head(queue[u]).txn
<1>1. txn \in Txn
    BY QueueType DEF Deliver
<1>2. topic[u] \in Seq(Txn)
    BY DEF SendingInv
<1>3. topic' = [topic EXCEPT ![u] = Append(topic[u], txn)]
    BY DEF Deliver, Accept
<1> HIDE DEF txn
<1>4. topic'[u] = Append(topic[u], txn) /\ \A v \in Users : v # u => topic'[v] = topic[v]
    BY <1>3 DEF SendingInv
<1>5. DOMAIN topic[u] = 1 .. Len(topic[u]) /\ DOMAIN topic'[u] = 1 .. Len(topic[u]) + 1
         /\ Len(topic[u]) \in Nat
    BY <1>1, <1>2, <1>4
<1>6. Delivered = Places(topic) /\ Delivered' = Places(topic')
    BY DEF Delivered, Places
<1>7. \A v \in Users : v # u => DOMAIN topic'[v] = DOMAIN topic[v]
    BY <1>4
<1>8. IsFiniteSet(Places(topic)) /\ Len(topic[u]) \in Nat
    BY <1>5, <1>6
<1>9. IsFiniteSet(Places(topic')) /\ Cardinality(Places(topic')) = Cardinality(Places(topic)) + 1
    BY <1>5, <1>7, <1>8, OnePlaceMore, Zenon
<1>10. QED
    BY <1>6, <1>9 DEF Sent

\* The rows that come with Collect are in the batch, or with the main thread.
LEMMA CollectCounts ==
    ASSUME SendingInv, BackfillStage, pc[Main] = "collect",
           NEW rows \in Seq(TypedRow), Collect(rows)
    PROVE  /\ pc'[Main] \in {"collect", "send"} /\ pc'[Injector] = "dead"
           /\ pc'[Main] # "send" => todo'[Main] = <<>>
           /\ collected' = collected + Len(rows)
           /\ InBatch' + Sending' = InBatch + Sending + Len(rows)
<1> DEFINE all == batch \o rows
<1>1. all \in Seq(TypedRow) /\ Len(all) = InBatch + Len(rows)
    BY DEF SendingInv, StreamTypeOK, Rows, TypedRow, InBatch
<1>2. todo[Main] = <<>> /\ collected' = collected + Len(rows)
    BY DEF BackfillStage, Collect
<1>3. CASE Len(all) >= BatchSize
    <2>1. /\ StartSending(Main, SubSeq(all, 1, BatchSize))
          /\ batch' = SubSeq(all, BatchSize + 1, Len(all))
        BY <1>3 DEF Collect
    <2>2. /\ Len(SubSeq(all, 1, BatchSize)) = BatchSize
          /\ Len(SubSeq(all, BatchSize + 1, Len(all))) = Len(all) - BatchSize
        BY <1>1, <1>3, Bounds
    <2>3. /\ pc'[Main] = "send" /\ pc'[Injector] = pc[Injector]
          /\ todo'[Main] = SubSeq(all, 1, BatchSize)
        BY <2>1, Bounds DEF StartSending, SendingInv, StreamTypeOK
    <2> HIDE DEF all
    <2>4. InBatch' + Sending' = Len(all)
        BY <1>1, <2>1, <2>2, <2>3, Bounds DEF InBatch, Sending
    <2>5. Sending = 0 /\ InBatch \in Nat /\ Len(rows) \in Nat
        BY <1>2 DEF SendingInv, StreamTypeOK, Rows, InBatch, Sending
    <2>6. InBatch' + Sending' = InBatch + Sending + Len(rows)
        BY <1>1, <2>4, <2>5
    <2>7. QED
        BY <1>2, <2>3, <2>6 DEF BackfillStage
<1>4. CASE ~(Len(all) >= BatchSize)
    <2>1. batch' = all /\ UNCHANGED threadVars
        BY <1>4 DEF Collect
    <2> HIDE DEF all
    <2>2. Sending = 0 /\ InBatch \in Nat /\ Len(rows) \in Nat
        BY <1>2 DEF SendingInv, StreamTypeOK, Rows, InBatch, Sending
    <2>3. InBatch' = Len(all) /\ Sending' = Sending
        BY <2>1 DEF InBatch, Sending, threadVars
    <2>4. QED
        BY <1>1, <1>2, <2>1, <2>2, <2>3 DEF BackfillStage, threadVars
<1>5. QED
    BY <1>3, <1>4

\* The counts are numbers.
LEMMA Counts ==
    ASSUME SendingInv
    PROVE  /\ InBatch \in Nat /\ Sending \in Nat
           /\ collected \in Nat /\ failed \in Nat /\ NumBackfill \in Nat
           /\ IsFiniteSet(used) /\ IsFiniteSet(BurstIds) /\ Cardinality(used) \in Nat
           /\ BurstRows \in Nat
<1>1. IsFiniteSet(BurstIds) /\ used \subseteq BurstIds /\ NumBackfill \in Nat
    BY StreamAssumption DEF SendingInv, StreamTypeOK
<1>2. IsFiniteSet(used) /\ Cardinality(used) \in Nat
    BY <1>1, FS_Subset, FS_CardinalityType
<1>3. BurstRows \in Nat
    BY <1>2, Bounds DEF BurstRows
<1>4. InBatch \in Nat /\ Sending \in Nat
    BY Bounds DEF SendingInv, StreamTypeOK, Rows, InBatch, Sending
<1>5. QED
    BY <1>1, <1>2, <1>3, <1>4 DEF SendingInv, StreamTypeOK

LEMMA SetCounts ==
    ASSUME RowsAccountedFor
    PROVE  Queued \in Nat /\ Sent \in Nat
BY FS_CardinalityType DEF RowsAccountedFor, Queued, Sent

\* Rows are collected: a burst, or a single once all bursts are there.
LEMMA CollectKeepsBook ==
    ASSUME SendingInv, BookInv, mode = "backfill",
           \/ \E u \in Users, b \in BurstIds : CollectBurst(u, b)
           \/ \E u \in Users : CollectSingle(u)
    PROVE  BookInv'
<1> USE DEF BookInv
<1>1. ASSUME NEW rows \in Seq(TypedRow), Collect(rows), pc[Main] = "collect",
             UNCHANGED <<topic, queue, failed>>,
             collected' >= BurstRows',
             collected' > BurstRows'
                => used' = BurstIds /\ collected' <= NumBackfill
      PROVE  BookInv'
    <2>1. /\ pc'[Main] \in {"collect", "send"} /\ pc'[Injector] = "dead"
          /\ pc'[Main] # "send" => todo'[Main] = <<>>
          /\ collected' = collected + Len(rows)
          /\ InBatch' + Sending' = InBatch + Sending + Len(rows)
        BY <1>1, CollectCounts
    <2>2. Places(queue') = Places(queue) /\ Delivered' = Delivered
        BY <1>1 DEF Delivered
    <2>3. InBatch' \in Nat /\ Sending' \in Nat
        <3>1. ThreadsOK' /\ batch' \in Rows
            BY <1>1, CollectType
        <3>2. QED
            BY <3>1, Bounds DEF ThreadsOK, Rows, InBatch, Sending
    <2>4. Queued \in Nat /\ Sent \in Nat
        BY SetCounts
    <2>5. Len(rows) \in Nat
        OBVIOUS
    <2>6. collected' = InBatch' + Sending' + Queued + Sent + failed
        <3>1. InBatch \in Nat /\ Sending \in Nat /\ failed \in Nat
            BY Counts
        <3>2. collected = InBatch + Sending + Queued + Sent + failed
            BY DEF RowsAccountedFor
        <3> HIDE DEF BookInv
        <3>3. QED
            BY <2>1, <2>3, <2>4, <2>5, <3>1, <3>2
    <2>7. RowsAccountedFor'
        BY <1>1, <2>2, <2>6 DEF RowsAccountedFor, Queued, Sent
    <2>8. QED
        BY <1>1, <2>1, <2>7 DEF WithinBudget, BackfillStage
<1>2. ASSUME NEW u \in Users, NEW b \in BurstIds, CollectBurst(u, b)
      PROVE  BookInv'
    <2>1. PICK anchor \in 0 .. MaxAt - Ahead : \E rows \in Bursts(u, b, anchor) : Collect(rows)
        BY <1>2 DEF CollectBurst
    <2>2. PICK rows \in Bursts(u, b, anchor) : Collect(rows)
        BY <2>1
    <2>3. rows \in Seq(TypedRow) /\ Len(rows) = BurstCount
        BY <2>1, Bounds, BurstType
    <2>4. collected' = collected + BurstCount
        BY <2>2, <2>3 DEF Collect
    <2>5. b \notin used /\ used' = used \cup {b} /\ used # BurstIds
        BY <1>2 DEF CollectBurst
    <2>6. collected = BurstRows
        BY <2>5, Counts DEF WithinBudget
    <2>7. Cardinality(used') = Cardinality(used) + 1
        BY <2>5, Counts, FS_AddElement
    <2>8. BurstRows' = BurstRows + BurstCount
        <3> HIDE DEF BookInv
        <3>1. BurstCount \in Nat /\ Cardinality(used) \in Nat
            BY Counts, Bounds
        <3>2. \A m, n \in Nat : m * (n + 1) = m * n + m
            OBVIOUS
        <3>3. QED
            BY <2>7, <3>1, <3>2 DEF BurstRows
    <2>9. collected' = BurstRows' /\ collected' \in Nat
        BY <2>4, <2>6, <2>8, Counts, Bounds
    <2>10. QED
        BY <1>1, <1>2, <2>2, <2>3, <2>9 DEF CollectBurst
<1>3. ASSUME NEW u \in Users, CollectSingle(u)
      PROVE  BookInv'
    <2>1. PICK at \in 0 .. MaxAt : Collect(<<Row(u, at, NoBurst)>>)
        BY <1>3 DEF CollectSingle
    <2>2. <<Row(u, at, NoBurst)>> \in Seq(TypedRow) /\ Len(<<Row(u, at, NoBurst)>>) = 1
        BY RowType
    <2>3. collected' = collected + 1
        BY <2>1, <2>2 DEF Collect
    <2>4. used = BurstIds /\ used' = used /\ collected < NumBackfill
        BY <1>3 DEF CollectSingle
    <2>5. collected' >= BurstRows /\ collected' <= NumBackfill
        BY <2>3, <2>4, Counts DEF WithinBudget
    <2>7. BurstRows' = BurstRows
        BY <2>4 DEF BurstRows
    <2>6. QED
        BY <1>1, <1>3, <2>1, <2>2, <2>4, <2>5, <2>7 DEF CollectSingle
<1>4. QED
    BY <1>2, <1>3

\* The main thread hands over a row, or its last batch.
LEMMA SendKeepsBook ==
    ASSUME SendingInv, BookInv, mode = "backfill",
           CollectEnds \/ \E t \in Threads : Send(t) \/ FlushReturns(t)
    PROVE  BookInv'
<1> USE DEF BookInv
<1>1. CASE CollectEnds
    <2>1. /\ pc[Main] = "collect" /\ used = BurstIds /\ collected >= NumBackfill
          /\ UNCHANGED <<topic, queue, collected, used, failed>>
        BY <1>1 DEF CollectEnds
    <2>2. /\ InBatch' + Sending' = InBatch + Sending
          /\ pc'[Main] \in {"send", "close"} /\ pc'[Injector] = "dead"
          /\ pc'[Main] = "close" => todo'[Main] = <<>> /\ batch' = <<>>
          /\ InBatch' \in Nat /\ Sending' \in Nat
        <3>1. todo[Main] = <<>> /\ todo \in [Threads -> Rows] /\ pc \in [Threads -> PcValues]
                 /\ batch \in Rows
            BY <2>1 DEF BackfillStage, SendingInv, StreamTypeOK, PcValues
        <3>2. CASE batch = <<>>
            <4>1. UNCHANGED <<batch, todo>> /\ pc'[Main] = "close" /\ pc'[Injector] = pc[Injector]
                BY <1>1, <3>1, <3>2, Bounds DEF CollectEnds
            <4>2. QED
                BY <3>1, <3>2, <4>1, Counts DEF BackfillStage, InBatch, Sending
        <3>3. CASE batch # <<>>
            <4>1. StartSending(Main, batch) /\ batch' = <<>>
                BY <1>1, <3>3 DEF CollectEnds
            <4>2. pc'[Main] = "send" /\ pc'[Injector] = pc[Injector] /\ todo'[Main] = batch
                BY <3>1, <4>1, Bounds DEF StartSending
            <4>3. InBatch \in Nat /\ Sending = 0 /\ InBatch' = 0 /\ Sending' = InBatch
                BY <3>1, <4>1, <4>2, Counts DEF InBatch, Sending
            <4>4. QED
                BY <3>1, <4>1, <4>2, <4>3 DEF BackfillStage
        <3>4. QED
            BY <3>2, <3>3
    <2>3. RowsAccountedFor'
        <3>1. Queued \in Nat /\ Sent \in Nat
            BY SetCounts
        <3>2. Delivered' = Delivered
            BY <2>1 DEF Delivered
        <3>3. collected' = InBatch' + Sending' + Queued + Sent + failed
            BY <2>1, <2>2, <3>1, Counts DEF RowsAccountedFor
        <3>4. QED
            BY <2>1, <3>2, <3>3 DEF RowsAccountedFor, Queued, Sent
    <2>4. QED
        BY <2>1, <2>2, <2>3 DEF WithinBudget, BackfillStage, BurstRows
<1>2. ASSUME NEW t \in Threads, Send(t) PROVE BookInv'
    <2>1. t = Main /\ pc[Main] = "send" /\ pc[Injector] = "dead" /\ todo[Main] # <<>>
        BY <1>2 DEF Send, BackfillStage, Threads, SendingInv
    <2>2. todo[Main] \in Seq(TypedRow) /\ todo \in [Threads -> Rows]
             /\ pc \in [Threads -> PcValues]
        BY Bounds DEF SendingInv, StreamTypeOK, Rows, TypedRow, PcValues
    <2>3. Head(todo[Main]) \in TypedRow /\ Len(Tail(todo[Main])) \in Nat
             /\ Sending = Len(Tail(todo[Main])) + 1
        BY <2>1, <2>2 DEF Sending
    <2>4. /\ IsFiniteSet(Places(queue'))
          /\ Queued' = Queued + 1
        BY <1>2, <2>1, <2>3, EnqueuePlaces DEF Send, RowsAccountedFor
    <2>5. /\ todo'[Main] = Tail(todo[Main])
          /\ pc'[Main] \in {"send", "flush"} /\ pc'[Injector] = "dead"
          /\ pc'[Main] # "send" => todo'[Main] = <<>>
        BY <1>2, <2>1, <2>2, Bounds DEF Send
    <2>6. UNCHANGED <<topic, batch, collected, used, failed>>
        BY <1>2 DEF Send, bookVars
    <2>7. RowsAccountedFor'
        <3>1. Queued \in Nat /\ Sent \in Nat
            BY SetCounts
        <3>2. Delivered' = Delivered
            BY <2>6 DEF Delivered
        <3>3. collected = InBatch + Sending' + Queued' + Sent + failed
            <4>1. InBatch \in Nat /\ Sending \in Nat /\ failed \in Nat
                BY Counts
            <4>2. Sending' \in Nat /\ Sending = Sending' + 1
                BY <2>3, <2>5 DEF Sending
            <4>3. collected = InBatch + Sending + Queued + Sent + failed
                BY DEF RowsAccountedFor
            <4>4. QED
                BY <2>4, <3>1, <4>1, <4>2, <4>3
        <3>4. QED
            BY <2>4, <2>6, <3>2, <3>3 DEF RowsAccountedFor, InBatch, Sent
    <2>8. QED
        BY <2>5, <2>6, <2>7 DEF WithinBudget, BackfillStage, BurstRows
<1>3. ASSUME NEW t \in Threads, FlushReturns(t) PROVE BookInv'
    <2>1. t = Main /\ pc[Main] = "flush" /\ pc[Injector] = "dead"
        BY <1>3 DEF FlushReturns, BackfillStage, Threads
    <2>2. pc'[Main] = "collect" /\ pc'[Injector] = "dead"
        BY <1>3, <2>1, Bounds DEF FlushReturns, Resting, SendingInv, StreamTypeOK
    <2>3. UNCHANGED <<topic, todo, queue, batch, collected, used, failed>>
        BY <1>3 DEF FlushReturns, bookVars
    <2>4. QED
        BY <2>1, <2>2, <2>3
        DEF RowsAccountedFor, WithinBudget, BackfillStage, Delivered,
            InBatch, Sending, Queued, Sent, BurstRows
<1>4. QED
    BY <1>1, <1>2, <1>3

\* A message is delivered or given up.
LEMMA QueueKeepsBook ==
    ASSUME SendingInv, BookInv, mode = "backfill", NEW u \in Users, Deliver(u) \/ Expire(u)
    PROVE  BookInv'
<1> USE DEF BookInv
<1>1. /\ queue[u] # <<>> /\ queue' = [queue EXCEPT ![u] = Tail(@)]
      /\ UNCHANGED <<mode, pc, todo, batch, collected, used>>
    BY DEF Deliver, Expire, clockVars, threadVars, bookVars
<1>2. /\ IsFiniteSet(Places(queue')) /\ Queued' \in Nat
      /\ Queued = Queued' + 1
    BY <1>1, DequeuePlaces DEF Dequeue, RowsAccountedFor
<1>3. IsFiniteSet(Delivered) /\ Sent \in Nat
    BY SetCounts DEF RowsAccountedFor
<1>4. InBatch \in Nat /\ Sending \in Nat /\ failed \in Nat
         /\ Queued \in Nat
    BY SetCounts, Counts
<1>5. collected = InBatch + Sending + Queued + Sent + failed
    BY DEF RowsAccountedFor
<1>6. RowsAccountedFor'
    <2>1. CASE Deliver(u)
        <3>1. IsFiniteSet(Delivered') /\ Sent' = Sent + 1
            BY <1>3, <2>1, DeliveredGrows
        <3>2. failed' = failed
            BY <2>1 DEF Deliver
        <3>3. collected = InBatch + Sending + Queued' + Sent' + failed
            BY <1>2, <1>3, <1>4, <1>5, <3>1
        <3>4. QED
            BY <1>1, <1>2, <3>1, <3>2, <3>3 DEF RowsAccountedFor, InBatch, Sending
    <2>2. CASE Expire(u)
        <3>1. Delivered' = Delivered /\ failed' = failed + 1
            BY <2>2 DEF Expire, Delivered
        <3>2. collected = InBatch + Sending + Queued' + Sent + failed'
            BY <1>2, <1>3, <1>4, <1>5, <3>1
        <3>3. QED
            BY <1>1, <1>2, <1>3, <3>1, <3>2 DEF RowsAccountedFor, InBatch, Sending, Sent
    <2>3. QED
        BY <2>1, <2>2
<1>7. ~Drained
    BY <1>1 DEF Drained
<1>8. QED
    BY <1>1, <1>6, <1>7 DEF WithinBudget, BackfillStage, BurstRows

\* The process ends, with nothing in its hands.
LEMMA StopKeepsBook ==
    ASSUME SendingInv, BookInv, mode = "backfill", Close \/ Exit \/ Tick
    PROVE  BookInv'
<1> USE DEF BookInv
<1>1. CASE Close
    <2>1. /\ pc[Main] = "close" /\ pc'[Main] = "exit" /\ pc'[Injector] = pc[Injector] /\ Drained
          /\ UNCHANGED <<topic, todo, queue, batch, collected, used, failed>>
        BY <1>1, Bounds DEF Close, SendingInv, StreamTypeOK, bookVars
    <2>2. QED
        BY <2>1 DEF RowsAccountedFor, WithinBudget, BackfillStage, Delivered,
            InBatch, Sending, Queued, Sent, BurstRows, Drained
<1>2. CASE Exit
    <2>1. /\ pc[Main] = "exit" /\ pc'[Main] = "ended" /\ pc'[Injector] = "dead"
          /\ todo'[Main] = <<>>
          /\ UNCHANGED <<topic, batch, collected, used, failed>>
        BY <1>2, Bounds DEF Exit, bookVars
    <2>2. Drained /\ Drained' /\ todo[Main] = <<>>
        BY <1>2, <2>1 DEF Exit, BackfillStage, Drained
    <2>3. Places(queue') = Places(queue)
        <3>1. \A u \in Users : DOMAIN queue'[u] = DOMAIN queue[u]
            BY <2>2 DEF Drained
        <3>2. QED
            BY <3>1 DEF Places
    <2>4. Delivered' = Delivered
        BY <2>1 DEF Delivered
    <2>5. RowsAccountedFor'
        BY <2>1, <2>2, <2>3, <2>4 DEF RowsAccountedFor, InBatch, Sending, Queued, Sent
    <2>6. QED
        BY <2>1, <2>2, <2>5 DEF WithinBudget, BackfillStage, BurstRows
<1>3. CASE Tick
    <2>1. UNCHANGED <<topic, pc, todo, queue, batch, collected, used, failed>>
        BY <1>3 DEF Tick, threadVars, bookVars
    <2>2. QED
        BY <2>1 DEF RowsAccountedFor, WithinBudget, BackfillStage, Delivered,
            InBatch, Sending, Queued, Sent, BurstRows, Drained
<1>4. QED
    BY <1>1, <1>2, <1>3

LEMMA BookInvNext == SendingInv /\ BookInv /\ [Next]_vars => BookInv'
<1> SUFFICES ASSUME SendingInv, BookInv, [Next]_vars PROVE BookInv'
    OBVIOUS
<1>1. CASE UNCHANGED <<topic, streamVars>>
    BY <1>1 DEF BookInv, RowsAccountedFor, WithinBudget, BackfillStage, Delivered, Drained,
                InBatch, Sending, Queued, Sent, BurstRows,
                streamVars, clockVars, threadVars, bookVars
<1>2. ASSUME StreamNext PROVE BookInv'
    <2>1. mode' = mode
        BY <1>2 DEF StreamNext, Normal, Fraud, CollectSingle, Deliver, Expire, CollectBurst, Spike,
                    Send, FlushReturns, CollectEnds, Interrupt, Close, Exit, Tick, clockVars
    <2>2. CASE mode # "backfill"
        BY <2>1, <2>2 DEF BookInv
    <2>3. CASE mode = "backfill"
        <3>1. pc[Main] \notin {"loop", "sleep"} /\ pc[Injector] \notin {"loop", "sleep"}
            BY <2>3 DEF BookInv, BackfillStage
        <3>2. /\ \A u \in Users : ~Normal(u) /\ ~Fraud(u)
              /\ \A u \in Users, b \in BurstIds, t \in Threads : ~Spike(t, u, b)
              /\ ~Interrupt
            BY <2>3, <3>1 DEF Normal, Fraud, Spike, Interrupt, Threads
        <3>3. QED
            BY <1>2, <2>3, <3>2, CollectKeepsBook, SendKeepsBook, QueueKeepsBook, StopKeepsBook
            DEF StreamNext
    <2>4. QED
        BY <2>2, <2>3
<1>3. QED
    BY <1>1, <1>2, QueryLeavesTopic DEF Next, vars

LEMMA BookInvInit == Init => BookInv
<1> SUFFICES ASSUME Init, mode = "backfill" PROVE RowsAccountedFor /\ WithinBudget /\ BackfillStage
    BY DEF BookInv
<1>1. /\ topic = [u \in Users |-> <<>>] /\ queue = [u \in Users |-> <<>>]
      /\ batch = <<>> /\ collected = 0 /\ used = {} /\ failed = 0
      /\ todo = [t \in Threads |-> <<>>]
      /\ pc[Main] = "collect" /\ pc[Injector] = "dead"
    BY Bounds DEF Init, TopicInit, StreamInit
<1>2. Places(queue) = {} /\ Delivered = {} /\ InBatch = 0 /\ todo[Main] = <<>>
         /\ Sending = 0
    BY <1>1, Bounds DEF Places, Delivered, InBatch, Sending
<1>3. RowsAccountedFor
    <2>1. IsFiniteSet({}) /\ Cardinality({}) = 0
        BY FS_EmptySet
    <2>2. Queued = 0 /\ Sent = 0
        BY <1>2, <2>1 DEF Queued, Sent
    <2>3. IsFiniteSet(Places(queue)) /\ IsFiniteSet(Delivered)
        BY <1>2, <2>1
    <2>4. collected = InBatch + Sending + Queued + Sent + failed
        BY <1>1, <1>2, <2>2
    <2>5. QED
        BY <2>3, <2>4 DEF RowsAccountedFor
<1>4. WithinBudget
    <2>1. Cardinality(used) = 0
        BY <1>1, FS_EmptySet
    <2>2. BurstRows = 0
        BY <2>1, Bounds DEF BurstRows
    <2>3. QED
        BY <1>1, <2>2 DEF WithinBudget
<1>5. QED
    BY <1>1, <1>2, <1>3, <1>4 DEF BackfillStage

\* A backfill that ends has sent, or given up, what it was asked for: no row of a
\* partial batch, of a batch's remainder or of a full queue is left behind.
THEOREM BackfillSendsAll == Spec => []BackfillIsWhole
<1>1. SendingInv /\ BookInv => BackfillIsWhole
    <2> SUFFICES ASSUME SendingInv, BookInv, mode = "backfill", pc[Main] \in {"exit", "ended"}
                 PROVE  Sent + failed =
                          IF NumBackfill < BurstCount * Cardinality(BurstIds)
                          THEN BurstCount * Cardinality(BurstIds) ELSE NumBackfill
        BY DEF BackfillIsWhole, Sent
    <2>1. /\ batch = <<>> /\ todo[Main] = <<>> /\ used = BurstIds /\ collected >= NumBackfill
          /\ Drained
        BY DEF BookInv, BackfillStage
    <2>2. InBatch = 0 /\ Sending = 0 /\ Places(queue) = {}
        BY <2>1 DEF Drained, Places, InBatch, Sending
    <2>3. Sent \in Nat /\ Queued = 0
        BY <2>2, SetCounts, FS_EmptySet DEF BookInv, Queued
    <2>4. collected = Sent + failed
        BY <2>2, <2>3, Counts DEF BookInv, RowsAccountedFor
    <2>5. /\ collected >= BurstCount * Cardinality(BurstIds)
          /\ collected > BurstCount * Cardinality(BurstIds) => collected <= NumBackfill
          /\ BurstCount * Cardinality(BurstIds) \in Nat
        BY <2>1, Counts DEF BookInv, WithinBudget, BurstRows
    <2>6. QED
        BY <2>1, <2>4, <2>5, Counts
<1>2. QED
    BY <1>1, BookInvInit, BookInvNext, SendingInvariant, PTL DEF Spec

-----------------------------------------------------------------------------
(* A live burst is seen: its rows are in one window, wherever they are on  *)
(* their way, and the batch that brings the last of them counts them all.  *)

\* A burst is shorter than a window and has more rows than the threshold.
BurstFits == Ahead < WindowLen /\ Threshold < BurstCount

\* The transactions a thread is sending, that wait in the queue, in the topic.
InHands == UNION {{todo[t][i].txn : i \in DOMAIN todo[t]} : t \in Threads}
Waiting == UNION {{queue[u][i].txn : i \in DOMAIN queue[u]} : u \in Users}
Written == UNION {{topic[u][o] : o \in DOMAIN topic[u]} : u \in Users}
Alive == InHands \cup Waiting \cup Written

\* All rows of a burst are dated from when it began to Ahead later, and a burst
\* that has not begun has no rows.
BurstDated ==
    \A b \in BurstIds : \E began \in 0 .. MaxTime : \A txn \in Alive :
        txn.burst = b => b \in used /\ txn.at \in began .. began + Ahead

\* The rows of u's burst b up to offset hi.
BurstUpTo(u, b, hi) == {o \in 1 .. hi : topic[u][o].burst = b}

AlarmedUpTo(ends) ==
    \A u \in Users, b \in BurstIds :
        Cardinality(BurstUpTo(u, b, ends[u])) = BurstCount => u \in alarms

\* An alarm is raised before the offsets are committed, so a crash in between
\* does not lose it.
SeenInv ==
    mode = "live" =>
        /\ BurstDated
        /\ ~split => AlarmedUpTo(done) /\ (step = "written" => AlarmedUpTo(upto))

\* A step that brings no transaction of a burst leaves them dated as they were.
LEMMA NothingNew ==
    ASSUME BurstDated, used \subseteq used',
           \A txn \in Alive' : txn \in Alive \/ txn.burst = NoBurst
    PROVE  BurstDated'
<1> SUFFICES ASSUME NEW b \in BurstIds
             PROVE  \E began \in 0 .. MaxTime : \A txn \in Alive' :
                        txn.burst = b => b \in used' /\ txn.at \in began .. began + Ahead
    BY DEF BurstDated
<1>1. PICK began \in 0 .. MaxTime : \A txn \in Alive :
          txn.burst = b => b \in used /\ txn.at \in began .. began + Ahead
    BY DEF BurstDated
<1>2. b # NoBurst
    BY TopicAssumption
<1>3. QED
    BY <1>1, <1>2

\* What a thread starts to send is now in its hands.
LEMMA StartHands ==
    ASSUME SendingInv, NEW t \in Threads, NEW rows, StartSending(t, rows),
           UNCHANGED <<topic, queue>>
    PROVE  \A txn \in Alive' : txn \in Alive \/ \E i \in DOMAIN rows : txn = rows[i].txn
<1>1. \A s \in Threads : todo'[s] = IF s = t THEN rows ELSE todo[s]
    BY DEF StartSending, SendingInv, StreamTypeOK
<1>2. \A txn \in InHands' : txn \in InHands \/ \E i \in DOMAIN rows : txn = rows[i].txn
    BY <1>1 DEF InHands
<1>3. Waiting' = Waiting /\ Written' = Written
    BY DEF Waiting, Written
<1>4. QED
    BY <1>2, <1>3 DEF Alive

\* A row that is enqueued waits, and the others do as before.
LEMMA EnqueueWaits ==
    ASSUME SendingInv, NEW row \in TypedRow, Enqueue(row)
    PROVE  \A txn \in Waiting' : txn \in Waiting \/ txn = row.txn
<1> DEFINE m == [txn |-> row.txn, since |-> clock]
<1>1. m \in Message /\ row.user \in Users /\ m.txn = row.txn
    BY DEF Message, TypedRow, SendingInv, StreamTypeOK
<1>2. ASSUME NEW u \in Users, NEW i \in DOMAIN queue'[u]
      PROVE  \/ queue'[u][i].txn = row.txn
             \/ i \in DOMAIN queue[u] /\ queue'[u][i] = queue[u][i]
    <2>1. queue[u] \in Seq(Message)
        BY DEF SendingInv, StreamTypeOK
    <2>2. CASE u = row.user
        <3>1. queue'[u] = Append(queue[u], m)
            BY <2>2 DEF Enqueue, SendingInv, StreamTypeOK
        <3>2. QED
            BY <1>1, <2>1, <3>1, AppendElements
    <2>3. CASE u # row.user
        BY <2>3 DEF Enqueue, SendingInv, StreamTypeOK
    <2>4. QED
        BY <2>2, <2>3
<1>3. QED
    BY <1>2 DEF Waiting

\* Messages leave the queue, into the topic or for good.
LEMMA DequeueWaits ==
    ASSUME SendingInv, NEW u \in Users, queue[u] # <<>>,
           queue' = [queue EXCEPT ![u] = Tail(@)]
    PROVE  Waiting' \subseteq Waiting /\ Head(queue[u]).txn \in Waiting
<1>1. \A v \in Users : queue[v] \in Seq(Message)
    BY DEF SendingInv, StreamTypeOK
<1>2. Head(queue[u]).txn \in Waiting
    BY <1>1, HeadAndTail DEF Waiting
<1>3. ASSUME NEW v \in Users, NEW i \in DOMAIN queue'[v]
      PROVE  \E j \in DOMAIN queue[v] : queue'[v][i] = queue[v][j]
    <2>1. CASE v = u
        <3>1. queue'[v] = Tail(queue[u])
            BY <2>1 DEF SendingInv, StreamTypeOK
        <3>2. QED
            BY <1>1, <2>1, <3>1, HeadAndTail
    <2>2. CASE v # u
        BY <2>2 DEF SendingInv, StreamTypeOK
    <2>3. QED
        BY <2>1, <2>2
<1>4. QED
    BY <1>2, <1>3 DEF Waiting

LEMMA AcceptWrites ==
    ASSUME topic \in [Users -> Seq(Txn)], NEW u \in Users, NEW txn \in Txn, Accept(u, txn)
    PROVE  \A x \in Written' : x \in Written \/ x = txn
<1>1. ASSUME NEW v \in Users, NEW o \in DOMAIN topic'[v]
      PROVE  topic'[v][o] = txn \/ (o \in DOMAIN topic[v] /\ topic'[v][o] = topic[v][o])
    <2>1. topic[v] \in Seq(Txn)
        OBVIOUS
    <2>2. CASE v = u
        <3>1. topic'[v] = Append(topic[v], txn)
            BY <2>2 DEF Accept
        <3>2. QED
            BY <2>1, <3>1, AppendElements
    <2>3. CASE v # u
        BY <2>3 DEF Accept
    <2>4. QED
        BY <2>2, <2>3
<1>2. QED
    BY <1>1 DEF Written

\* A thread sends the row at the head of its list.
LEMMA SendHands ==
    ASSUME SendingInv, NEW t \in Threads, Send(t)
    PROVE  Head(todo[t]) \in TypedRow /\ Head(todo[t]).txn \in InHands /\ InHands' \subseteq InHands
<1>1. todo[t] \in Seq(TypedRow) /\ todo[t] # <<>>
    BY DEF Send, SendingInv, StreamTypeOK, Rows, TypedRow
<1>2. Head(todo[t]) \in TypedRow
    BY <1>1
<1>3. Head(todo[t]).txn \in InHands
    BY <1>1, HeadAndTail DEF InHands
<1>4. ASSUME NEW s \in Threads, NEW i \in DOMAIN todo'[s]
      PROVE  \E j \in DOMAIN todo[s] : todo'[s][i] = todo[s][j]
    <2>1. CASE s = t
        <3>1. todo'[s] = Tail(todo[t])
            BY <2>1 DEF Send, SendingInv, StreamTypeOK
        <3>2. QED
            BY <1>1, <2>1, <3>1, HeadAndTail
    <2>2. CASE s # t
        BY <2>2 DEF Send, SendingInv, StreamTypeOK
    <2>3. QED
        BY <2>1, <2>2
<1>5. InHands' \subseteq InHands
    BY <1>4 DEF InHands
<1>6. QED
    BY <1>2, <1>3, <1>5

\* A new burst is dated from now on, and its name had no rows.
LEMMA SpikeDated ==
    ASSUME SendingInv, BurstDated,
           NEW t \in Threads, NEW u \in Users, NEW b \in BurstIds, Spike(t, u, b)
    PROVE  BurstDated'
<1>1. PICK rows \in Bursts(u, b, clock) : StartSending(t, rows)
    BY DEF Spike
<1>2. clock \in 0 .. MaxTime /\ clock + Ahead <= MaxAt /\ used' = used \cup {b} /\ b \notin used
    BY Bounds DEF Spike, SendingInv, StreamTypeOK
<1>3. \A i \in DOMAIN rows : rows[i].txn.at \in clock .. clock + Ahead /\ rows[i].txn.burst = b
    BY <1>2, BurstType DEF Bursts, Row
<1>4. \A txn \in Alive' : \/ txn \in Alive
                          \/ txn.burst = b /\ txn.at \in clock .. clock + Ahead
    BY <1>1, <1>3, StartHands DEF Spike
<1> SUFFICES ASSUME NEW c \in BurstIds
             PROVE  \E began \in 0 .. MaxTime : \A txn \in Alive' :
                        txn.burst = c => c \in used' /\ txn.at \in began .. began + Ahead
    BY DEF BurstDated
<1>5. PICK began \in 0 .. MaxTime : \A txn \in Alive :
          txn.burst = c => c \in used /\ txn.at \in began .. began + Ahead
    BY DEF BurstDated
<1>6. CASE c = b
    BY <1>2, <1>4, <1>5, <1>6
<1>7. CASE c # b
    BY <1>2, <1>4, <1>5, <1>7
<1>8. QED
    BY <1>6, <1>7

\* The rows of a live stream's bursts stay dated, wherever they go.
LEMMA DatedNext ==
    ASSUME SendingInv, BurstDated, pc[Main] # "collect", StreamNext
    PROVE  BurstDated'
<1>1. ~CollectEnds /\ \A u \in Users : ~CollectSingle(u) /\ \A b \in BurstIds : ~CollectBurst(u, b)
    BY DEF CollectEnds, CollectSingle, CollectBurst
<1>2. ASSUME NEW u \in Users, Normal(u) PROVE BurstDated'
    <2>1. clock \in 0 .. MaxAt /\ Row(u, clock, NoBurst) \in TypedRow
        BY Bounds, RowType DEF SendingInv, StreamTypeOK
    <2>2. \A txn \in Waiting' : txn \in Waiting \/ txn.burst = NoBurst
        BY <1>2, <2>1, EnqueueWaits DEF Normal, Row
    <2>3. InHands' = InHands /\ Written' = Written /\ used' = used
        BY <1>2 DEF Normal, threadVars, InHands, Written
    <2>4. QED
        BY <2>2, <2>3, NothingNew DEF Alive
<1>3. ASSUME NEW u \in Users, Fraud(u) PROVE BurstDated'
    <2>1. \A txn \in Alive' : txn \in Alive \/ txn.burst = NoBurst
        BY <1>3, Bounds, StartHands DEF Fraud, Row
    <2>2. QED
        BY <1>3, <2>1, NothingNew DEF Fraud
<1>4. ASSUME NEW t \in Threads, Send(t) PROVE BurstDated'
    <2>1. \A txn \in Waiting' : txn \in Waiting \/ txn \in InHands
        BY <1>4, SendHands, EnqueueWaits DEF Send
    <2>2. Written' = Written /\ used' = used
        BY <1>4 DEF Send, bookVars, Written
    <2>3. QED
        BY <1>4, <2>1, <2>2, SendHands, NothingNew DEF Alive
<1>5. ASSUME NEW u \in Users, Deliver(u) PROVE BurstDated'
    <2>1. Waiting' \subseteq Waiting /\ Head(queue[u]).txn \in Waiting
        BY <1>5, DequeueWaits DEF Deliver
    <2>2. \A txn \in Written' : txn \in Written \/ txn = Head(queue[u]).txn
        BY <1>5, QueueType, AcceptWrites DEF Deliver, SendingInv
    <2>3. InHands' = InHands /\ used' = used
        BY <1>5 DEF Deliver, threadVars, bookVars, InHands
    <2>4. QED
        BY <2>1, <2>2, <2>3, NothingNew DEF Alive
<1>6. ASSUME NEW u \in Users, Expire(u) PROVE BurstDated'
    <2>1. Waiting' \subseteq Waiting
        BY <1>6, DequeueWaits DEF Expire
    <2>2. InHands' = InHands /\ Written' = Written /\ used' = used
        BY <1>6 DEF Expire, threadVars, bookVars, InHands, Written
    <2>3. QED
        BY <2>1, <2>2, NothingNew DEF Alive
<1>7. CASE Interrupt \/ Exit
    <2>1. InHands' \subseteq InHands
        <3>1. \A t \in Threads : todo'[t] = todo[t] \/ DOMAIN todo'[t] = {}
            BY <1>7 DEF Interrupt, Exit, SendingInv, StreamTypeOK
        <3>2. QED
            BY <3>1 DEF InHands
    <2>2. Waiting' \subseteq Waiting
        <3>1. \A u \in Users : queue'[u] = queue[u] \/ DOMAIN queue'[u] = {}
            BY <1>7 DEF Interrupt, Exit
        <3>2. QED
            BY <3>1 DEF Waiting
    <2>3. Written' = Written /\ used' = used
        BY <1>7 DEF Interrupt, Exit, bookVars, Written
    <2>4. QED
        BY <2>1, <2>2, <2>3, NothingNew DEF Alive
<1>8. CASE Close \/ Tick \/ \E t \in Threads : FlushReturns(t)
    <2>1. UNCHANGED <<todo, queue, topic, used>>
        BY <1>8 DEF Close, Tick, FlushReturns, threadVars, bookVars
    <2>2. QED
        BY <2>1, NothingNew DEF Alive, InHands, Waiting, Written
<1>9. QED
    BY <1>1, <1>2, <1>3, <1>4, <1>5, <1>6, <1>7, <1>8, SpikeDated DEF StreamNext

-----------------------------------------------------------------------------

\* A range of offsets is finite, and so are a burst's rows in it.
LEMMA BurstFinite ==
    ASSUME NEW u, NEW b, NEW hi \in Nat
    PROVE  IsFiniteSet(BurstUpTo(u, b, hi)) /\ Cardinality(BurstUpTo(u, b, hi)) \in Nat
<1>1. IsFiniteSet(1 .. hi)
    BY FS_Interval
<1>2. BurstUpTo(u, b, hi) \in SUBSET (1 .. hi)
    BY DEF BurstUpTo
<1>3. QED
    BY <1>1, <1>2, FS_Subset, FS_CardinalityType

\* A burst that is whole up to a batch, and was not before it, is over the
\* threshold in the window its first row opened, which the batch updates.
LEMMA BurstCounted ==
    ASSUME BurstFits, QueryInv, BurstDated, NoRowIsLate, step = "planned",
           NEW u \in Users, NEW b \in BurstIds,
           Cardinality(BurstUpTo(u, b, upto[u])) = BurstCount,
           NEW o \in BurstUpTo(u, b, upto[u]), o > done[u]
    PROVE  u \in Touched /\ \E w \in Updated(u) : Count(u, w) > Threshold
<1>1. /\ topic[u] \in Seq(Txn) /\ done[u] \in Nat /\ upto[u] \in Nat
      /\ done[u] <= upto[u] /\ upto[u] <= Len(topic[u]) /\ Len(topic[u]) \in Nat
    BY TypesOf DEF QueryInv
<1>2. \A i \in 1 .. upto[u] : topic[u][i] \in Txn /\ topic[u][i] \in Alive
    BY <1>1 DEF Alive, Written
<1>3. PICK w \in 0 .. MaxTime : \A txn \in Alive :
          txn.burst = b => b \in used /\ txn.at \in w .. w + Ahead
    BY DEF BurstDated
<1>4. w \in Windows /\ w \in Int
    BY Bounds, QueryAssumption DEF Windows
<1>5. \A i \in BurstUpTo(u, b, upto[u]) : i \in 1 .. upto[u] /\ InWindow(topic[u][i], w)
    <2> SUFFICES ASSUME NEW i \in BurstUpTo(u, b, upto[u])
                 PROVE  i \in 1 .. upto[u] /\ InWindow(topic[u][i], w)
        OBVIOUS
    <2>1. i \in 1 .. upto[u] /\ topic[u][i].burst = b
        BY DEF BurstUpTo
    <2>2. topic[u][i].at \in w .. w + Ahead
        BY <1>2, <1>3, <2>1
    <2>3. QED
        BY <1>4, <2>1, <2>2, Bounds, QueryAssumption DEF InWindow, BurstFits
<1>6. o \in NewRows(u, w)
    BY <1>1, <1>5 DEF NewRows, RowsIn
<1>7. Accepts(w)
    BY <1>4, <1>6 DEF NoRowIsLate
<1>8. w \in Updated(u) /\ u \in Touched
    BY <1>4, <1>6, <1>7 DEF Updated, Touched
<1>9. Count(u, w) > Threshold
    <2>1. BurstUpTo(u, b, upto[u]) \in SUBSET RowsIn(u, w, 0, upto[u])
        BY <1>1, <1>5 DEF RowsIn
    <2>2. Cardinality(BurstUpTo(u, b, upto[u])) <= Cardinality(RowsIn(u, w, 0, upto[u]))
        BY <1>1, <2>1, RowsFinite, FS_Subset
    <2>3. Count(u, w) = Real(u, w, upto[u])
        BY <1>4, <1>7, CountIsReal DEF QueryInv
    <2>4. Real(u, w, upto[u]) \in Nat
        BY <1>1, RealGrows
    <2>5. QED
        BY <2>2, <2>3, <2>4, Bounds, QueryAssumption DEF Real, BurstFits
<1>10. QED
    BY <1>8, <1>9

\* The batch that is written has raised the alarm for every burst it completes.
LEMMA WriteAlarms ==
    ASSUME BurstFits, QueryInv, BurstDated, NoRowIsLate, WriteVelocity, AlarmedUpTo(done)
    PROVE  (AlarmedUpTo(done) /\ AlarmedUpTo(upto))'
<1>1. /\ step = "planned" /\ UNCHANGED <<topic, done, upto>>
      /\ alarms' = alarms \cup {u \in Touched : \E w \in Updated(u) : Count(u, w) > Threshold}
    BY DEF WriteVelocity, offsets
<1>2. AlarmedUpTo(done)'
    BY <1>1 DEF AlarmedUpTo, BurstUpTo
<1>3. ASSUME NEW u \in Users, NEW b \in BurstIds,
             Cardinality(BurstUpTo(u, b, upto[u])) = BurstCount
      PROVE  u \in alarms'
    <2>1. CASE \E o \in BurstUpTo(u, b, upto[u]) : o > done[u]
        BY <1>1, <1>3, <2>1, BurstCounted
    <2>2. CASE \A o \in BurstUpTo(u, b, upto[u]) : ~(o > done[u])
        <3>1. done[u] \in Nat /\ upto[u] \in Nat /\ done[u] <= upto[u]
            BY TypesOf DEF QueryInv
        <3>2. BurstUpTo(u, b, upto[u]) = BurstUpTo(u, b, done[u])
            BY <2>2, <3>1 DEF BurstUpTo
        <3>3. u \in alarms
            BY <1>3, <3>2 DEF AlarmedUpTo
        <3>4. QED
            BY <1>1, <3>3
    <2>3. QED
        BY <2>1, <2>2
<1>4. AlarmedUpTo(upto)'
    BY <1>1, <1>3 DEF AlarmedUpTo, BurstUpTo
<1>5. QED
    BY <1>2, <1>4

\* The other steps of the query raise none and complete none.
LEMMA SeenQuery ==
    ASSUME BurstFits, DelaySuffices, QueryInv, LiveInv, SeenInv, mode = "live",
           QueryNext, UNCHANGED streamVars
    PROVE  SeenInv'
<1>1. UNCHANGED <<mode, todo, queue, topic, used>>
    BY QueryLeavesTopic DEF streamVars, clockVars, threadVars, bookVars
<1>2. BurstDated'
    BY <1>1, NothingNew DEF SeenInv, Alive, InHands, Waiting, Written
<1> SUFFICES ASSUME ~split'
             PROVE  AlarmedUpTo(done)' /\ (step' = "written" => AlarmedUpTo(upto)')
    BY <1>2 DEF SeenInv
<1>3. CASE WriteVelocity
    <2>1. ~split /\ NoRowIsLate
        BY <1>3, MarksSuffice DEF WriteVelocity, LiveInv
    <2>2. QED
        BY <1>3, <2>1, WriteAlarms DEF SeenInv
<1>4. CASE CommitBatch
    <2>1. done' = upto /\ upto' = upto /\ alarms' = alarms /\ step = "written" /\ step' = "idle"
          /\ ~split
        BY <1>4 DEF CommitBatch, online
    <2>2. QED
        BY <1>1, <2>1 DEF SeenInv, AlarmedUpTo, BurstUpTo
<1>5. CASE StartQuery \/ PlanBatch \/ QueryEnds
    <2>1. done' = done /\ alarms' = alarms /\ step' # "written"
        BY <1>5 DEF StartQuery, PlanBatch, QueryEnds, offsets, online
    <2>2. split => split'
        BY <1>5, Zenon DEF StartQuery, PlanBatch, QueryEnds
    <2>3. QED
        BY <1>1, <2>1, <2>2 DEF SeenInv, AlarmedUpTo, BurstUpTo
<1>6. QED
    BY <1>3, <1>4, <1>5 DEF QueryNext

\* What the generator does adds nothing to the offsets that are counted.
LEMMA SeenStream ==
    ASSUME SendingInv, QueryInv, LiveInv, SeenInv, mode = "live",
           StreamNext, UNCHANGED queryVars
    PROVE  SeenInv'
<1>1. BurstDated'
    BY DatedNext DEF SeenInv, LiveInv, TimelyInv
<1>2. topic' = topic \/ Grows
    BY QueueType, AcceptGrows, StreamClock DEF Deliver, SendingInv
<1>3. UNCHANGED <<step, done, upto, alarms, split>>
    BY DEF queryVars, offsets, online
<1>4. ASSUME NEW u \in Users, NEW b \in BurstIds
      PROVE  /\ BurstUpTo(u, b, done[u])' = BurstUpTo(u, b, done[u])
             /\ BurstUpTo(u, b, upto[u])' = BurstUpTo(u, b, upto[u])
    <2>1. /\ done[u] \in Nat /\ upto[u] \in Nat /\ Len(topic[u]) \in Nat
          /\ done[u] <= upto[u] /\ upto[u] <= Len(topic[u])
        BY TypesOf DEF QueryInv
    <2>2. \A o \in 1 .. upto[u] : topic'[u][o] = topic[u][o]
        BY <1>2, <2>1 DEF Grows
    <2>3. QED
        BY <1>3, <2>1, <2>2 DEF BurstUpTo
<1>5. (AlarmedUpTo(done) => AlarmedUpTo(done)') /\ (AlarmedUpTo(upto) => AlarmedUpTo(upto)')
    BY <1>3, <1>4 DEF AlarmedUpTo
<1>6. QED
    BY <1>1, <1>3, <1>5 DEF SeenInv

LEMMA SeenInit == Init => SeenInv
<1> SUFFICES ASSUME Init PROVE BurstDated /\ AlarmedUpTo(done) /\ step # "written"
    BY DEF SeenInv
<1>1. Alive = {}
    BY DEF Init, TopicInit, StreamInit, Alive, InHands, Waiting, Written
<1>2. BurstDated
    BY <1>1, Bounds DEF BurstDated
<1>3. ASSUME NEW u \in Users, NEW b \in BurstIds
      PROVE  Cardinality(BurstUpTo(u, b, done[u])) = 0
    <2>1. BurstUpTo(u, b, done[u]) = {}
        BY <1>3 DEF Init, QueryInit, BurstUpTo
    <2>2. QED
        BY <2>1, FS_EmptySet, Zenon
<1>4. QED
    BY <1>2, <1>3, Bounds DEF Init, QueryInit, AlarmedUpTo

LEMMA SeenNext ==
    ASSUME BurstFits, DelaySuffices, SendingInv, QueryInv, LiveInv, SeenInv, [Next]_vars
    PROVE  SeenInv'
<1>1. CASE mode # "live"
    <2>1. mode' = mode
        BY StreamClock DEF Next, vars, streamVars, clockVars
    <2>2. QED
        BY <1>1, <2>1 DEF SeenInv
<1>2. CASE mode = "live" /\ StreamNext /\ UNCHANGED queryVars
    BY <1>2, SeenStream
<1>3. CASE mode = "live" /\ QueryNext /\ UNCHANGED streamVars
    BY <1>3, SeenQuery
<1>4. CASE UNCHANGED vars
    BY <1>4 DEF vars, streamVars, queryVars, clockVars, threadVars, bookVars, offsets, online,
                SeenInv, BurstDated, Alive, InHands, Waiting, Written, AlarmedUpTo, BurstUpTo
<1>5. QED
    BY <1>1, <1>2, <1>3, <1>4 DEF Next

\* "15-min sliding window sees velocity > 5" (generate_velocity_spike): with a
\* delay that suffices and bursts shorter than a window, a live burst whose rows
\* are all committed has raised the alarm for its user, through any crash and any
\* delay, while no batch was split.
THEOREM BurstsAreSeen ==
    ASSUME DelaySuffices, BurstFits
    PROVE  Spec => []BurstIsSeen
<1>1. SendingInv /\ QueryInv /\ LiveInv /\ SeenInv /\ [Next]_vars => (LiveInv /\ SeenInv)'
    BY LiveInvNext, SeenNext
<1>2. SeenInv => BurstIsSeen
    BY DEF SeenInv, BurstIsSeen, BurstCommitted, Committed, AlarmedUpTo, BurstUpTo
<1>3. Spec => []QueryInv
    BY PipelineIsAQuery, QueryInvariant, PTL
<1>4. QED
    BY <1>1, <1>2, <1>3, LiveInvInit, SeenInit, SendingInvariant, PTL DEF Spec

=============================================================================
