---------------------------- MODULE VelocityQuery ----------------------------
(***************************************************************************)
(* The velocity query (stream_processing/velocity_engine.py, and merged    *)
(* into feature_engine.py): how many transactions each user made in every  *)
(* sliding window of event time, written to Redis user:{id}:velocity.      *)
(*                                                                         *)
(* Of Spark's execution the model keeps what the query is exposed to.  A   *)
(* micro-batch is planned (its end offsets are logged), its updated        *)
(* windows are handed to the sink, then its state and its completion are   *)
(* committed; a batch that was planned and not committed is run again with *)
(* the same offsets, from the state the last committed one left.  A window *)
(* that ended at or before the watermark takes no more rows and loses its  *)
(* state; the watermark rows are late for is the one of the batch before.  *)
(***************************************************************************)
EXTENDS TransactionTopic

CONSTANTS
    WindowLen,      \* PRIMARY_WINDOW_DURATION, in slides
    Delay,          \* WATERMARK_DELAY
    Threshold,      \* VELOCITY_FLAG_THRESHOLD
    MaxOffsets,     \* maxOffsetsPerTrigger
    MaxStops        \* bound: how often the query ends

ASSUME QueryAssumption ==
    /\ IsFiniteSet(Users)
    /\ WindowLen \in Nat \ {0}
    /\ Delay \in Nat
    /\ Threshold \in Nat
    /\ MaxOffsets \in Nat \ {0}
    /\ MaxStops \in Nat

VARIABLES
    step,       \* where the query is, or "down"
    stops,      \* how often it has ended
    planned,    \* checkpoint: a batch was planned and not committed
    done,       \* checkpoint: the end offsets of the last committed batch
    upto,       \* checkpoint: the end offsets of the batch planned last
    counts,     \* state store: the rows counted, per user and window
    lateMark,   \* the watermark rows are late for
    evictMark,  \* the watermark state is dropped for
    velocity,   \* Redis user:{id}:velocity
    alarms,     \* history: the users an update over the threshold was made for
    split       \* history: a batch has left rows of the topic to the next

offsets == <<planned, done, upto>>
state == <<counts, lateMark, evictMark>>
online == <<velocity, alarms>>
queryVars == <<step, stops, offsets, state, online, split>>

\* A window is named by its start.
Windows == 1 - WindowLen .. MaxAt

NoVelocity == [start |-> 0, n |-> 0]

QueryInit ==
    /\ step = "down"
    /\ stops = 0
    /\ planned = FALSE
    /\ done = [u \in Users |-> 0]
    /\ upto = [u \in Users |-> 0]
    /\ counts = [u \in Users |-> [w \in Windows |-> 0]]
    /\ lateMark = 0
    /\ evictMark = 0
    /\ velocity = [u \in Users |-> NoVelocity]
    /\ alarms = {}
    /\ split = FALSE

-----------------------------------------------------------------------------
(* Windows. *)

\* F.window: the windows of a row are those that start in the WindowLen slides
\* up to it; the end of a window is not part of it.
InWindow(txn, w) == txn.at \in w .. w + WindowLen - 1

\* The rows of u after offset lo and up to hi that fall into window w.
RowsIn(u, w, lo, hi) == {o \in lo + 1 .. hi : InWindow(topic[u][o], w)}

\* Mutated form: a window takes rows until the watermark reaches its start.
Accepts_Early(w) == w > lateMark

\* A window takes rows until the watermark reaches its end.
Accepts(w) == w + WindowLen > lateMark

NewRows(u, w) == RowsIn(u, w, done[u], upto[u])

\* count("*") of the window, the batch under way included.
Count(u, w) == counts[u][w] + Cardinality(NewRows(u, w))

\* Update mode: the windows of u that the batch changed, one row each.
Updated(u) == {w \in Windows : Accepts(w) /\ NewRows(u, w) # {}}
Touched == {u \in Users : Updated(u) # {}}

-----------------------------------------------------------------------------
(* The query. *)

StartQuery ==
    /\ step = "down"
    /\ step' = "idle"
    /\ UNCHANGED <<topic, stops, offsets, state, online, split>>

Backlog(ends) == UNION {{u} \X (done[u] + 1 .. ends[u]) : u \in Users}
Latest == [u \in Users |-> Len(topic[u])]
Overfull == Cardinality(Backlog(Latest)) > MaxOffsets

\* Where a new batch may end: at everything there is or, when that is more than
\* the limit, at as much of it, of whatever partitions.
BatchEnds ==
    IF ~Overfull
      THEN {Latest}
      ELSE {ends \in [Users -> UNION {done[u] .. Len(topic[u]) : u \in Users}] :
              /\ \A u \in Users : ends[u] \in done[u] .. Len(topic[u])
              /\ Cardinality(Backlog(ends)) = MaxOffsets}

\* A trigger: the planned batch again, or a new one, without rows if only the
\* watermark has moved.
PlanBatch ==
    /\ step = "idle"
    /\ IF planned
         THEN UNCHANGED <<upto, split>>
         ELSE /\ Backlog(Latest) # {} \/ lateMark # evictMark
              /\ upto' \in BatchEnds
              /\ split' = (split \/ Overfull)
    /\ planned' = TRUE
    /\ step' = "planned"
    /\ UNCHANGED <<topic, stops, done, state, online>>

\* The rows of a user come in any order and have one key: the last one stays.
LastWritten(u, w) == w \in Updated(u)

\* process_batch, write_velocity_batch: one pipelined transaction.
WriteVelocity ==
    /\ step = "planned"
    /\ \E last \in [Touched -> UNION {Updated(u) : u \in Touched}] :
         /\ \A u \in Touched : LastWritten(u, last[u])
         /\ velocity' = [u \in Users |->
                IF u \in Touched THEN [start |-> last[u], n |-> Count(u, last[u])]
                ELSE velocity[u]]
    /\ alarms' = alarms \cup
            {u \in Touched : \E w \in Updated(u) : Count(u, w) > Threshold}
    /\ step' = "written"
    /\ UNCHANGED <<topic, stops, offsets, state, split>>

\* What the watermark may advance to: the event times of the batch, less the
\* delay, and where it was.
Marks == {topic[r[1]][r[2]].at - Delay : r \in Backlog(upto)} \cup {evictMark}

\* The state of windows that ended is dropped.
NewCounts ==
    [u \in Users |-> [w \in Windows |->
        IF w + WindowLen <= evictMark THEN 0
        ELSE IF Accepts(w) THEN Count(u, w) ELSE counts[u][w]]]

CommitBatch ==
    /\ step = "written"
    /\ counts' = NewCounts
    /\ lateMark' = evictMark
    /\ evictMark' \in Marks /\ \A m \in Marks : m <= evictMark'
    /\ done' = upto
    /\ planned' = FALSE
    /\ step' = "idle"
    /\ UNCHANGED <<topic, stops, upto, online, split>>

\* Mutated form: the counts of a batch survive it although it was not committed.
QueryEnds_KeepsState ==
    /\ step # "down"
    /\ stops < MaxStops
    /\ stops' = stops + 1
    /\ step' = "down"
    /\ counts' = IF step = "written" THEN NewCounts ELSE counts
    /\ UNCHANGED <<topic, offsets, lateMark, evictMark, online, split>>

\* Ctrl+C, a kill, or a batch that fails, in this query or in the main one.
QueryEnds ==
    /\ step # "down"
    /\ stops < MaxStops
    /\ stops' = stops + 1
    /\ step' = "down"
    /\ UNCHANGED <<topic, offsets, state, online, split>>

QueryNext ==
    StartQuery \/ PlanBatch \/ WriteVelocity \/ CommitBatch \/ QueryEnds

\* The query beside a producer of any transactions.
Produce ==
    /\ \E u \in Users, txn \in Txn : Accept(u, txn)
    /\ UNCHANGED queryVars

QuerySpec == TopicInit /\ QueryInit /\ [][QueryNext \/ Produce]_<<topic, queryVars>>

-----------------------------------------------------------------------------
(* Properties. *)

Counter == [start : Windows \cup {0}, n : Nat]

\* Every variable of the query has its type.
QueryTypeOK ==
    /\ topic \in [Users -> Seq(Txn)]
    /\ step \in {"down", "idle", "planned", "written"}
    /\ stops \in 0 .. MaxStops
    /\ planned \in BOOLEAN
    /\ done \in [Users -> Nat] /\ upto \in [Users -> Nat]
    /\ \A u \in Users : done[u] <= upto[u] /\ upto[u] <= Len(topic[u])
    /\ counts \in [Users -> [Windows -> Nat]]
    /\ lateMark \in Int /\ evictMark \in Int
    /\ velocity \in [Users -> Counter]
    /\ alarms \subseteq Users
    /\ split \in BOOLEAN

Real(u, w, hi) == Cardinality(RowsIn(u, w, 0, hi))

\* Through every crash and replay a window that is open has counted each of its
\* committed rows, and each of them once.
OpenWindowsExact ==
    \A u \in Users, w \in Windows :
        Accepts(w) => counts[u][w] = Real(u, w, done[u])

\* What the agent reads was earned: the stored count is never more than the
\* transactions the user really made in the stored window, however often a batch
\* is run again ("which would inflate the velocity count ... falsely flagging a
\* user", transaction_stream_generator.py).
FlagIsEarned ==
    \A u \in Users : velocity[u].n <= Real(u, velocity[u].start, upto[u])

\* A batch loses no row to the watermark: all of its windows still take it.
NoRowIsLate ==
    step = "planned" =>
        \A u \in Users, w \in Windows : NewRows(u, w) # {} => Accepts(w)
=============================================================================
