---------------------------- MODULE FeatureEngine ----------------------------
(***************************************************************************)
(* The main streaming query of stream_processing/feature_engine.py: Spark  *)
(* hands process_batch one micro-batch of the topic after another, and     *)
(* each batch reads the user's last location, is scored row by row, then   *)
(* written to Redis, then to Snowflake or into the S3 buffer, and only     *)
(* then committed to Spark's checkpoint.  The process can die between any  *)
(* two of these steps, and a batch that was planned and not committed is   *)
(* run again, with the same offsets, by the process that comes after it.   *)
(*                                                                         *)
(* One user is modelled: every key of Redis and every comparison of        *)
(* scoring.py is per user.  A place stands for the points within 3000 km   *)
(* and jet speed of each other, so the geo hard rule fires exactly between *)
(* two known places.                                                       *)
(***************************************************************************)
EXTENDS Integers, Sequences, FiniteSets

CONSTANTS
    Topics,         \* the topics of an instance: sequences of transactions
    Home,           \* where the user is: any other known place is a fraud's
    Nowhere,        \* the place of a transaction without coordinates
    Modes,          \* FEATURE_WRITE_MODE: among "direct" and "snowpipe"
    MaxBatch,       \* maxOffsetsPerTrigger
    FlushEvery,     \* FLUSH_EVERY_N_BATCHES
    FlushMaxRows,   \* FLUSH_MAX_ROWS
    MaxStarts       \* bound: how often the engine is started

Txn == [ts : Nat, place : STRING, ok : BOOLEAN]

ASSUME EngineAssumption ==
    /\ Topics \subseteq Seq(Txn)
    /\ Home \in STRING /\ Nowhere \in STRING /\ Home # Nowhere
    /\ Modes \subseteq {"direct", "snowpipe"}
    /\ MaxBatch \in Nat \ {0}
    /\ FlushEvery \in Nat \ {0}
    /\ FlushMaxRows \in Nat \ {0}
    /\ MaxStarts \in Nat

VARIABLES
    topic,      \* the transactions, in the order Kafka delivers them
    mode,       \* the write mode of the deployment
    pc,         \* where the process is, or "down"
    starts,     \* how often it was started
    committed,  \* checkpoint: the offset every committed batch ends before
    planned,    \* checkpoint: the end of the batch that was planned last
    rows,       \* the rows of the batch being processed
    location,   \* Redis user:{id}:location
    latest,     \* Redis user:{id}:features
    buffer,     \* S3FeatureWriter._buffer
    since,      \* S3FeatureWriter._batches_since_flush
    stored,     \* the inserts and Parquet files that were made, as sets of rows
    lost,       \* history: the buffered rows that died with a process
    blind       \* history: a fraud's row was scored without a baseline

store == <<topic, mode, starts, blind>>
redis == <<location, latest>>
sinks == <<buffer, since, stored, lost>>
vars == <<store, pc, committed, planned, rows, redis, sinks>>

\* The trusted location a user's first day left in Redis; and no location.
Baseline == [ts |-> 0, place |-> Home]
NoLocation == [ts |-> 0, place |-> Nowhere]

Init ==
    /\ topic \in Topics
    /\ mode \in Modes
    /\ pc = "down"
    /\ starts = 0
    /\ committed = 0
    /\ planned = 0
    /\ rows = {}
    /\ location = Baseline
    /\ latest = 0
    /\ buffer = {}
    /\ since = 0
    /\ stored = {}
    /\ lost = {}
    /\ blind = FALSE

-----------------------------------------------------------------------------
(* Scoring and the sinks' rules. *)

Known(place) == place # Nowhere

\* geo_hard_rule of the distance and the speed between two places.
Jump(from, to) == from # to

\* build_feature_row: the geo hard rule behind the ordering guard.
Suspect(t, loc) ==
    /\ Known(t.place) /\ Known(loc.place)
    /\ loc.ts < t.ts
    /\ Jump(loc.place, t.place)

\* The rows of offsets lo .. hi that pass validate_feature_row.  A snapshot_id
\* is made anew each time a transaction is computed: a row bears its start.
Computed(lo, hi, loc) ==
    {[off |-> o, start |-> starts, suspect |-> Suspect(topic[o], loc)] :
        o \in {x \in lo .. hi : topic[x].ok}}

\* Mutated form: of a batch the first row is kept, whatever its time.
Newest_First(r) == \A s \in rows : r.off <= s.off

\* write_batch: the latest transaction of the batch; the first of equals.
Newest(r) ==
    \A s \in rows : \/ topic[s.off].ts < topic[r.off].ts
                    \/ topic[s.off].ts = topic[r.off].ts /\ r.off <= s.off

AllHome(set) == \A r \in set : topic[r.off].place = Home

ShouldFlush(n, buf) == n >= FlushEvery \/ Cardinality(buf) >= FlushMaxRows

-----------------------------------------------------------------------------
(* The process. *)

\* run: a new process, whose buffer is empty.
Start ==
    /\ pc = "down"
    /\ starts < MaxStarts
    /\ starts' = starts + 1
    /\ pc' = "idle"
    /\ UNCHANGED <<topic, mode, blind, committed, planned, rows, redis, sinks>>

\* A key of Redis is gone: 24 hours without a write to it, or evicted.
Forget ==
    /\ \/ location' = NoLocation /\ UNCHANGED latest
       \/ latest' = 0 /\ UNCHANGED location
    /\ redis' # redis
    /\ UNCHANGED <<store, pc, committed, planned, rows, sinks>>

\* get_last_locations_batch: a read that fails is a user without a location.
LastLocations == {location, NoLocation}

\* A trigger: Spark runs a planned batch again, or plans the next one, and
\* process_batch reads Redis once and scores every row against what it read.
Trigger ==
    /\ pc = "idle"
    /\ \E end \in committed + 1 .. Len(topic), loc \in LastLocations :
          /\ IF planned > committed THEN end = planned ELSE end <= committed + MaxBatch
          /\ planned' = end
          /\ rows' = Computed(committed + 1, end, loc)
          /\ blind' = (blind \/ (loc = NoLocation /\ ~AllHome(rows')))
    /\ pc' = "computed"
    /\ UNCHANGED <<topic, mode, starts, committed, redis, sinks>>

\* Mutated form: without the poisoning guard.
WriteOnline_Unguarded ==
    /\ pc = "computed"
    /\ IF rows = {}
         THEN UNCHANGED redis
         ELSE \E r \in rows :
                /\ Newest(r)
                /\ latest' = topic[r.off].ts
                /\ location' = [ts |-> topic[r.off].ts, place |-> topic[r.off].place]
    /\ pc' = "online"
    /\ UNCHANGED <<store, committed, planned, rows, sinks>>

\* RedisFeatureWriter.write_batch: one entry per user, whatever Redis held; a
\* suspect location does not become the baseline.
WriteOnline ==
    /\ pc = "computed"
    /\ IF rows = {}
         THEN UNCHANGED redis
         ELSE \E r \in rows :
                /\ Newest(r)
                /\ latest' = topic[r.off].ts
                /\ location' = IF r.suspect THEN location
                               ELSE [ts |-> topic[r.off].ts, place |-> topic[r.off].place]
    /\ pc' = "online"
    /\ UNCHANGED <<store, committed, planned, rows, sinks>>

\* Mutated form: a failed insert is logged, and swallowed.
Insert_Swallowed ==
    /\ pc = "online"
    /\ mode = "direct"
    /\ stored' \in {stored, stored \cup ({rows} \ {{}})}
    /\ pc' = "done"
    /\ UNCHANGED <<store, committed, planned, rows, redis, buffer, since, lost>>

\* SnowflakeFeatureWriter.write_batch: one transaction for the batch.
Insert ==
    /\ pc = "online"
    /\ mode = "direct"
    /\ stored' = stored \cup ({rows} \ {{}})
    /\ pc' = "done"
    /\ UNCHANGED <<store, committed, planned, rows, redis, buffer, since, lost>>

\* S3FeatureWriter.add_batch
AddBatch ==
    /\ pc = "online"
    /\ mode = "snowpipe"
    /\ buffer' = buffer \cup rows
    /\ since' = since + 1
    /\ pc' = IF ShouldFlush(since', buffer') THEN "full" ELSE "done"
    /\ UNCHANGED <<store, committed, planned, rows, redis, stored, lost>>

\* Mutated form: the buffer is not emptied after a file is made of it.
Emptied_Kept == buffer' = buffer /\ since' = 0

Emptied == buffer' = {} /\ since' = 0

\* S3FeatureWriter.flush: nothing at all for an empty buffer.
FlushBuffer ==
    IF buffer = {}
      THEN UNCHANGED <<buffer, since, stored>>
      ELSE stored' = stored \cup {buffer} /\ Emptied

Flush ==
    /\ pc = "full"
    /\ FlushBuffer
    /\ pc' = "done"
    /\ UNCHANGED <<store, committed, planned, rows, redis, lost>>

\* process_batch returned: Spark writes the batch into its commit log.
Commit ==
    /\ pc = "done"
    /\ committed' = planned
    /\ pc' = "idle"
    /\ UNCHANGED <<store, planned, rows, redis, sinks>>

\* Mutated form: the sinks are closed without a last flush.
Stop_Unflushed ==
    /\ pc \in {"idle", "computed", "done"}
    /\ buffer' = {}
    /\ since' = 0
    /\ pc' = "down"
    /\ UNCHANGED <<store, committed, planned, rows, redis, stored, lost>>

\* KeyboardInterrupt: stop() cancels the batch under way if Spark still works on
\* it, or waits for its writes, and it may end without its commit; then every
\* sink is flushed and closed.
Stop ==
    /\ pc \in {"idle", "computed", "done"}
    /\ FlushBuffer
    /\ pc' = "down"
    /\ UNCHANGED <<store, committed, planned, rows, redis, lost>>

\* The process ends without flushing: killed, or because a query failed, the
\* velocity query's failure included (awaitAnyTermination).
Die ==
    /\ pc # "down"
    /\ pc' = "down"
    /\ buffer' = {}
    /\ since' = 0
    /\ lost' = lost \cup buffer
    /\ UNCHANGED <<store, committed, planned, rows, redis, stored>>

\* A write to Snowflake or S3 raises although it took effect: the query fails.
DieAfterWrite ==
    /\ \/ pc = "online" /\ mode = "direct" /\ stored' = stored \cup ({rows} \ {{}})
       \/ pc = "full" /\ buffer # {} /\ stored' = stored \cup {buffer}
    /\ pc' = "down"
    /\ buffer' = {}
    /\ since' = 0
    /\ UNCHANGED <<store, committed, planned, rows, redis, lost>>

Next ==
    \/ Start \/ Forget \/ Trigger \/ WriteOnline \/ Insert \/ AddBatch \/ Flush \/ Commit
    \/ Stop \/ Die \/ DieAfterWrite

Spec == Init /\ [][Next]_vars

\* Spark triggers batch after batch and process_batch runs through; nobody is
\* obliged to start the engine again.
Processing == Trigger \/ WriteOnline \/ Insert \/ AddBatch \/ Flush \/ Commit

FairSpec == Spec /\ WF_vars(Processing)

-----------------------------------------------------------------------------
(* Properties. *)

Row == [off : DOMAIN topic, start : Nat, suspect : BOOLEAN]

\* Every variable has its type.
TypeOK ==
    /\ topic \in Topics /\ mode \in Modes
    /\ pc \in {"down", "idle", "computed", "online", "full", "done"}
    /\ starts \in Nat
    /\ committed \in 0 .. Len(topic) /\ planned \in committed .. Len(topic)
    /\ rows \subseteq Row /\ buffer \subseteq Row /\ lost \subseteq Row
    /\ stored \subseteq SUBSET Row
    /\ location \in [ts : Nat, place : STRING]
    /\ latest \in Nat
    /\ since \in Nat
    /\ blind \in BOOLEAN

Stored == UNION stored
Has(set, o) == \E r \in set : r.off = o

\* Offline history: every valid transaction of a committed batch has a row in
\* Snowflake's table or files.  In snowpipe mode its rows may still be in the
\* buffer, and those a dead process took with it are gone; nothing else is.
CommittedRowsKept ==
    \A o \in 1 .. committed :
        topic[o].ok =>
            \/ Has(Stored, o)
            \/ mode = "snowpipe" /\ Has(buffer \cup lost, o)

\* "Snowpipe processes each file exactly once" (S3FeatureWriter.flush): so a
\* snapshot_id reaches the table once only if no two files, and no file and the
\* buffer between two batches, share a row.
SnapshotStoredOnce ==
    /\ \A f, g \in stored : f # g => f \cap g = {}
    /\ pc = "idle" => buffer \cap Stored = {}

\* The events arrive in the order of their times, and all have coordinates.
Orderly ==
    /\ \A i, j \in DOMAIN topic : i < j => topic[i].ts < topic[j].ts
    /\ \A i \in DOMAIN topic : topic[i].ts > 0 /\ Known(topic[i].place)

\* "Writes latest computed features per user to Redis": in an orderly topic the
\* agent never reads an older snapshot than one that history already holds,
\* though it may find none.
OnlineIsNewest ==
    Orderly /\ latest # 0 => \A r \in Stored \cup buffer : topic[r.off].ts <= latest

\* The poisoning guard, end to end: "one fraud can't manufacture a chain of
\* false flags" (docs/GEO_FLAGGING_INVESTIGATION.md).  In an orderly topic no
\* transaction made at home is ever suspect, through crashes, replays and keys
\* that expire, as long as no fraud's was scored without a baseline.
NoFalseFlags ==
    Orderly /\ ~blind =>
        \A r \in Stored \cup buffer : topic[r.off].place = Home => ~r.suspect

\* Every jump is caught when it is first computed.  (A replay can miss it: the
\* baseline may by then be newer than the jump.)
JumpsAreFlagged ==
    Orderly /\ ~blind =>
        \A r \in Stored \cup buffer :
            (topic[r.off].place # Home /\ r.start = 1) => r.suspect

\* The same promise of the documents without the proviso on the topic, ...
NoFalseFlagChain ==
    ~blind => \A r \in Stored \cup buffer : topic[r.off].place = Home => ~r.suspect

\* ... and without the proviso on the baseline.
NoBlindFlagChain ==
    Orderly => \A r \in Stored \cup buffer : topic[r.off].place = Home => ~r.suspect

\* In direct mode all the history is written in the end, unless the engine is
\* down for good.
HistoryCompletes ==
    mode = "direct" =>
        \/ <>[](pc = "down")
        \/ <>(\A o \in DOMAIN topic : topic[o].ok => Has(Stored, o))
=============================================================================
