----------------------------- MODULE FeatureReplay -----------------------------
(***************************************************************************)
(* Loads of feature snapshots into the warehouse (db/replay.py): a file is *)
(* copied into the staging table, a MERGE folds the staged rows into the   *)
(* fact table by transaction, the loader truncates the staging table.      *)
(* Rows are [txn, at]: the transaction and when its features were computed.*)
(* Only the MERGE is code of the repository; the loader around it is the   *)
(* one its docstring and docs/REPLAY_STRATEGY.md describe.                 *)
(***************************************************************************)
EXTENDS Naturals, Sequences

CONSTANTS
    Txns,   \* transactions
    Files   \* what the engine wrote, one set of rows per file, in order

ASSUME FilesAssumption == Files \in Seq(SUBSET [txn : Txns, at : Nat])

VARIABLES
    copier,     \* who copies files into staging: "loader", or "snowpipe" when it likes
    next,       \* the file that is copied next
    staged,     \* the rows of STG_FEATURE_SNAPSHOTS
    fact,       \* t -> the computed_at of each of its rows of FACT_FEATURE_SNAPSHOTS
    appended,   \* t -> how many rows the COPY of before had appended (history)
    loader      \* what the loader does next

replayVars == <<copier, next, staged, fact, appended, loader>>

\* "Historical duplicates are not retro-deduped": a transaction may have
\* several rows, of computations before all files.
ReplayInit ==
    /\ copier \in {"loader", "snowpipe"}
    /\ next = 1
    /\ staged = {}
    /\ appended \in [Txns -> 0 .. 2]
    /\ fact = [t \in Txns |-> [i \in 1 .. appended[t] |-> 0]]
    /\ loader = "load"

CopyFile ==
    /\ next <= Len(Files)
    /\ staged' = staged \cup Files[next]
    /\ next' = next + 1
    /\ UNCHANGED <<copier, fact, appended>>

\* Step 1: COPY into staging.
Copy == copier = "loader" /\ loader = "load" /\ CopyFile /\ loader' = "merge"

\* Step 1 as Snowpipe does it, without the loader, which merges what it finds.
Snowpipe == copier = "snowpipe" /\ CopyFile /\ UNCHANGED loader
Wake == copier = "snowpipe" /\ loader = "load" /\ loader' = "merge"
        /\ UNCHANGED <<copier, next, staged, fact, appended>>

StagedAt(t) == {row.at : row \in {x \in staged : x.txn = t}}

\* Mutated form: ORDER BY computed_at without DESC.
IsKept_Oldest(t, at) == at \in StagedAt(t) /\ \A other \in StagedAt(t) : other >= at

\* QUALIFY ROW_NUMBER() ... ORDER BY computed_at DESC = 1: one row per key.
IsKept(t, at) == at \in StagedAt(t) /\ \A other \in StagedAt(t) : other <= at

\* Mutated form: the rows are appended, as the COPY of before did.
Upserted_Appends(rows, at) == Append(rows, at)

\* WHEN MATCHED updates every row of the key; WHEN NOT MATCHED inserts one.
Upserted(rows, at) == IF rows = <<>> THEN <<at>> ELSE [i \in DOMAIN rows |-> at]

MergeEffect ==
    \E kept \in [{row.txn : row \in staged} -> {row.at : row \in staged}] :
        /\ \A t \in DOMAIN kept : IsKept(t, kept[t])
        /\ fact' = [t \in Txns |-> IF t \in DOMAIN kept THEN Upserted(fact[t], kept[t])
                                  ELSE fact[t]]

\* Step 2: run_merge, one statement.
Merge ==
    /\ loader = "merge"
    /\ MergeEffect
    /\ loader' = "truncate"
    /\ UNCHANGED <<copier, next, staged, appended>>

\* run_merge raises, before the statement took effect or after it: the staged
\* rows stay for the retry.
MergeRaises ==
    /\ loader = "merge"
    /\ MergeEffect \/ UNCHANGED fact
    /\ loader' = "down"
    /\ UNCHANGED <<copier, next, staged, appended>>

\* Step 3: TRUNCATE, "after a successful MERGE".
Truncate ==
    /\ loader = "truncate"
    /\ staged' = {}
    /\ loader' = "load"
    /\ UNCHANGED <<copier, next, fact, appended>>

\* The loader dies before its next statement, or once that took effect.
LoaderDies ==
    /\ loader \in {"load", "truncate"}
    /\ loader' = "down"
    /\ \/ UNCHANGED <<next, staged>>
       \/ loader = "load" /\ copier = "loader" /\ next <= Len(Files)
          /\ staged' = staged \cup Files[next] /\ next' = next + 1
       \/ loader = "truncate" /\ staged' = {} /\ UNCHANGED next
    /\ UNCHANGED <<copier, fact, appended>>

\* It comes back with a load, or with what is staged.
LoaderRestarts ==
    /\ loader = "down"
    /\ loader' \in {"load", "merge"}
    /\ UNCHANGED <<copier, next, staged, fact, appended>>

-----------------------------------------------------------------------------

LoaderStates == {"load", "merge", "truncate", "down"}

ReplayTypeOK ==
    /\ copier \in {"loader", "snowpipe"}
    /\ next \in 1 .. Len(Files) + 1
    /\ staged \subseteq [txn : Txns, at : Nat]
    /\ fact \in [Txns -> Seq(Nat)]
    /\ appended \in [Txns -> Nat]
    /\ loader \in LoaderStates

\* Every row of the row's transaction in the fact table is as new as it.
Folded(row) ==
    fact[row.txn] # <<>> /\ \A j \in DOMAIN fact[row.txn] : row.at <= fact[row.txn][j]

\* "reprocessing the same Kafka offsets updates the existing row instead of
\* appending a duplicate": whatever is staged, merged and merged again, a
\* transaction has one row, or the ones it had before this path existed.
OneRowPerTransaction ==
    \A t \in Txns : Len(fact[t]) \in {appended[t]} \cup (IF appended[t] = 0 THEN {1} ELSE {})

\* "a failed merge leaves the staged data for retry", "latest wins": every row
\* copied so far is in the fact table, itself or a newer one of its
\* transaction, or still staged - of a loader that owns both ends.
NothingLost ==
    \A i \in 1 .. next - 1 : \A row \in Files[i] : row \in staged \/ Folded(row)

LatestIsKept == copier = "loader" => NothingLost

\* Nothing in the repository keeps Snowpipe, which docs/REPLAY_STRATEGY.md names
\* beside COPY, from copying between the MERGE and the TRUNCATE.
NothingLostToSnowpipe == copier = "snowpipe" => NothingLost
=============================================================================
