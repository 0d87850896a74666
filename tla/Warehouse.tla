------------------------------- MODULE Warehouse -------------------------------
(***************************************************************************)
(* The FEATURES schema while it is migrated and loaded: there is a staging *)
(* table to copy into once V003 ran, and a MERGE that names every column   *)
(* of the contract works once V001 ran.                                    *)
(***************************************************************************)
EXTENDS SchemaMigrations, FeatureReplay

vars == <<schemaVars, replayVars>>

Init == SchemaInit /\ ReplayInit

\* The staging table is there; the MERGE's columns are.
CanStage == Staging \in tables
CanMerge == CanStage /\ GroundTruth \subseteq columns

\* The MERGE does not compile and raises.
MergeRefused ==
    /\ ~CanMerge /\ loader = "merge"
    /\ loader' = "down"
    /\ UNCHANGED <<copier, next, staged, fact, appended>>

ReplayNext ==
    \/ CanStage /\ (Copy \/ Snowpipe \/ LoaderDies \/ Truncate)
    \/ CanMerge /\ (Merge \/ MergeRaises)
    \/ MergeRefused
    \/ Wake \/ LoaderRestarts

Next ==
    \/ SchemaNext /\ UNCHANGED replayVars
    \/ ReplayNext /\ UNCHANGED schemaVars

Spec == Init /\ [][Next]_vars

-----------------------------------------------------------------------------

TypeOK == SchemaTypeOK /\ ReplayTypeOK
=============================================================================
