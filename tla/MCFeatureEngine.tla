--------------------------- MODULE MCFeatureEngine ---------------------------
(***************************************************************************)
(* Instances of FeatureEngine: topics of four transactions, so that two    *)
(* batches of two or four of one come about, with a fraud's jump (Away) at *)
(* every position that matters, a corrupt row and a row without            *)
(* coordinates.                                                            *)
(***************************************************************************)
EXTENDS FeatureEngine

Away == "away"

T(ts, place) == [ts |-> ts, place |-> place, ok |-> TRUE]
Corrupt(ts, place) == [ts |-> ts, place |-> place, ok |-> FALSE]

OrderlyTopics == {
    <<T(1, Home), T(2, Away), T(3, Home), T(4, Away)>>,
    <<T(1, Away), T(2, Away), T(3, Home), T(4, Home)>>,
    <<T(1, Home), Corrupt(2, Away), Corrupt(3, Home), T(4, Home)>> }

\* The backfill spreads event times at random over 30 days.
BackfillTopics == {
    <<T(1, Home), T(3, Home), T(2, Away), T(4, Home)>>,
    <<T(3, Nowhere), T(2, Home), T(3, Away), T(1, Home)>> }

AllTopics == OrderlyTopics \cup BackfillTopics
BothModes == {"direct", "snowpipe"}
=============================================================================
