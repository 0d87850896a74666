---------------------------- MODULE StreamPipeline ----------------------------
(***************************************************************************)
(* The generator and the velocity query around the topic: what the query   *)
(* makes of the transactions this generator sends, at the times it sends   *)
(* them.                                                                   *)
(***************************************************************************)
EXTENDS TransactionStream, VelocityQuery

vars == <<topic, streamVars, queryVars>>

Init == TopicInit /\ StreamInit /\ QueryInit

Next ==
    \/ StreamNext /\ UNCHANGED queryVars
    \/ QueryNext /\ UNCHANGED streamVars

Spec == Init /\ [][Next]_vars

-----------------------------------------------------------------------------

\* Every variable of the pipeline has its type.
TypeOK == StreamTypeOK /\ QueryTypeOK

\* The query's watermark is set for this generator: no transaction of a live
\* stream is late, through bursts dated ahead, slow deliveries, other users'
\* clocks, and any time the query was down, while no batch had to be split.
NoLiveRowIsLate == mode = "live" /\ ~split => NoRowIsLate

Committed(u, b) == {o \in 1 .. done[u] : topic[u][o].burst = b}

\* The rows of a burst u has in the committed offsets are all there are.
BurstCommitted(u, b) == Cardinality(Committed(u, b)) = BurstCount

\* "15-min sliding window sees velocity > 5" (generate_velocity_spike): once a
\* whole live burst is committed, some window's update was over the threshold.
BurstIsSeen ==
    mode = "live" /\ ~split =>
        \A u \in Users, b \in BurstIds : BurstCommitted(u, b) => u \in alarms

\* ... and the user's key says so, when nothing came after the burst.
BurstIsFlagged ==
    mode = "live" /\ ~split /\ step = "idle" =>
        \A u \in Users, b \in BurstIds :
            BurstCommitted(u, b) /\ done[u] \in Committed(u, b)
                => velocity[u].n > Threshold

\* "Same detectability logic as real-time bursts, just placed in the past"
\* (_generate_backfill_burst_at).
BackfillBurstIsSeen ==
    mode = "backfill" =>
        \A u \in Users, b \in BurstIds : BurstCommitted(u, b) => u \in alarms
=============================================================================
