--------------------------- MODULE MCStreamPipeline ---------------------------
(***************************************************************************)
(* Instances of StreamPipeline: two users, whose partitions nothing        *)
(* orders; one burst of two rows, the second of which may fall into the    *)
(* next slide; windows of two slides, so that a burst meets windows that   *)
(* hold all of it, its first row alone or its last row alone.              *)
(***************************************************************************)
EXTENDS StreamPipeline, TLC

CONSTANTS u1, u2, b1, b2

TwoUsers == {u1, u2}
OneBurst == {b1}
TwoBursts == {b1, b2}
LiveMode == {"live"}
BackfillMode == {"backfill"}
BothModes == {"live", "backfill"}

\* Users are interchangeable.
UserSymmetry == Permutations(Users)
=============================================================================
