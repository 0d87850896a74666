------------------------------ MODULE MCWarehouse ------------------------------
(***************************************************************************)
(* Instances of Warehouse: the four scripts of the repository, two runners,*)
(* and two files, the second of which replays rows of the first.           *)
(***************************************************************************)
EXTENDS Warehouse, TLC

CONSTANTS m1, m2, t1, t2

TwoRunners == {m1, m2}
OneRunner == {m1}
TwoTxns == {t1, t2}

Row(t, n) == [txn |-> t, at |-> n]

\* A transaction twice in one load; a replay of it, with another.
InOrderFiles == <<{Row(t1, 1), Row(t1, 2)}, {Row(t1, 3), Row(t2, 3)}>>

\* A file that was held up and is copied after the replay of its rows.
OldFileLast == <<{Row(t1, 2)}, {Row(t1, 1)}>>

RunnerSymmetry == Permutations(Runners)
=============================================================================
