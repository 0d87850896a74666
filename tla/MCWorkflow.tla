------------------------------ MODULE MCWorkflow ------------------------------
(***************************************************************************)
(* Finite instances of the workflow engine.  Threads and processes are     *)
(* named here because Home relates them; run ids and workflows are sets of *)
(* model values given in each cfg.                                         *)
(***************************************************************************)
EXTENDS WorkflowInvariants, TLC

CONSTANTS t1, t2, p1, p2

OneThread == {t1}
TwoThreads == {t1, t2}
OneProc == {p1}
TwoProcs == {p1, p2}

\* Both threads in one process, or one in each.
SharedHome == [t \in Threads |-> p1]
SplitHome == [t \in Threads |-> IF t = t1 THEN p1 ELSE p2]

ApiOps == {"create", "approve", "execute", "event", "deliver"}
ScheduleOps == {"schedule", "fire", "pause", "resume"}
FireOps == {"schedule", "fire"}
AllOps == Op

\* Runs are interchangeable; so are workflows; so are threads of one process.
RunSymmetry == Permutations(RunIds)
RunWorkflowSymmetry == Permutations(RunIds) \cup Permutations(Workflows)
RunThreadSymmetry == Permutations(RunIds) \cup Permutations(Threads)
RunThreadWorkflowSymmetry == RunThreadSymmetry \cup Permutations(Workflows)
=============================================================================
