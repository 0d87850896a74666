---------------------------- MODULE ReportLedger ----------------------------
(***************************************************************************)
(* What the header of workflow_engine/scheduler.py promises of scheduled   *)
(* reports ("NO DUPLICATE REPORTS"): however often and from however many   *)
(* places a schedule fires, each notification of a (workflow, period) is   *)
(* sent by one run, and by no other ever after.                            *)
(***************************************************************************)
CONSTANTS Workflows, Periods, NotifySteps, RunIds

VARIABLE sender     \* the runs that sent each notification

Report == Workflows \X Periods \X NotifySteps

Init == sender = [x \in Report |-> {}]

Send(x, r) ==
    /\ sender[x] = {}
    /\ sender' = [sender EXCEPT ![x] = {r}]

Next == \E x \in Report, r \in RunIds : Send(x, r)

Spec == Init /\ [][Next]_sender
=============================================================================
