--------------------------- MODULE WorkflowStates ---------------------------
(***************************************************************************)
(* The lifecycle of a stored workflow (workflow_engine/state.py): its      *)
(* states, the table of legal edges every state change is checked against, *)
(* and the states from which the API and the scheduler arm a run.          *)
(***************************************************************************)

WorkflowState ==
    {"SUBMITTED", "PLANNED", "FEASIBLE", "REJECTED", "AWAITING_APPROVAL",
     "READY", "RUNNING", "COMPLETED", "FAILED", "PAUSED"}

\* The table as a set of edges <<from, to>>.
AllowedTransitions ==
    {<<"SUBMITTED", "PLANNED">>,
     <<"PLANNED", "FEASIBLE">>, <<"PLANNED", "REJECTED">>,
     <<"FEASIBLE", "AWAITING_APPROVAL">>, <<"FEASIBLE", "READY">>,
     <<"AWAITING_APPROVAL", "READY">>, <<"AWAITING_APPROVAL", "REJECTED">>,
     <<"READY", "RUNNING">>,
     <<"RUNNING", "COMPLETED">>, <<"RUNNING", "FAILED">>, <<"RUNNING", "PAUSED">>,
     <<"PAUSED", "RUNNING">>, <<"PAUSED", "FAILED">>,
     <<"COMPLETED", "READY">>, <<"FAILED", "READY">>}

CanTransition(from, to) == <<from, to>> \in AllowedTransitions

\* The states _arm and arm_for_run move to READY; READY itself needs no move
\* and every other state makes them raise.
ArmableStates == {"FEASIBLE", "COMPLETED", "FAILED"}

\* The states whose workflows workflows_for_trigger hands to an event.
EventStates == {"READY", "COMPLETED"}
=============================================================================
