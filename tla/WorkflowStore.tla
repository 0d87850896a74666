---------------------------- MODULE WorkflowStore ----------------------------
(***************************************************************************)
(* The SQLite store of the workflow engine (class WorkflowStore of         *)
(* workflow_engine/state.py): the workflows, workflow_runs, step_results   *)
(* and outbox tables, and one operator per committing method.  Each method *)
(* commits by itself, so each operator is one atomic step of whoever calls *)
(* it; transition() is the exception, a read followed by a write, and its  *)
(* two halves are StateOf and WriteState.                                  *)
(*                                                                         *)
(* A plan is abstracted to what the engine branches on: nothing stored     *)
(* yet, a plan the feasibility check rejects, one it passes, or one it     *)
(* passes and that needs a human approval.  Every plan has the steps       *)
(* 1..NumSteps, of which NotifySteps write to the outbox.                  *)
(***************************************************************************)
EXTENDS Integers, FiniteSets, WorkflowStates

CONSTANTS
    Workflows,      \* workflow ids
    RunIds,         \* run ids (the uuid of a workflow_runs row)
    NumSteps,       \* steps of a plan
    NotifySteps,    \* the steps whose tool sends to a connector
    MaxKey,         \* largest period number a run is stamped with
    None            \* SQL NULL for an id

ASSUME StoreAssumption ==
    /\ NumSteps \in Nat \ {0}
    /\ NotifySteps \subseteq 1 .. NumSteps
    /\ MaxKey \in Nat
    /\ None \notin Workflows
    /\ None \notin RunIds

VARIABLES
    wstate,     \* workflows.state, "absent" where the row does not exist
    wf,         \* the other columns of workflows the engine reads
    runs,       \* workflow_runs joined with its step_results
    outbox      \* how many outbox rows a step of a run has written

storeVars == <<wstate, wf, runs, outbox>>

Steps == 1 .. NumSteps

NoKey == -1
Keys == 0 .. MaxKey

PlanKind == {"none", "infeasible", "auto", "approval"}
StepStatus == {"none", "ok", "skipped", "error"}
RunStatus == {"none", "RUNNING", "COMPLETED", "FAILED"}

WorkflowRow ==
    [plan: PlanKind,
     trigger: BOOLEAN,                      \* trigger column set
     sched: {"none", "typed", "stored"},    \* trigger_type, then schedule_json
     paused: BOOLEAN,                       \* schedule_paused
     nextRun: BOOLEAN]                      \* next_run_at is not NULL

RunRow ==
    [wf: Workflows \cup {None},
     key: Keys \cup {NoKey},
     status: RunStatus,
     log: [Steps -> StepStatus]]

NewWorkflow ==
    [plan |-> "none", trigger |-> FALSE, sched |-> "none",
     paused |-> FALSE, nextRun |-> FALSE]

NoRun ==
    [wf |-> None, key |-> NoKey, status |-> "none",
     log |-> [n \in Steps |-> "none"]]

StoreTypeOK ==
    /\ wstate \in [Workflows -> WorkflowState \cup {"absent"}]
    /\ wf \in [Workflows -> WorkflowRow]
    /\ runs \in [RunIds -> RunRow]
    /\ outbox \in [RunIds -> [Steps -> Nat]]

StoreInit ==
    /\ wstate = [w \in Workflows |-> "absent"]
    /\ wf = [w \in Workflows |-> NewWorkflow]
    /\ runs = [r \in RunIds |-> NoRun]
    /\ outbox = [r \in RunIds |-> [n \in Steps |-> 0]]

-----------------------------------------------------------------------------
(* Queries *)

Exists(w) == wstate[w] # "absent"

FreshRuns == {r \in RunIds : runs[r].status = "none"}

\* run_exists_for_key
RunExistsForKey(w, k) ==
    \E r \in RunIds : runs[r].status # "none" /\ runs[r].wf = w /\ runs[r].key = k

\* workflows_for_trigger
WorkflowsForTrigger == {w \in Workflows : wf[w].trigger /\ wstate[w] \in EventStates}

\* scheduled_workflows, without the rows reload() skips for a bad schedule_json
ScheduledWorkflows ==
    {w \in Workflows :
        /\ wf[w].sched = "stored"
        /\ wstate[w] # "REJECTED"
        /\ ~wf[w].paused}

-----------------------------------------------------------------------------
(* Committing methods *)

\* create_workflow
CreateWorkflow(w) ==
    /\ wstate' = [wstate EXCEPT ![w] = "SUBMITTED"]
    /\ UNCHANGED <<wf, runs, outbox>>

\* The write half of transition: an UPDATE with no condition on the old state.
WriteState(w, to) ==
    /\ wstate' = [wstate EXCEPT ![w] = to]
    /\ UNCHANGED <<wf, runs, outbox>>

\* set_plan
SetPlan(w, p) ==
    /\ wf' = [wf EXCEPT ![w].plan = p]
    /\ UNCHANGED <<wstate, runs, outbox>>

\* set_trigger
SetTrigger(w, b) ==
    /\ wf' = [wf EXCEPT ![w].trigger = b]
    /\ UNCHANGED <<wstate, runs, outbox>>

\* the commits of set_schedule that anything reads: trigger_type, schedule_json
SetSchedule(w, s) ==
    /\ wf' = [wf EXCEPT ![w].sched = s]
    /\ UNCHANGED <<wstate, runs, outbox>>

\* set_paused
SetPaused(w, b) ==
    /\ wf' = [wf EXCEPT ![w].paused = b]
    /\ UNCHANGED <<wstate, runs, outbox>>

\* set_next_run
SetNextRun(w, b) ==
    /\ wf' = [wf EXCEPT ![w].nextRun = b]
    /\ UNCHANGED <<wstate, runs, outbox>>

\* Mutated form: the store has no unique index, only the query before it.
KeyIsFree_NoIndex(w, k) == TRUE

\* The unique index on (workflow_id, scheduled_run_key) admits the row: NULL
\* keys never collide.
KeyIsFree(w, k) == k = NoKey \/ ~RunExistsForKey(w, k)

\* start_run: the INSERT, when the index admits it
StartRun(r, w, k) ==
    /\ KeyIsFree(w, k)
    /\ runs' = [runs EXCEPT ![r] =
                    [wf |-> w, key |-> k, status |-> "RUNNING",
                     log |-> [n \in Steps |-> "none"]]]
    /\ UNCHANGED <<wstate, wf, outbox>>

\* checkpoint_step: the step's row and the run's status in one transaction
CheckpointStep(r, n, s) ==
    /\ runs' = [runs EXCEPT ![r].log[n] = s, ![r].status = "RUNNING"]
    /\ UNCHANGED <<wstate, wf, outbox>>

\* finish_run
FinishRun(r, s) ==
    /\ runs' = [runs EXCEPT ![r].status = s]
    /\ UNCHANGED <<wstate, wf, outbox>>

\* write_outbox, as the tool of step n of run r calls it
WriteOutbox(r, n) ==
    /\ outbox' = [outbox EXCEPT ![r][n] = @ + 1]
    /\ UNCHANGED <<wstate, wf, runs>>
=============================================================================
