------------------------- MODULE WorkflowProperties -------------------------
(***************************************************************************)
(* What must hold of the workflow engine, and what its comments and tests  *)
(* claim of it.  The README says which of these hold under which           *)
(* interleavings.                                                          *)
(***************************************************************************)
EXTENDS WorkflowEngine

\* Every variable has its type: rows, locals, job table, clock and history.
TypeOK ==
    /\ StoreTypeOK
    /\ pc \in [Threads -> PC]
    /\ loc \in [Threads -> Locals]
    /\ job \in [Procs -> [Workflows -> 0 .. MaxTime + 2]]
    /\ clock \in 0 .. MaxTime
    /\ up \subseteq Procs
    /\ reload \in [Procs -> SUBSET Workflows]
    /\ crashes \in 0 .. MaxCrashes
    /\ txn \in [Procs -> TxnState]
    /\ approved \subseteq Workflows
    /\ slipped \subseteq Workflows
    /\ refused \subseteq Workflows

Opened(r) == runs[r].status # "none"
Passed(r, n) == runs[r].log[n] \in {"ok", "skipped"}
Quiescent ==
    /\ \A t \in Threads : pc[t] = "idle"
    /\ \A p \in Procs : reload[p] = {}

-----------------------------------------------------------------------------
(* Runs *)

\* The checkpoints of a run are written in step order with no hole, and none is
\* written after a failed one: a step has a row only if every earlier step is
\* recorded as run or skipped (Executor.execute stops at the first error).
LogInOrder ==
    \A r \in RunIds : \A n \in Steps :
        runs[r].log[n] # "none" => \A m \in 1 .. n - 1 : Passed(r, m)

\* The status a run ends with is the one its checkpoints tell: COMPLETED only
\* when every step is recorded as run or skipped, FAILED only when one is
\* recorded as failed, whatever other threads and crashes did meanwhile.
OutcomeMatchesLog ==
    \A r \in RunIds :
        /\ runs[r].status = "COMPLETED" => \A n \in Steps : Passed(r, n)
        /\ runs[r].status = "FAILED" => \E n \in Steps : runs[r].log[n] = "error"

\* A notification leaves at most once per run, only when every earlier step is
\* recorded as run or skipped, never for a step recorded as skipped, and for one
\* recorded as failed only if the database was locked when its tool committed;
\* and a notify step is recorded as run only if its notification left.
EffectsMatchLog ==
    \A r \in RunIds : \A n \in Steps :
        /\ outbox[r][n] <= 1
        /\ outbox[r][n] > 0 =>
              /\ \/ runs[r].log[n] \in {"none", "ok"}
                 \/ runs[r].log[n] = "error" /\ runs[r].wf \in refused
              /\ \A m \in 1 .. n - 1 : Passed(r, m)
        /\ n \in NotifySteps /\ runs[r].log[n] = "ok" => outbox[r][n] = 1

\* One workflow has at most one run per period, for every process that fires it
\* and every crash in between ("a duplicate fire is a no-op", scheduler.py).
OneRunPerPeriod ==
    \A r, q \in RunIds :
        Opened(r) /\ Opened(q) /\ runs[r].key # NoKey
            /\ runs[r].wf = runs[q].wf /\ runs[r].key = runs[q].key
        => r = q

\* The runs that sent a report of a period, read off the outbox and the run keys.
senders ==
    [x \in Workflows \X Keys \X NotifySteps |->
        {r \in RunIds : runs[r].wf = x[1] /\ runs[r].key = x[2] /\ outbox[r][x[3]] > 0}]

Ledger == INSTANCE ReportLedger WITH Periods <- Keys, sender <- senders

\* The engine keeps the scheduler's promise of "no duplicate reports": the runs
\* that sent a report evolve as ReportLedger allows.
NoDuplicateReport == Ledger!Spec

\* A finished run is history: its status, its checkpoints and its notifications
\* never change again, although checkpoint_step writes the status as well.
FinishedRunIsFinal ==
    [][\A r \in RunIds :
         runs[r].status \in {"COMPLETED", "FAILED"} =>
            runs'[r] = runs[r] /\ outbox'[r] = outbox[r]]_vars

-----------------------------------------------------------------------------
(* The lifecycle *)

\* "The ONLY legal edges" (state.py): every change of a workflow's state is an
\* edge of the table.
LegalEdges ==
    [][\A w \in Workflows :
         wstate[w] # "absent" /\ wstate'[w] # wstate[w] =>
            <<wstate[w], wstate'[w]>> \in AllowedTransitions]_vars

\* "Only an explicit approve() call moves it to READY" (state.py): no run is
\* opened of a workflow whose plan needs approval and was not approved.
ApprovalGate ==
    \A r \in RunIds :
        Opened(r) /\ wf[runs[r].wf].plan = "approval" => runs[r].wf \in approved

\* The one way round approve() is the window between the two transitions of
\* POST /workflows: a run of a plan that needs approval is opened only of a
\* workflow that was approved, or that some handler found at FEASIBLE and armed,
\* however requests, fires and crashes interleave.
GateButForTheWindow ==
    \A r \in RunIds :
        Opened(r) /\ wf[runs[r].wf].plan = "approval" => runs[r].wf \in approved \cup slipped

\* No run is opened of a workflow whose plan was not stored yet or did not pass
\* the feasibility check, whichever handlers race for it and whichever die.
OnlyCheckedPlansRun ==
    \A r \in RunIds : Opened(r) => wf[runs[r].wf].plan \in {"auto", "approval"}

\* A workflow that waits for approval leaves that state by approve() alone.
ParkedUntilApproved ==
    [][\A w \in Workflows :
         wstate[w] = "AWAITING_APPROVAL" /\ wstate'[w] # wstate[w] =>
            w \in approved']_vars

\* Unless a process dies or the database was locked for a handler of it, no
\* workflow is left RUNNING once every handler has returned, however the handlers
\* raced: the last to write RUNNING still has its final transition to make.
NoStrandedWorkflow ==
    Quiescent /\ crashes = 0 => \A w \in Workflows \ refused : wstate[w] # "RUNNING"

\* ... and neither is a run row.
NoStrandedRun ==
    Quiescent /\ crashes = 0 => \A r \in RunIds : runs[r].status # "RUNNING"

\* Handlers that race for one workflow leave a run row RUNNING behind: start_run
\* commits before the transition it may lose.  Unless a process died or the
\* database was locked, it is always a run that did nothing: no step recorded, no
\* notification sent.
StrandedRunIsBlank ==
    Quiescent /\ crashes = 0 =>
        \A r \in RunIds : runs[r].status = "RUNNING" /\ runs[r].wf \notin refused =>
            \A n \in Steps : runs[r].log[n] = "none" /\ outbox[r][n] = 0

\* A workflow that is RUNNING comes to rest again: "resume is find the last
\* completed step, continue from the next" (state.py).
RunningAlwaysSettles ==
    \A w \in Workflows : wstate[w] = "RUNNING" ~> wstate[w] # "RUNNING"

\* ... which "a duplicate fire is a no-op" (scheduler.py) promises as long as no
\* process dies.
RunningSettlesUnlessCrash ==
    \A w \in Workflows : wstate[w] = "RUNNING" ~> wstate[w] # "RUNNING" \/ crashes > 0

\* It does as long as no handler of it is cut short, by a crash or by the lock a
\* duplicate fire leaves on the database, whichever other handlers, of whichever
\* process, write the same row meanwhile.
RunningSettles ==
    \A w \in Workflows :
        wstate[w] = "RUNNING" ~> wstate[w] # "RUNNING" \/ crashes > 0 \/ w \in refused

-----------------------------------------------------------------------------
(* Where one process runs alone, its connection meets no other's lock.     *)

OneProcess == \A p, q \in Procs : p = q

NeverRefused == OneProcess => refused = {}

-----------------------------------------------------------------------------
(* Schedules *)

\* "A process restart resumes them instead of losing them" (scheduler.py): once
\* the handlers and every reload() have returned, every live process holds a job,
\* still to come or due, for every persisted schedule that is not paused.
SchedulesAreRegistered ==
    Quiescent => \A p \in up : \A w \in ScheduledWorkflows : job[p][w] # 0

\* Without crashes a paused workflow shows no next run once pause() and every
\* other handler have returned.
PausedHasNoNextRun ==
    Quiescent /\ crashes = 0 => \A w \in Workflows : wf[w].paused => ~wf[w].nextRun
=============================================================================
