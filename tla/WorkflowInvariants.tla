------------------------- MODULE WorkflowInvariants -------------------------
(***************************************************************************)
(* The inductive invariants behind the theorems about the workflow engine: *)
(* what the calls of a handler rely on of the locals set by earlier calls, *)
(* where the run a thread is inside of stands, who will write a RUNNING    *)
(* workflow again, and what the gate of a workflow rests on.               *)
(***************************************************************************)
EXTENDS WorkflowProperties

\* A thread that is inside a run: from start_run to finish_run.
Transiting(t) == pc[t] \in {"check", "write"}
Holds(t) ==
    \/ pc[t] \in {"step", "record", "fail", "finish"}
    \/ Transiting(t) /\ loc[t].ret = "step"

LocalsOK ==
    \A t \in Threads :
        /\ pc[t] \notin {"idle", "match"} => loc[t].wf \in Workflows
        /\ Transiting(t) => loc[t].goal \in WorkflowState
        /\ Holds(t) => loc[t].run \in RunIds /\ loc[t].step \in 1 .. NumSteps + 1
        /\ Holds(t) /\ pc[t] # "finish" => loc[t].step \in Steps

TypeInv == TypeOK /\ LocalsOK

-----------------------------------------------------------------------------

\* The parts of LogInOrder, OutcomeMatchesLog and EffectsMatchLog that speak of
\* one run; and a run id not used yet has no checkpoint and no notification.
RowOK(r) ==
    /\ runs[r].status = "none" =>
          \A n \in Steps : runs[r].log[n] = "none" /\ outbox[r][n] = 0
    /\ \A n \in Steps :
          runs[r].log[n] # "none" => \A m \in 1 .. n - 1 : Passed(r, m)
    /\ runs[r].status = "COMPLETED" => \A n \in Steps : Passed(r, n)
    /\ runs[r].status = "FAILED" => \E n \in Steps : runs[r].log[n] = "error"
    /\ \A n \in Steps :
          /\ outbox[r][n] <= 1
          /\ outbox[r][n] > 0 =>
                /\ \/ runs[r].log[n] \in {"none", "ok"}
                   \/ runs[r].log[n] = "error" /\ runs[r].wf \in refused
                /\ \A m \in 1 .. n - 1 : Passed(r, m)
          /\ n \in NotifySteps /\ runs[r].log[n] = "ok" => outbox[r][n] = 1

\* Where the run of thread t stands: it is open and of the thread's workflow, the
\* steps before the thread's are passed, the thread's step and the later ones are
\* not recorded, and nothing left for them but the notification about to be
\* recorded, or one whose commit was refused.
HoldOK(t) ==
    LET r == loc[t].run
        n == loc[t].step
    IN /\ runs[r].status = "RUNNING"
       /\ runs[r].wf = loc[t].wf
       /\ \A m \in Steps : m < n => Passed(r, m)
       /\ pc[t] # "finish" =>
            \A m \in Steps : m >= n =>
                /\ runs[r].log[m] = "none"
                /\ \/ outbox[r][m] = IF m = n /\ pc[t] = "record" THEN 1 ELSE 0
                   \/ m = n /\ pc[t] = "fail" /\ outbox[r][m] = 1
       /\ pc[t] = "record" => n \in NotifySteps
       /\ pc[t] = "fail" => loc[t].wf \in refused
       /\ pc[t] = "finish" /\ n \in Steps => runs[r].log[n] = "error"

\* No two threads are inside the same run.
OneOwner ==
    \A t, u \in Threads :
        Holds(t) /\ Holds(u) /\ loc[t].run = loc[u].run => t = u

RunInv ==
    /\ \A r \in RunIds : RowOK(r)
    /\ \A t \in Threads : Holds(t) => HoldOK(t)
    /\ OneOwner
    /\ OneRunPerPeriod

-----------------------------------------------------------------------------

\* Only start_run is followed by a transition to RUNNING and then by the steps:
\* the thread has recorded nothing of its run when that transition is refused.
StartsFirst ==
    \A t \in Threads : Transiting(t) =>
        /\ loc[t].goal = "RUNNING" => loc[t].ret = "step"
        /\ loc[t].ret = "step" => loc[t].step = 1

Blank(r) == \A n \in Steps : runs[r].log[n] = "none" /\ outbox[r][n] = 0

\* Without crashes a run that is RUNNING has a thread inside, or it never had, or
\* a call was refused at its workflow.
HeldOrBlank ==
    crashes = 0 => \A r \in RunIds : runs[r].status = "RUNNING" =>
        \/ Blank(r)
        \/ runs[r].wf \in refused
        \/ \E t \in Threads : Holds(t) /\ loc[t].run = r

\* Thread t is between its transition of w to RUNNING and its last write.
Carries(t, w) ==
    /\ loc[t].wf = w
    /\ \/ pc[t] \in {"step", "record", "fail", "finish"}
       \/ Transiting(t) /\ loc[t].goal \in {"COMPLETED", "FAILED"}

\* Without crashes a workflow that is RUNNING is about to be written again, or a
\* call was refused at it.
CarriedOn ==
    crashes = 0 => \A w \in Workflows \ refused :
        wstate[w] = "RUNNING" => \E t \in Threads : Carries(t, w)

\* A process is down, or reloads, only after a crash.
DownAfterCrash ==
    crashes = 0 => up = Procs /\ \A p \in Procs : reload[p] = {}

StrandInv == StartsFirst /\ HeldOrBlank /\ CarriedOn /\ DownAfterCrash

-----------------------------------------------------------------------------

\* The handlers that make a workflow.
Makes == {"create", "schedule", "deliver"}

Feasible(w) == wf[w].plan \in {"auto", "approval"}

\* A run of w may start: its plan was checked, and approved if it has to be,
\* unless w was armed in the window.
Cleared(w) == wf[w].plan = "auto" \/ (wf[w].plan = "approval" /\ w \in approved \cup slipped)

\* What the state of a workflow tells of its plan.
StateOK(w) ==
    /\ wstate[w] = "absent" => wf[w].plan = "none"
    /\ wstate[w] \in {"FEASIBLE", "AWAITING_APPROVAL"} => Feasible(w)
    /\ wstate[w] = "AWAITING_APPROVAL" => wf[w].plan = "approval"
    /\ wstate[w] \in {"READY", "RUNNING", "COMPLETED", "FAILED", "PAUSED"} => Cleared(w)

\* Thread t has yet to store the plan of the workflow it makes.
BeforePlan(t) == pc[t] = "plan" \/ (Transiting(t) /\ loc[t].ret = "plan")

\* What thread t, at workflow w, knows of its plan before its next call.
KnowsPlan(t) ==
    LET w == loc[t].wf
    IN /\ BeforePlan(t) =>
            loc[t].op \in Makes /\ wf[w].plan = "none" /\ wstate[w] # "absent"
       /\ pc[t] = "trigger" => loc[t].op = "create" /\ wf[w].plan # "none"
       /\ pc[t] \in {"typed", "stored"} => loc[t].op = "schedule" /\ wf[w].plan = "auto"
       /\ pc[t] = "gate" => Feasible(w) /\ (loc[t].op # "create" => wf[w].plan = "auto")
       /\ pc[t] \in {"start", "step", "record", "fail", "finish"} => Cleared(w)
       /\ Transiting(t) =>
            /\ loc[t].goal \in {"PLANNED", "FEASIBLE", "REJECTED", "AWAITING_APPROVAL",
                               "READY", "RUNNING", "COMPLETED", "FAILED"}
            /\ loc[t].goal = "FEASIBLE" =>
                 Feasible(w) /\ loc[t].ret = "gate"
                    /\ (loc[t].op # "create" => wf[w].plan = "auto")
            /\ loc[t].goal = "AWAITING_APPROVAL" => wf[w].plan = "approval"
            /\ loc[t].goal = "READY" =>
                 Cleared(w) \/ (loc[t].op = "approve" /\ wf[w].plan = "approval")
            /\ loc[t].goal \in {"RUNNING", "COMPLETED", "FAILED"} => Cleared(w)
            /\ loc[t].ret \in {"start", "step"} => Cleared(w)
            /\ loc[t].ret = "gate" => loc[t].goal = "FEASIBLE"

\* No two handlers make the same workflow.
OneMaker ==
    \A t, u \in Threads :
        BeforePlan(t) /\ BeforePlan(u) /\ loc[t].wf = loc[u].wf => t = u

GateInv ==
    /\ \A w \in Workflows : StateOK(w)
    /\ \A t \in Threads : KnowsPlan(t)
    /\ OneMaker
    /\ \A r \in RunIds : Opened(r) => runs[r].wf \in Workflows /\ Cleared(runs[r].wf)
=============================================================================
