--------------------------- MODULE WorkflowEngine ---------------------------
(***************************************************************************)
(* The workflow engine at run time: the request handlers of                *)
(* workflow_engine/api.py, the scheduled fires of scheduler.py and the     *)
(* executor both call (executor.py), as threads of one or more processes   *)
(* that share the store.                                                   *)
(*                                                                         *)
(* A handler is a sequence of store calls; every call that commits, and    *)
(* every read whose answer is used by a later call, is one step.  pc[t] is *)
(* the call thread t makes next and loc[t] its local variables.  The       *)
(* transition() method is the pair TransitionCheck, TransitionWrite: goal  *)
(* is the state asked for and ret the call that follows it.  An exception  *)
(* ends the handler: the thread becomes idle where it stands.              *)
(*                                                                         *)
(* A process may crash, losing its threads and the jobs its scheduler      *)
(* holds in memory, and restart, which reloads the jobs from the store.    *)
(*                                                                         *)
(* Each process has one connection to the database file, and a statement   *)
(* that fails leaves the transaction Python opened for it open: txn says   *)
(* what is left.  A call that meets the lock of another process raises     *)
(* "database is locked" (refused keeps the workflows this happened at).    *)
(*                                                                         *)
(* Time is counted in half periods: a period is two ticks and the fire     *)
(* time of every schedule is the odd tick of its period.                   *)
(***************************************************************************)
EXTENDS WorkflowStore

CONSTANTS
    Threads,        \* the threads that serve requests and fires
    Procs,          \* the processes they belong to
    Home,           \* the process of each thread
    Ops,            \* the operations this instance lets clients ask for
    MaxTime,        \* bound: ticks
    MaxCrashes      \* bound: crashes

Op == {"create", "schedule", "deliver", "approve", "execute", "event",
       "fire", "pause", "resume"}

ASSUME EngineAssumption ==
    /\ Home \in [Threads -> Procs]
    /\ Ops \subseteq Op
    /\ MaxTime \in Nat
    /\ MaxCrashes \in Nat
    /\ MaxTime <= 2 * MaxKey

VARIABLES
    pc,         \* the next call of each thread
    loc,        \* its local variables
    job,        \* per process: the next fire time of a registered job, else 0
    clock,      \* ticks
    up,         \* the processes that run
    reload,     \* per process: the schedules its start() has yet to register
    crashes,    \* crashes so far
    txn,        \* per process: the transaction a failed statement left open
    approved,   \* history: the workflows a completed approve() moved to READY
    slipped,    \* history: the workflows that were at FEASIBLE when armed
    refused     \* history: the workflows a handler's call was refused at

gateVars == <<approved, slipped>>
lockVars == <<txn, refused>>
schedVars == <<job, clock>>
procVars == <<up, reload, crashes>>
vars == <<storeVars, pc, loc, schedVars, procVars, gateVars, lockVars>>

PC == {"idle", "check", "write", "plan", "trigger", "typed", "stored", "gate",
       "registerNext", "registerJob", "pauseJob", "pauseNext", "exists", "arm",
       "start", "step", "record", "fail", "finish", "match", "nextRun"}

\* The calls that follow a transition.
Returns == {"idle", "plan", "gate", "registerNext", "start", "step", "match", "nextRun"}

Locals ==
    [op: Op \cup {"none"},
     wf: Workflows \cup {None},
     run: RunIds \cup {None},
     key: Keys \cup {NoKey},
     step: 0 .. NumSteps + 1,
     goal: WorkflowState \cup {"none"},
     ret: Returns,
     todo: SUBSET Workflows]

NoLocals ==
    [op |-> "none", wf |-> None, run |-> None, key |-> NoKey, step |-> 0,
     goal |-> "none", ret |-> "idle", todo |-> {}]

Init ==
    /\ StoreInit
    /\ pc = [t \in Threads |-> "idle"]
    /\ loc = [t \in Threads |-> NoLocals]
    /\ job = [p \in Procs |-> [w \in Workflows |-> 0]]
    /\ clock = 0
    /\ up = Procs
    /\ reload = [p \in Procs |-> {}]
    /\ crashes = 0
    /\ txn = [p \in Procs |-> "none"]
    /\ approved = {}
    /\ slipped = {}
    /\ refused = {}

-----------------------------------------------------------------------------
(* Helpers *)

\* Every action of a thread ends in one of these three: it goes on with call
\* p, it asks for a transition and then goes on with call p, or it returns or
\* raises.
GoOn(t, l, p) ==
    /\ pc' = [pc EXCEPT ![t] = p]
    /\ loc' = [loc EXCEPT ![t] = l]

Transition(t, l, to, p) ==
    GoOn(t, [l EXCEPT !.goal = to, !.ret = p], "check")

Done(t) == GoOn(t, NoLocals, "idle")

\* A thread is free for a request only once start() has reloaded; the jobs
\* registered until then may fire before.
Idle(t) == pc[t] = "idle" /\ Home[t] \in up
Serves(t) == Idle(t) /\ reload[Home[t]] = {}

\* The handlers that open runs, and the bound on the runs of an instance: a
\* handler starts only when every handler under way can still open its runs.
RunOps == {"deliver", "execute", "event", "fire"}
RunBudget ==
    Cardinality(FreshRuns) >=
        Cardinality(Workflows) * (1 + Cardinality({t \in Threads : loc[t].op \in RunOps}))

\* A schedule's next fire time strictly after tick c, and the period of tick c.
NextInstant(c) == IF c % 2 = 0 THEN c + 1 ELSE c + 2
RunKey(c) == c \div 2

-----------------------------------------------------------------------------
(* The lock of the database file                                           *)

\* What a failed statement leaves of the transaction of its connection:
\*   "open"     an INSERT or UPDATE found the file locked; nothing is held until
\*              the next SELECT, a shared lock from then on
\*   "write"    the unique index refused an INSERT; the write lock is held
\*   "pending"  a COMMIT met the shared lock of another process; the write lock
\*              is held and new readers are kept out
TxnState == {"none", "open", "write", "pending"}

Elsewhere(p, S) == \E q \in Procs \ {p} : txn[q] \in S

CanRead(p) == txn[p] # "none" \/ ~Elsewhere(p, {"pending"})
CanWrite(p) == ~Elsewhere(p, {"write", "pending"})
MayMeetReader(p) == Elsewhere(p, {"open"})

\* Thread t makes a committing call for workflow w and goes on with next.  A
\* commit that meets a reader raises; what it wrote stays in the connection,
\* for the next commit of the process to publish (taken here as done at once)
\* or for a rollback to lose (LeavesOpen).
Commits(t, w, next, raised) ==
    /\ CanWrite(Home[t])
    /\ \/ /\ next
          /\ txn' = [txn EXCEPT ![Home[t]] = "none"]
          /\ UNCHANGED refused
       \/ /\ MayMeetReader(Home[t])
          /\ raised
          /\ txn' = [txn EXCEPT ![Home[t]] = "pending"]
          /\ refused' = refused \cup {w}

\* A call of process p is refused, and nothing of it is kept.
LeavesOpen(p) ==
    \/ /\ ~CanWrite(p)
       /\ txn' = [txn EXCEPT ![p] = IF @ = "none" THEN "open" ELSE @]
    \/ /\ CanWrite(p) /\ MayMeetReader(p)
       /\ txn' = [txn EXCEPT ![p] = "pending"]

-----------------------------------------------------------------------------
(* WorkflowStore.transition, called from every handler *)

TransitionCheck(t) ==
    /\ pc[t] = "check"
    /\ CanRead(Home[t])
    /\ IF CanTransition(wstate[loc[t].wf], loc[t].goal)
         THEN GoOn(t, loc[t], "write")
         ELSE Done(t)                       \* InvalidTransition
    /\ UNCHANGED <<storeVars, schedVars, procVars, gateVars, lockVars>>

TransitionWrite(t) ==
    /\ pc[t] = "write"
    /\ WriteState(loc[t].wf, loc[t].goal)
    /\ Commits(t, loc[t].wf,
         IF loc[t].ret = "idle"
           THEN Done(t)
           ELSE GoOn(t, [loc[t] EXCEPT !.goal = "none", !.ret = "idle"], loc[t].ret),
         Done(t))
    /\ approved' = IF loc[t].op = "approve" THEN approved \cup {loc[t].wf} ELSE approved
    /\ UNCHANGED <<schedVars, procVars, slipped>>

-----------------------------------------------------------------------------
(* Creating a workflow: POST /workflows, /reports/schedule, /reports/deliver *)

Create(t, w, op) ==
    /\ Serves(t)
    /\ op \in Ops \cap {"create", "schedule", "deliver"}
    /\ op = "deliver" => RunBudget
    /\ ~Exists(w)
    /\ CreateWorkflow(w)
    /\ Commits(t, w,
         Transition(t, [NoLocals EXCEPT !.op = op, !.wf = w], "PLANNED", "plan"),
         Done(t))
    /\ UNCHANGED <<schedVars, procVars, gateVars>>

\* The planner's plan may be anything; a report's plan is built by code and was
\* found feasible before the workflow was created.
StorePlan(t) ==
    /\ pc[t] = "plan"
    /\ \E p \in IF loc[t].op = "create" THEN {"infeasible", "auto", "approval"} ELSE {"auto"} :
         SetPlan(loc[t].wf, p)
    /\ Commits(t, loc[t].wf,
         CASE loc[t].op = "create" -> GoOn(t, loc[t], "trigger")
           [] loc[t].op = "schedule" -> GoOn(t, loc[t], "typed")
           [] OTHER -> Transition(t, loc[t], "FEASIBLE", "gate"),
         Done(t))
    /\ UNCHANGED <<schedVars, procVars, gateVars>>

\* planner.plan raises: the workflow stays PLANNED with no plan.
PlannerRaises(t) ==
    /\ pc[t] = "plan"
    /\ loc[t].op = "create"
    /\ Done(t)
    /\ UNCHANGED <<storeVars, schedVars, procVars, gateVars, lockVars>>

\* Mutated form: the verdict of check_plan is not looked at.
StoreTrigger_Unchecked(t) ==
    /\ pc[t] = "trigger"
    /\ \E b \in BOOLEAN : SetTrigger(loc[t].wf, b)
    /\ Commits(t, loc[t].wf, Transition(t, loc[t], "FEASIBLE", "gate"), Done(t))
    /\ UNCHANGED <<schedVars, procVars, gateVars>>

\* set_trigger, then check_plan decides where the workflow goes.
StoreTrigger(t) ==
    /\ pc[t] = "trigger"
    /\ \E b \in BOOLEAN : SetTrigger(loc[t].wf, b)
    /\ Commits(t, loc[t].wf,
         IF wf[loc[t].wf].plan = "infeasible"
           THEN Transition(t, loc[t], "REJECTED", "idle")
           ELSE Transition(t, loc[t], "FEASIBLE", "gate"),
         Done(t))
    /\ UNCHANGED <<schedVars, procVars, gateVars>>

StoreTriggerType(t) ==
    /\ pc[t] = "typed"
    /\ SetSchedule(loc[t].wf, "typed")
    /\ Commits(t, loc[t].wf, GoOn(t, loc[t], "stored"), Done(t))
    /\ UNCHANGED <<schedVars, procVars, gateVars>>

StoreSchedule(t) ==
    /\ pc[t] = "stored"
    /\ SetSchedule(loc[t].wf, "stored")
    /\ Commits(t, loc[t].wf, Transition(t, loc[t], "FEASIBLE", "gate"), Done(t))
    /\ UNCHANGED <<schedVars, procVars, gateVars>>

\* The second transition of the handler, out of FEASIBLE.
Gate(t) ==
    /\ pc[t] = "gate"
    /\ LET w == loc[t].wf
       IN CASE loc[t].op = "create" /\ wf[w].plan = "approval" ->
                    Transition(t, loc[t], "AWAITING_APPROVAL", "idle")
            [] loc[t].op = "create" /\ wf[w].plan # "approval" ->
                    Transition(t, loc[t], "READY", "idle")
            [] loc[t].op = "schedule" -> Transition(t, loc[t], "READY", "registerNext")
            [] OTHER -> Transition(t, loc[t], "READY", "start")
    /\ UNCHANGED <<storeVars, schedVars, procVars, gateVars, lockVars>>

-----------------------------------------------------------------------------
(* POST /workflows/{id}/approve, /workflows/{id}/execute, /events/{type} *)

Approve(t, w) ==
    /\ Serves(t)
    /\ CanRead(Home[t])
    /\ "approve" \in Ops
    /\ wstate[w] = "AWAITING_APPROVAL"
    /\ Transition(t, [NoLocals EXCEPT !.op = "approve", !.wf = w], "READY", "idle")
    /\ UNCHANGED <<storeVars, schedVars, procVars, gateVars, lockVars>>

Execute(t, w) ==
    /\ Serves(t)
    /\ CanRead(Home[t])
    /\ "execute" \in Ops
    /\ RunBudget
    /\ Exists(w) /\ wf[w].plan # "none"
    /\ GoOn(t, [NoLocals EXCEPT !.op = "execute", !.wf = w], "arm")
    /\ UNCHANGED <<storeVars, schedVars, procVars, gateVars, lockVars>>

FireEvent(t) ==
    /\ Serves(t)
    /\ CanRead(Home[t])
    /\ "event" \in Ops
    /\ RunBudget
    /\ WorkflowsForTrigger # {}
    /\ GoOn(t, [NoLocals EXCEPT !.op = "event", !.todo = WorkflowsForTrigger], "match")
    /\ UNCHANGED <<storeVars, schedVars, procVars, gateVars, lockVars>>

\* The loop over the workflows matched when the event arrived.
NextMatch(t) ==
    /\ pc[t] = "match"
    /\ \/ /\ loc[t].todo = {}
          /\ Done(t)
       \/ \E w \in loc[t].todo :
            GoOn(t, [NoLocals EXCEPT !.op = "event", !.wf = w, !.todo = loc[t].todo \ {w}], "arm")
    /\ UNCHANGED <<storeVars, schedVars, procVars, gateVars, lockVars>>

\* Mutated form: any workflow past its checks may be armed, one parked as well.
Arm_Parked(t) ==
    /\ pc[t] = "arm"
    /\ CanRead(Home[t])
    /\ LET s == wstate[loc[t].wf]
       IN /\ CASE s = "READY" -> GoOn(t, loc[t], "start")
               [] s \in ArmableStates \cup {"AWAITING_APPROVAL"} ->
                    Transition(t, loc[t], "READY", "start")
               [] OTHER -> Done(t)
          /\ slipped' = IF s = "FEASIBLE" THEN slipped \cup {loc[t].wf} ELSE slipped
    /\ UNCHANGED <<storeVars, schedVars, procVars, approved, lockVars>>

\* _arm of the API, arm_for_run of the scheduler
Arm(t) ==
    /\ pc[t] = "arm"
    /\ CanRead(Home[t])
    /\ LET s == wstate[loc[t].wf]
       IN /\ CASE s = "READY" -> GoOn(t, loc[t], "start")
               [] s \in ArmableStates -> Transition(t, loc[t], "READY", "start")
               [] OTHER -> Done(t)          \* 409, or RuntimeError in a fire
          /\ slipped' = IF s = "FEASIBLE" THEN slipped \cup {loc[t].wf} ELSE slipped
    /\ UNCHANGED <<storeVars, schedVars, procVars, approved, lockVars>>

-----------------------------------------------------------------------------
(* Executor.execute.  Whether a step runs, is skipped (its guard is false  *)
(* or it refers to a skipped step) or raises is left open here; module     *)
(* PlanRun says which.                                                     *)

After(op) ==
    CASE op = "event" -> "match" [] op = "fire" -> "nextRun" [] OTHER -> "idle"

\* start_run.  A taken key raises IntegrityError, on which _fire returns None;
\* nobody rolls back, so the failed INSERT's write lock stays with the process
\* until its next commit.
Start(t) ==
    /\ pc[t] = "start"
    /\ \/ /\ KeyIsFree(loc[t].wf, loc[t].key)
          /\ \E r \in FreshRuns :
               /\ StartRun(r, loc[t].wf, loc[t].key)
               /\ Commits(t, loc[t].wf,
                    Transition(t, [loc[t] EXCEPT !.run = r, !.step = 1], "RUNNING", "step"),
                    Done(t))
       \/ /\ ~KeyIsFree(loc[t].wf, loc[t].key)
          /\ CanWrite(Home[t])
          /\ txn' = [txn EXCEPT ![Home[t]] = IF @ = "pending" THEN @ ELSE "write"]
          /\ Done(t)
          /\ UNCHANGED <<storeVars, refused>>
    /\ UNCHANGED <<schedVars, procVars, gateVars>>

\* checkpoint_step rolls back when it is refused (RefuseCheckpoint).
Checkpoints(t, next) == Commits(t, loc[t].wf, next, FALSE)

Advance(t) ==
    GoOn(t, [loc[t] EXCEPT !.step = @ + 1],
         IF loc[t].step = NumSteps THEN "finish" ELSE "step")

SkipStep(t) ==
    /\ pc[t] = "step"
    /\ CheckpointStep(loc[t].run, loc[t].step, "skipped")
    /\ Checkpoints(t, Advance(t))
    /\ UNCHANGED <<schedVars, procVars, gateVars>>

RunStep(t) ==
    /\ pc[t] = "step"
    /\ loc[t].step \notin NotifySteps
    /\ CheckpointStep(loc[t].run, loc[t].step, "ok")
    /\ Checkpoints(t, Advance(t))
    /\ UNCHANGED <<schedVars, procVars, gateVars>>

\* Mutated form: a tool that sent and then failed is tried again.
NotifyStep_Retried(t) ==
    /\ pc[t] = "step"
    /\ loc[t].step \in NotifySteps
    /\ WriteOutbox(loc[t].run, loc[t].step)
    /\ Commits(t, loc[t].wf, GoOn(t, loc[t], "record") \/ GoOn(t, loc[t], "step"),
         GoOn(t, loc[t], "fail"))
    /\ UNCHANGED <<schedVars, procVars, gateVars>>

\* The tool's effect is committed before the step is.  If its commit is refused
\* the tool raises, which the executor takes for a failed step.
NotifyStep(t) ==
    /\ pc[t] = "step"
    /\ loc[t].step \in NotifySteps
    /\ WriteOutbox(loc[t].run, loc[t].step)
    /\ Commits(t, loc[t].wf, GoOn(t, loc[t], "record"), GoOn(t, loc[t], "fail"))
    /\ UNCHANGED <<schedVars, procVars, gateVars>>

RecordNotify(t) ==
    /\ pc[t] = "record"
    /\ CheckpointStep(loc[t].run, loc[t].step, "ok")
    /\ Checkpoints(t, Advance(t))
    /\ UNCHANGED <<schedVars, procVars, gateVars>>

\* Mutated form: a failed step is recorded and the run goes on (fail open).
FailStep_GoesOn(t) ==
    /\ pc[t] \in {"step", "fail"}
    /\ CheckpointStep(loc[t].run, loc[t].step, "error")
    /\ Checkpoints(t, Advance(t))
    /\ UNCHANGED <<schedVars, procVars, gateVars>>

\* Mutated form: the run is closed before the failed step is recorded.
FailStep_CloseFirst(t) ==
    /\ pc[t] = "step"
    /\ FinishRun(loc[t].run, "FAILED")
    /\ Commits(t, loc[t].wf, GoOn(t, loc[t], "record"), Done(t))
    /\ UNCHANGED <<schedVars, procVars, gateVars>>

\* Mutated form: a failed step raises out of execute() before finish_run.
FailStep_NotClosed(t) ==
    /\ pc[t] \in {"step", "fail"}
    /\ CheckpointStep(loc[t].run, loc[t].step, "error")
    /\ Checkpoints(t, Done(t))
    /\ UNCHANGED <<schedVars, procVars, gateVars>>

\* The step raised, in the executor or in its tool.
FailStep(t) ==
    /\ pc[t] \in {"step", "fail"}
    /\ CheckpointStep(loc[t].run, loc[t].step, "error")
    /\ Checkpoints(t, GoOn(t, loc[t], "finish"))
    /\ UNCHANGED <<schedVars, procVars, gateVars>>

\* Mutated form: a failed run is reported as completed.
Finish_Completed(t) ==
    /\ pc[t] = "finish"
    /\ FinishRun(loc[t].run, "COMPLETED")
    /\ Commits(t, loc[t].wf, Transition(t, loc[t], "COMPLETED", After(loc[t].op)), Done(t))
    /\ UNCHANGED <<schedVars, procVars, gateVars>>

\* Mutated form: the run is closed and the workflow left as it is.
Finish_NoTransition(t) ==
    /\ pc[t] = "finish"
    /\ FinishRun(loc[t].run, IF loc[t].step > NumSteps THEN "COMPLETED" ELSE "FAILED")
    /\ Commits(t, loc[t].wf, GoOn(t, loc[t], After(loc[t].op)), Done(t))
    /\ UNCHANGED <<schedVars, procVars, gateVars>>

Finish(t) ==
    /\ pc[t] = "finish"
    /\ LET s == IF loc[t].step > NumSteps THEN "COMPLETED" ELSE "FAILED"
       IN /\ FinishRun(loc[t].run, s)
          /\ Commits(t, loc[t].wf, Transition(t, loc[t], s, After(loc[t].op)), Done(t))
    /\ UNCHANGED <<schedVars, procVars, gateVars>>

-----------------------------------------------------------------------------
(* SchedulerRuntime *)

Running(p, w) ==
    \E t \in Threads : Home[t] = p /\ loc[t].op = "fire" /\ loc[t].wf = w

Due(p, w) == job[p][w] # 0 /\ job[p][w] <= clock

\* APScheduler moves the job to its next fire time (coalescing the missed ones)
\* and calls _fire, which reads the workflow and stamps the fire with its period.
Fire(t, w) ==
    LET p == Home[t]
    IN /\ Idle(t)
       /\ "fire" \in Ops
       /\ RunBudget
       /\ Due(p, w) /\ ~Running(p, w)
       /\ job' = [job EXCEPT ![p][w] = NextInstant(clock)]
       /\ IF ~CanRead(p) \/ wf[w].paused \/ wf[w].sched = "none" \/ wf[w].plan = "none"
            THEN UNCHANGED <<pc, loc>>
            ELSE GoOn(t, [NoLocals EXCEPT !.op = "fire", !.wf = w, !.key = RunKey(clock)], "exists")
       /\ UNCHANGED <<storeVars, clock, procVars, gateVars, lockVars>>

\* APScheduler drops a fire while the job's only instance runs (max_instances)
\* or when it comes later than the misfire grace time.
DropFire(p, w) ==
    /\ p \in up
    /\ Due(p, w)
    /\ Running(p, w) \/ job[p][w] < clock
    /\ job' = [job EXCEPT ![p][w] = NextInstant(clock)]
    /\ UNCHANGED <<storeVars, pc, loc, clock, procVars, gateVars, lockVars>>

ExistsCheck(t) ==
    /\ pc[t] = "exists"
    /\ CanRead(Home[t])
    /\ IF RunExistsForKey(loc[t].wf, loc[t].key)
         THEN Done(t)
         ELSE GoOn(t, loc[t], "arm")
    /\ UNCHANGED <<storeVars, schedVars, procVars, gateVars, lockVars>>

StoreNextRun(t) ==
    /\ pc[t] = "nextRun"
    /\ SetNextRun(loc[t].wf, TRUE)
    /\ Commits(t, loc[t].wf, Done(t), Done(t))
    /\ UNCHANGED <<schedVars, procVars, gateVars>>

\* _register: the next fire time is persisted, then the job is (re)added.
RegisterNext(t) ==
    /\ pc[t] = "registerNext"
    /\ SetNextRun(loc[t].wf, TRUE)
    /\ Commits(t, loc[t].wf, GoOn(t, loc[t], "registerJob"), Done(t))
    /\ UNCHANGED <<schedVars, procVars, gateVars>>

RegisterJob(t) ==
    /\ pc[t] = "registerJob"
    /\ job' = [job EXCEPT ![Home[t]][loc[t].wf] = NextInstant(clock)]
    /\ Done(t)
    /\ UNCHANGED <<storeVars, clock, procVars, gateVars, lockVars>>

Pause(t, w) ==
    /\ Serves(t)
    /\ "pause" \in Ops
    /\ Exists(w)
    /\ SetPaused(w, TRUE)
    /\ Commits(t, w, GoOn(t, [NoLocals EXCEPT !.op = "pause", !.wf = w], "pauseJob"), Done(t))
    /\ UNCHANGED <<schedVars, procVars, gateVars>>

PauseJob(t) ==
    /\ pc[t] = "pauseJob"
    /\ job' = [job EXCEPT ![Home[t]][loc[t].wf] = 0]
    /\ GoOn(t, loc[t], "pauseNext")
    /\ UNCHANGED <<storeVars, clock, procVars, gateVars, lockVars>>

PauseNext(t) ==
    /\ pc[t] = "pauseNext"
    /\ SetNextRun(loc[t].wf, FALSE)
    /\ Commits(t, loc[t].wf, Done(t), Done(t))
    /\ UNCHANGED <<schedVars, procVars, gateVars>>

\* schedule_json is read back after the flag is cleared; a workflow whose
\* schedule is not stored yet makes resume raise there.
Resume(t, w) ==
    /\ Serves(t)
    /\ "resume" \in Ops
    /\ wf[w].sched # "none"
    /\ SetPaused(w, FALSE)
    /\ Commits(t, w,
         IF wf[w].sched = "stored"
           THEN GoOn(t, [NoLocals EXCEPT !.op = "resume", !.wf = w], "registerNext")
           ELSE Done(t),
         Done(t))
    /\ UNCHANGED <<schedVars, procVars, gateVars>>

-----------------------------------------------------------------------------
(* "database is locked"                                                    *)

\* A request whose first write is refused.
RefuseRequest(t) ==
    /\ Serves(t)
    /\ Ops \cap {"create", "schedule", "deliver", "pause", "resume"} # {}
    /\ LeavesOpen(Home[t])
    /\ UNCHANGED <<storeVars, pc, loc, schedVars, procVars, gateVars, refused>>

\* A read or a write is refused: the handler raises.
RefuseCall(t) ==
    /\ \/ /\ pc[t] \in {"check", "arm", "exists"}
          /\ ~CanRead(Home[t])
          /\ UNCHANGED txn
       \/ /\ pc[t] \in {"write", "plan", "trigger", "typed", "stored", "registerNext",
                        "pauseNext", "start", "finish", "nextRun"}
          /\ LeavesOpen(Home[t])
    /\ Done(t)
    /\ refused' = refused \cup {loc[t].wf}
    /\ UNCHANGED <<storeVars, schedVars, procVars, gateVars>>

\* write_outbox is refused: the tool raises and the step fails.
RefuseNotify(t) ==
    /\ pc[t] = "step"
    /\ loc[t].step \in NotifySteps
    /\ LeavesOpen(Home[t])
    /\ GoOn(t, loc[t], "fail")
    /\ refused' = refused \cup {loc[t].wf}
    /\ UNCHANGED <<storeVars, schedVars, procVars, gateVars>>

\* checkpoint_step is refused: its "with" rolls the transaction back and raises
\* out of the executor.
RefuseCheckpoint(t) ==
    /\ pc[t] \in {"step", "record", "fail"}
    /\ ~CanWrite(Home[t]) \/ MayMeetReader(Home[t])
    /\ txn' = [txn EXCEPT ![Home[t]] = "none"]
    /\ Done(t)
    /\ refused' = refused \cup {loc[t].wf}
    /\ UNCHANGED <<storeVars, schedVars, procVars, gateVars>>

-----------------------------------------------------------------------------
(* Processes and time *)

\* The threads, the jobs and the transaction of process p end with it.
Ends(p) ==
    /\ up' = up \ {p}
    /\ reload' = [reload EXCEPT ![p] = {}]
    /\ pc' = [t \in Threads |-> IF Home[t] = p THEN "idle" ELSE pc[t]]
    /\ loc' = [t \in Threads |-> IF Home[t] = p THEN NoLocals ELSE loc[t]]
    /\ job' = [job EXCEPT ![p] = [w \in Workflows |-> 0]]
    /\ txn' = [txn EXCEPT ![p] = "none"]

Crash(p) ==
    /\ p \in up
    /\ crashes < MaxCrashes
    /\ Ends(p)
    /\ crashes' = crashes + 1
    /\ UNCHANGED <<storeVars, clock, gateVars, refused>>

\* The lifespan handler opens the store and runs start(), whose reload() reads
\* the schedules to register.
Restart(p) ==
    /\ p \notin up
    /\ CanRead(p)
    /\ up' = up \cup {p}
    /\ reload' = [reload EXCEPT ![p] = ScheduledWorkflows]
    /\ UNCHANGED <<storeVars, pc, loc, schedVars, crashes, gateVars, lockVars>>

\* The loop of reload(): _register for every schedule read before, whatever
\* became of it since.
ReloadNext(p) ==
    \E w \in reload[p] :
        /\ CanWrite(p)
        /\ SetNextRun(w, TRUE)
        /\ job' = [job EXCEPT ![p][w] = NextInstant(clock)]
        /\ reload' = [reload EXCEPT ![p] = @ \ {w}]
        /\ txn' = [txn EXCEPT ![p] = "none"]
        /\ UNCHANGED <<pc, loc, clock, up, crashes, gateVars, refused>>

\* A refused set_next_run raises out of start(): the application does not start.
RefuseReload(p) ==
    /\ reload[p] # {}
    /\ ~CanWrite(p) \/ MayMeetReader(p)
    /\ Ends(p)
    /\ UNCHANGED <<storeVars, clock, crashes, gateVars, refused>>

Tick ==
    /\ clock < MaxTime
    /\ clock' = clock + 1
    /\ UNCHANGED <<storeVars, pc, loc, job, procVars, gateVars, lockVars>>

-----------------------------------------------------------------------------

\* A request arrives or a job falls due.
Begin(t) ==
    \/ \E w \in Workflows :
         \/ \E op \in Ops : Create(t, w, op)
         \/ Approve(t, w)
         \/ Execute(t, w)
         \/ Fire(t, w)
         \/ Pause(t, w)
         \/ Resume(t, w)
    \/ FireEvent(t)
    \/ RefuseRequest(t)

\* A thread makes the next call of the handler it is in.
Continue(t) ==
    \/ TransitionCheck(t)
    \/ TransitionWrite(t)
    \/ StorePlan(t)
    \/ PlannerRaises(t)
    \/ StoreTrigger(t)
    \/ StoreTriggerType(t)
    \/ StoreSchedule(t)
    \/ Gate(t)
    \/ NextMatch(t)
    \/ Arm(t)
    \/ Start(t)
    \/ SkipStep(t)
    \/ RunStep(t)
    \/ NotifyStep(t)
    \/ RecordNotify(t)
    \/ FailStep(t)
    \/ Finish(t)
    \/ ExistsCheck(t)
    \/ StoreNextRun(t)
    \/ RegisterNext(t)
    \/ RegisterJob(t)
    \/ PauseJob(t)
    \/ PauseNext(t)
    \/ RefuseCall(t)
    \/ RefuseNotify(t)
    \/ RefuseCheckpoint(t)

Next ==
    \/ \E t \in Threads : Begin(t) \/ Continue(t)
    \/ \E p \in Procs :
         \/ Crash(p)
         \/ Restart(p)
         \/ ReloadNext(p)
         \/ RefuseReload(p)
         \/ \E w \in Workflows : DropFire(p, w)
    \/ Tick

Spec == Init /\ [][Next]_vars

\* A handler under way is run by its thread until it returns, and a process that
\* is down is started again and reloads.  Nothing forces a request or a fire.
Fairness ==
    /\ \A t \in Threads : WF_vars(Continue(t))
    /\ \A p \in Procs : WF_vars(Restart(p)) /\ WF_vars(ReloadNext(p) \/ RefuseReload(p))

FairSpec == Spec /\ Fairness
=============================================================================
