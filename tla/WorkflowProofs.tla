--------------------------- MODULE WorkflowProofs ---------------------------
(***************************************************************************)
(* Theorems about the workflow engine for any number of workflows, runs,   *)
(* threads, processes, steps and crashes: types first, then the runs it    *)
(* opens, that RunInv is inductive, and what follows from it; then what is *)
(* left RUNNING, and last what the gate before a run lets through.         *)
(***************************************************************************)
EXTENDS WorkflowInvariants, TLAPS

-----------------------------------------------------------------------------
(* Types *)

LEMMA NextInstantType ==
    ASSUME NEW c \in 0 .. MaxTime
    PROVE  NextInstant(c) \in 0 .. MaxTime + 2
BY EngineAssumption DEF NextInstant

LEMMA RunKeyType ==
    ASSUME NEW c \in 0 .. MaxTime
    PROVE  RunKey(c) \in Keys
BY EngineAssumption, StoreAssumption DEF RunKey, Keys

LEMMA NoLocalsType == NoLocals \in Locals
BY StoreAssumption DEF NoLocals, Locals, Op, Returns, Keys, NoKey

\* The three ways a handler's step ends keep the types of pc and loc and what
\* the thread's next call relies on.
LEMMA GoOnType ==
    ASSUME TypeInv, NEW t \in Threads, NEW l \in Locals, NEW p \in PC, GoOn(t, l, p),
           p \notin {"idle", "match"} => l.wf \in Workflows,
           p \in {"check", "write"} => l.goal \in WorkflowState,
           p \in {"step", "record", "fail", "finish"} \/ (p \in {"check", "write"} /\ l.ret = "step")
              => l.run \in RunIds /\ l.step \in 1 .. NumSteps + 1
                 /\ (p # "finish" => l.step \in Steps)
    PROVE  /\ pc' \in [Threads -> PC]
           /\ loc' \in [Threads -> Locals]
           /\ LocalsOK'
<1>1. pc' \in [Threads -> PC] /\ loc' \in [Threads -> Locals]
    BY DEF GoOn, TypeInv, TypeOK
<1>2. ASSUME NEW u \in Threads
      PROVE  /\ pc'[u] \notin {"idle", "match"} => loc'[u].wf \in Workflows
             /\ Transiting(u)' => loc'[u].goal \in WorkflowState
             /\ Holds(u)' => loc'[u].run \in RunIds /\ loc'[u].step \in 1 .. NumSteps + 1
             /\ Holds(u)' /\ pc'[u] # "finish" => loc'[u].step \in Steps
    <2>1. CASE u = t
        BY <2>1 DEF GoOn, TypeInv, TypeOK, Transiting, Holds
    <2>2. CASE u # t
        <3>1. pc'[u] = pc[u] /\ loc'[u] = loc[u]
            BY <2>2 DEF GoOn, TypeInv, TypeOK
        <3>2. QED
            BY <3>1 DEF TypeInv, LocalsOK, Transiting, Holds
    <2>3. QED
        BY <2>1, <2>2
<1>3. QED
    BY <1>1, <1>2 DEF LocalsOK

LEMMA DoneType ==
    ASSUME TypeInv, NEW t \in Threads, Done(t)
    PROVE  /\ pc' \in [Threads -> PC]
           /\ loc' \in [Threads -> Locals]
           /\ LocalsOK'
<1>1. GoOn(t, NoLocals, "idle")
    BY DEF Done
<1>2. "idle" \in PC
    BY DEF PC
<1>3. QED
    BY <1>1, <1>2, GoOnType, NoLocalsType

LEMMA TransitionType ==
    ASSUME TypeInv, NEW t \in Threads, NEW l \in Locals,
           NEW to \in WorkflowState, NEW p \in Returns, Transition(t, l, to, p), l.wf \in Workflows,
           p = "step" => l.run \in RunIds /\ l.step \in Steps
    PROVE  /\ pc' \in [Threads -> PC]
           /\ loc' \in [Threads -> Locals]
           /\ LocalsOK'
<1> DEFINE m == [l EXCEPT !.goal = to, !.ret = p]
<1>1. m \in Locals /\ m.goal = to /\ m.ret = p /\ m.run = l.run /\ m.step = l.step /\ m.wf = l.wf
    BY DEF Locals
<1>2. GoOn(t, m, "check")
    BY DEF Transition
<1>3. "check" \in PC
    BY DEF PC
<1>4. Steps \subseteq 1 .. NumSteps + 1
    BY StoreAssumption DEF Steps
<1> HIDE DEF m
<1>5. QED
    BY <1>1, <1>2, <1>3, <1>4, GoOnType

-----------------------------------------------------------------------------
(* Every method of the store keeps the types of the store. *)

LEMMA StateMethodsType ==
    ASSUME StoreTypeOK, NEW w, NEW s \in WorkflowState, CreateWorkflow(w) \/ WriteState(w, s)
    PROVE  StoreTypeOK'
BY DEF StoreTypeOK, CreateWorkflow, WriteState, WorkflowState

LEMMA SetPlanType ==
    ASSUME StoreTypeOK, NEW w \in Workflows, NEW p \in PlanKind, SetPlan(w, p)
    PROVE  StoreTypeOK'
<1>1. [wf[w] EXCEPT !.plan = p] \in WorkflowRow
    BY DEF StoreTypeOK, WorkflowRow
<1>2. wf' = [wf EXCEPT ![w] = [wf[w] EXCEPT !.plan = p]]
    BY DEF SetPlan, StoreTypeOK
<1>3. wf' \in [Workflows -> WorkflowRow]
    BY <1>1, <1>2 DEF StoreTypeOK
<1>4. QED
    BY <1>3 DEF SetPlan, StoreTypeOK

LEMMA SetTriggerType ==
    ASSUME StoreTypeOK, NEW w \in Workflows, NEW b \in BOOLEAN, SetTrigger(w, b)
    PROVE  StoreTypeOK'
<1>1. [wf[w] EXCEPT !.trigger = b] \in WorkflowRow
    BY DEF StoreTypeOK, WorkflowRow
<1>2. wf' = [wf EXCEPT ![w] = [wf[w] EXCEPT !.trigger = b]]
    BY DEF SetTrigger, StoreTypeOK
<1>3. wf' \in [Workflows -> WorkflowRow]
    BY <1>1, <1>2 DEF StoreTypeOK
<1>4. QED
    BY <1>3 DEF SetTrigger, StoreTypeOK

LEMMA SetScheduleType ==
    ASSUME StoreTypeOK, NEW w \in Workflows, NEW s \in {"typed", "stored"}, SetSchedule(w, s)
    PROVE  StoreTypeOK'
<1>1. [wf[w] EXCEPT !.sched = s] \in WorkflowRow
    BY DEF StoreTypeOK, WorkflowRow
<1>2. wf' = [wf EXCEPT ![w] = [wf[w] EXCEPT !.sched = s]]
    BY DEF SetSchedule, StoreTypeOK
<1>3. wf' \in [Workflows -> WorkflowRow]
    BY <1>1, <1>2 DEF StoreTypeOK
<1>4. QED
    BY <1>3 DEF SetSchedule, StoreTypeOK

LEMMA SetPausedType ==
    ASSUME StoreTypeOK, NEW w \in Workflows, NEW b \in BOOLEAN, SetPaused(w, b)
    PROVE  StoreTypeOK'
<1>1. [wf[w] EXCEPT !.paused = b] \in WorkflowRow
    BY DEF StoreTypeOK, WorkflowRow
<1>2. wf' = [wf EXCEPT ![w] = [wf[w] EXCEPT !.paused = b]]
    BY DEF SetPaused, StoreTypeOK
<1>3. wf' \in [Workflows -> WorkflowRow]
    BY <1>1, <1>2 DEF StoreTypeOK
<1>4. QED
    BY <1>3 DEF SetPaused, StoreTypeOK

LEMMA SetNextRunType ==
    ASSUME StoreTypeOK, NEW w \in Workflows, NEW b \in BOOLEAN, SetNextRun(w, b)
    PROVE  StoreTypeOK'
<1>1. [wf[w] EXCEPT !.nextRun = b] \in WorkflowRow
    BY DEF StoreTypeOK, WorkflowRow
<1>2. wf' = [wf EXCEPT ![w] = [wf[w] EXCEPT !.nextRun = b]]
    BY DEF SetNextRun, StoreTypeOK
<1>3. wf' \in [Workflows -> WorkflowRow]
    BY <1>1, <1>2 DEF StoreTypeOK
<1>4. QED
    BY <1>3 DEF SetNextRun, StoreTypeOK

LEMMA StartRunType ==
    ASSUME StoreTypeOK, NEW r \in RunIds, NEW w \in Workflows \cup {None},
           NEW k \in Keys \cup {NoKey}, StartRun(r, w, k)
    PROVE  StoreTypeOK'
<1> DEFINE row == [wf |-> w, key |-> k, status |-> "RUNNING", log |-> [n \in Steps |-> "none"]]
<1>1. row \in RunRow
    BY DEF RunRow, RunStatus, StepStatus
<1>2. runs' = [runs EXCEPT ![r] = row]
    BY DEF StartRun
<1> HIDE DEF row
<1>3. runs' \in [RunIds -> RunRow]
    BY <1>1, <1>2 DEF StoreTypeOK
<1>4. QED
    BY <1>3 DEF StartRun, StoreTypeOK

LEMMA CheckpointStepType ==
    ASSUME StoreTypeOK, NEW r \in RunIds, NEW n \in Steps, NEW s \in StepStatus,
           CheckpointStep(r, n, s)
    PROVE  StoreTypeOK'
<1> DEFINE log == [runs[r].log EXCEPT ![n] = s]
           row == [runs[r] EXCEPT !.log = log, !.status = "RUNNING"]
<1>1. runs[r] \in RunRow
    BY DEF StoreTypeOK
<1>2. log \in [Steps -> StepStatus]
    BY <1>1 DEF RunRow
<1>3. row \in RunRow
    BY <1>1, <1>2 DEF RunRow, RunStatus
<1>4. runs' = [runs EXCEPT ![r] = row]
    BY DEF CheckpointStep
<1> HIDE DEF row
<1>5. runs' \in [RunIds -> RunRow]
    BY <1>3, <1>4 DEF StoreTypeOK
<1>6. QED
    BY <1>5 DEF CheckpointStep, StoreTypeOK

LEMMA FinishRunType ==
    ASSUME StoreTypeOK, NEW r \in RunIds, NEW s \in RunStatus, FinishRun(r, s)
    PROVE  StoreTypeOK'
<1>1. [runs[r] EXCEPT !.status = s] \in RunRow
    BY DEF StoreTypeOK, RunRow
<1>2. runs' = [runs EXCEPT ![r] = [runs[r] EXCEPT !.status = s]]
    BY DEF FinishRun, StoreTypeOK
<1>3. runs' \in [RunIds -> RunRow]
    BY <1>1, <1>2 DEF StoreTypeOK
<1>4. QED
    BY <1>3 DEF FinishRun, StoreTypeOK

LEMMA WriteOutboxType ==
    ASSUME StoreTypeOK, NEW r \in RunIds, NEW n \in Steps, WriteOutbox(r, n)
    PROVE  StoreTypeOK'
<1>1. [outbox[r] EXCEPT ![n] = outbox[r][n] + 1] \in [Steps -> Nat]
    BY DEF StoreTypeOK
<1>2. outbox' = [outbox EXCEPT ![r] = [outbox[r] EXCEPT ![n] = outbox[r][n] + 1]]
    BY DEF WriteOutbox
<1>3. outbox' \in [RunIds -> [Steps -> Nat]]
    BY <1>1, <1>2 DEF StoreTypeOK
<1>4. QED
    BY <1>3 DEF WriteOutbox, StoreTypeOK

-----------------------------------------------------------------------------
(* Type correctness, action by action *)

\* The store and the threads ...
CodeOK ==
    /\ StoreTypeOK
    /\ pc \in [Threads -> PC]
    /\ loc \in [Threads -> Locals]
    /\ LocalsOK

\* ... and the scheduler, the processes, the lock and the histories.
RestOK ==
    /\ job \in [Procs -> [Workflows -> 0 .. MaxTime + 2]]
    /\ clock \in 0 .. MaxTime
    /\ up \subseteq Procs
    /\ reload \in [Procs -> SUBSET Workflows]
    /\ crashes \in 0 .. MaxCrashes
    /\ txn \in [Procs -> TxnState]
    /\ approved \subseteq Workflows
    /\ slipped \subseteq Workflows
    /\ refused \subseteq Workflows

LEMMA QuietStoreType ==
    ASSUME TypeInv, UNCHANGED storeVars
    PROVE  StoreTypeOK'
BY DEF TypeInv, TypeOK, StoreTypeOK, storeVars

\* What the next call may rely on of the locals of the thread that makes it.
LEMMA LocalsOf ==
    ASSUME TypeInv, NEW t \in Threads
    PROVE  /\ loc[t] \in Locals
           /\ pc[t] \notin {"idle", "match"} => loc[t].wf \in Workflows
           /\ Transiting(t) => loc[t].goal \in WorkflowState
           /\ Holds(t) => loc[t].run \in RunIds /\ loc[t].step \in 1 .. NumSteps + 1
           /\ Holds(t) /\ pc[t] # "finish" => loc[t].step \in Steps
BY DEF TypeInv, TypeOK, LocalsOK

LEMMA TransitionCheckTypeStep ==
    ASSUME TypeInv, NEW t \in Threads, TransitionCheck(t)
    PROVE  CodeOK'
<1>1. StoreTypeOK'
    BY QuietStoreType DEF TransitionCheck
<1>2. /\ Transiting(t) /\ pc[t] # "finish" /\ loc[t].goal \in WorkflowState
      /\ loc[t].wf \in Workflows
    BY LocalsOf DEF TransitionCheck, Transiting
<1>3. loc[t].ret = "step" => Holds(t)
    BY <1>2 DEF Holds
<1>4. CASE GoOn(t, loc[t], "write")
    <2>1. "write" \in PC
        BY DEF PC
    <2>2. pc' \in [Threads -> PC] /\ loc' \in [Threads -> Locals] /\ LocalsOK'
        BY <1>2, <1>3, <1>4, <2>1, GoOnType, LocalsOf
    <2>3. QED
        BY <1>1, <2>2 DEF CodeOK, TransitionCheck
<1>5. CASE Done(t)
    BY <1>1, <1>5, DoneType DEF CodeOK, TransitionCheck
<1>6. QED
    BY <1>4, <1>5 DEF TransitionCheck

LEMMA TransitionWriteTypeStep ==
    ASSUME TypeInv, NEW t \in Threads, TransitionWrite(t)
    PROVE  CodeOK'
<1> DEFINE l == [loc[t] EXCEPT !.goal = "none", !.ret = "idle"]
<1>1. /\ Transiting(t) /\ pc[t] # "finish" /\ loc[t].goal \in WorkflowState
      /\ loc[t].wf \in Workflows
    BY LocalsOf DEF TransitionWrite, Transiting
<1>2. StoreTypeOK'
    BY <1>1, StateMethodsType DEF TypeInv, TypeOK, TransitionWrite
<1>3. loc[t].ret \in Returns
    BY LocalsOf DEF Locals
<1>4. loc[t].ret = "step" => Holds(t)
    BY <1>1 DEF Holds
<1>5. l \in Locals /\ l.ret = "idle" /\ l.run = loc[t].run /\ l.step = loc[t].step /\ l.wf = loc[t].wf
    BY LocalsOf DEF Locals, Returns
<1>6. loc[t].ret \in PC /\ loc[t].ret \notin {"check", "write", "record", "fail", "finish"}
    BY <1>3 DEF Returns, PC
<1> HIDE DEF l
<1>7. pc' \in [Threads -> PC] /\ loc' \in [Threads -> Locals] /\ LocalsOK'
    <2>1. CASE Done(t)
        BY <2>1, DoneType
    <2>2. CASE GoOn(t, l, loc[t].ret)
        BY <1>1, <1>4, <1>5, <1>6, <2>2, GoOnType, LocalsOf
    <2>3. QED
        BY <2>1, <2>2 DEF TransitionWrite, Commits, l
<1>8. QED
    BY <1>2, <1>7 DEF CodeOK

\* The steps that ask for a transition, go on with a call outside a run, or
\* return: of every action but those of the executor, this is what is left of
\* pc and loc once its guard is gone.
Moves(t, l, w) ==
    \/ Done(t)
    \/ \E p \in {"plan", "trigger", "typed", "stored", "gate", "registerNext", "registerJob",
                 "pauseJob", "pauseNext", "exists", "arm", "start", "nextRun"} :
         GoOn(t, l, p) /\ w \in Workflows
    \/ GoOn(t, l, "match")
    \/ \E to \in WorkflowState, p \in Returns \ {"step"} :
         Transition(t, l, to, p) /\ w \in Workflows

LEMMA MovesType ==
    ASSUME TypeInv, NEW t \in Threads, NEW l \in Locals, Moves(t, l, l.wf)
    PROVE  pc' \in [Threads -> PC] /\ loc' \in [Threads -> Locals] /\ LocalsOK'
<1> DEFINE Calls == {"plan", "trigger", "typed", "stored", "gate", "registerNext", "registerJob",
                     "pauseJob", "pauseNext", "exists", "arm", "start", "nextRun"}
<1>1. CASE Done(t)
    BY <1>1, DoneType
<1>2. ASSUME NEW p \in Calls, GoOn(t, l, p), l.wf \in Workflows
      PROVE  pc' \in [Threads -> PC] /\ loc' \in [Threads -> Locals] /\ LocalsOK'
    <2>1. p \in PC /\ p \notin {"idle", "match", "check", "write", "step", "record", "fail", "finish"}
        BY <1>2 DEF PC
    <2>2. QED
        BY <1>2, <2>1, GoOnType
<1>3. CASE GoOn(t, l, "match")
    <2>1. "match" \in PC
        BY DEF PC
    <2>2. QED
        BY <1>3, <2>1, GoOnType
<1>4. ASSUME NEW to \in WorkflowState, NEW p \in Returns \ {"step"}, Transition(t, l, to, p),
             l.wf \in Workflows
      PROVE  pc' \in [Threads -> PC] /\ loc' \in [Threads -> Locals] /\ LocalsOK'
    BY <1>4, TransitionType
<1>5. QED
    BY <1>1, <1>2, <1>3, <1>4 DEF Moves

\* The locals a handler starts with.
LEMMA FirstLocals ==
    ASSUME NEW op \in Op, NEW w \in Workflows
    PROVE  LET l == [NoLocals EXCEPT !.op = op, !.wf = w]
           IN l \in Locals /\ l.wf = w
BY NoLocalsType DEF Locals, NoLocals

LEMMA CreateTypeStep ==
    ASSUME TypeInv, NEW t \in Threads, NEW w \in Workflows, NEW op \in Ops, Create(t, w, op)
    PROVE  CodeOK'
<1> DEFINE l == [NoLocals EXCEPT !.op = op, !.wf = w]
<1>1. op \in Op
    BY EngineAssumption
<1>2. l \in Locals /\ l.wf = w
    BY <1>1, FirstLocals
<1>3. Transition(t, l, "PLANNED", "plan") \/ Done(t)
    BY DEF Create, Commits
<1>4. "PLANNED" \in WorkflowState /\ "plan" \in Returns \ {"step"}
    BY DEF WorkflowState, Returns
<1> HIDE DEF l
<1>5. pc' \in [Threads -> PC] /\ loc' \in [Threads -> Locals] /\ LocalsOK'
    BY <1>2, <1>3, <1>4, MovesType DEF Moves
<1>6. StoreTypeOK'
    BY <1>4, StateMethodsType DEF TypeInv, TypeOK, Create
<1>7. QED
    BY <1>5, <1>6 DEF CodeOK, Create

LEMMA StorePlanTypeStep ==
    ASSUME TypeInv, NEW t \in Threads, StorePlan(t)
    PROVE  CodeOK'
<1>1. loc[t] \in Locals /\ loc[t].wf \in Workflows
    BY LocalsOf DEF StorePlan
<1>2. PICK p \in PlanKind : SetPlan(loc[t].wf, p)
    BY DEF StorePlan, PlanKind
<1>3. StoreTypeOK'
    BY <1>1, <1>2, SetPlanType DEF TypeInv, TypeOK
<1>4. "FEASIBLE" \in WorkflowState /\ "gate" \in Returns \ {"step"}
    BY DEF WorkflowState, Returns
<1>5. \/ GoOn(t, loc[t], "trigger")
      \/ GoOn(t, loc[t], "typed")
      \/ Transition(t, loc[t], "FEASIBLE", "gate")
      \/ Done(t)
    BY DEF StorePlan, Commits
<1>6. Moves(t, loc[t], loc[t].wf)
    BY <1>1, <1>4, <1>5 DEF Moves
<1>7. QED
    BY <1>1, <1>3, <1>6, MovesType DEF CodeOK, StorePlan

LEMMA PlannerRaisesTypeStep ==
    ASSUME TypeInv, NEW t \in Threads, PlannerRaises(t)
    PROVE  CodeOK'
BY QuietStoreType, DoneType DEF CodeOK, PlannerRaises

LEMMA StoreTriggerTypeStep ==
    ASSUME TypeInv, NEW t \in Threads, StoreTrigger(t)
    PROVE  CodeOK'
<1>1. loc[t] \in Locals /\ loc[t].wf \in Workflows
    BY LocalsOf DEF StoreTrigger
<1>2. StoreTypeOK'
    BY <1>1, SetTriggerType DEF TypeInv, TypeOK, StoreTrigger
<1>3. {"REJECTED", "FEASIBLE"} \subseteq WorkflowState /\ {"idle", "gate"} \subseteq Returns \ {"step"}
    BY DEF WorkflowState, Returns
<1>4. Moves(t, loc[t], loc[t].wf)
    BY <1>1, <1>3 DEF Moves, StoreTrigger, Commits
<1>5. QED
    BY <1>1, <1>2, <1>4, MovesType DEF CodeOK, StoreTrigger

LEMMA StoreTriggerTypeTypeStep ==
    ASSUME TypeInv, NEW t \in Threads, StoreTriggerType(t)
    PROVE  CodeOK'
<1>1. loc[t] \in Locals /\ loc[t].wf \in Workflows
    BY LocalsOf DEF StoreTriggerType
<1>2. StoreTypeOK'
    BY <1>1, SetScheduleType DEF TypeInv, TypeOK, StoreTriggerType
<1>3. Moves(t, loc[t], loc[t].wf)
    BY <1>1 DEF Moves, StoreTriggerType, Commits
<1>4. QED
    BY <1>1, <1>2, <1>3, MovesType DEF CodeOK, StoreTriggerType

LEMMA StoreScheduleTypeStep ==
    ASSUME TypeInv, NEW t \in Threads, StoreSchedule(t)
    PROVE  CodeOK'
<1>1. loc[t] \in Locals /\ loc[t].wf \in Workflows
    BY LocalsOf DEF StoreSchedule
<1>2. StoreTypeOK'
    BY <1>1, SetScheduleType DEF TypeInv, TypeOK, StoreSchedule
<1>3. "FEASIBLE" \in WorkflowState /\ "gate" \in Returns \ {"step"}
    BY DEF WorkflowState, Returns
<1>4. Moves(t, loc[t], loc[t].wf)
    BY <1>1, <1>3 DEF Moves, StoreSchedule, Commits
<1>5. QED
    BY <1>1, <1>2, <1>4, MovesType DEF CodeOK, StoreSchedule

LEMMA GateTypeStep ==
    ASSUME TypeInv, NEW t \in Threads, Gate(t)
    PROVE  CodeOK'
<1>1. loc[t] \in Locals /\ loc[t].wf \in Workflows
    BY LocalsOf DEF Gate
<1>2. /\ {"AWAITING_APPROVAL", "READY"} \subseteq WorkflowState
      /\ {"idle", "registerNext", "start"} \subseteq Returns \ {"step"}
    BY DEF WorkflowState, Returns
<1>3. \/ Transition(t, loc[t], "AWAITING_APPROVAL", "idle")
      \/ Transition(t, loc[t], "READY", "idle")
      \/ Transition(t, loc[t], "READY", "registerNext")
      \/ Transition(t, loc[t], "READY", "start")
    BY DEF Gate
<1>4. Moves(t, loc[t], loc[t].wf)
    BY <1>1, <1>2, <1>3 DEF Moves
<1>5. QED
    BY <1>1, <1>4, QuietStoreType, MovesType DEF CodeOK, Gate

LEMMA ApproveTypeStep ==
    ASSUME TypeInv, NEW t \in Threads, NEW w \in Workflows, Approve(t, w)
    PROVE  CodeOK'
<1> DEFINE l == [NoLocals EXCEPT !.op = "approve", !.wf = w]
<1>1. l \in Locals /\ l.wf = w
    BY FirstLocals DEF Op
<1>2. Transition(t, l, "READY", "idle")
    BY DEF Approve
<1>3. "READY" \in WorkflowState /\ "idle" \in Returns \ {"step"}
    BY DEF WorkflowState, Returns
<1> HIDE DEF l
<1>4. Moves(t, l, l.wf)
    BY <1>1, <1>2, <1>3 DEF Moves
<1>5. QED
    BY <1>1, <1>4, QuietStoreType, MovesType DEF CodeOK, Approve

LEMMA ExecuteTypeStep ==
    ASSUME TypeInv, NEW t \in Threads, NEW w \in Workflows, Execute(t, w)
    PROVE  CodeOK'
<1> DEFINE l == [NoLocals EXCEPT !.op = "execute", !.wf = w]
<1>1. l \in Locals /\ l.wf = w
    BY FirstLocals DEF Op
<1>2. GoOn(t, l, "arm")
    BY DEF Execute
<1> HIDE DEF l
<1>3. Moves(t, l, l.wf)
    BY <1>1, <1>2 DEF Moves
<1>4. QED
    BY <1>1, <1>3, QuietStoreType, MovesType DEF CodeOK, Execute

LEMMA FireEventTypeStep ==
    ASSUME TypeInv, NEW t \in Threads, FireEvent(t)
    PROVE  CodeOK'
<1> DEFINE l == [NoLocals EXCEPT !.op = "event", !.todo = WorkflowsForTrigger]
<1>1. l \in Locals
    BY NoLocalsType DEF Locals, Op, WorkflowsForTrigger
<1>2. GoOn(t, l, "match")
    BY DEF FireEvent
<1> HIDE DEF l
<1>3. Moves(t, l, l.wf)
    BY <1>2 DEF Moves
<1>4. QED
    BY <1>1, <1>3, QuietStoreType, MovesType DEF CodeOK, FireEvent

LEMMA NextMatchTypeStep ==
    ASSUME TypeInv, NEW t \in Threads, NextMatch(t)
    PROVE  CodeOK'
<1>1. CASE Done(t)
    BY <1>1, DoneType, QuietStoreType DEF CodeOK, NextMatch
<1>2. ASSUME NEW w \in loc[t].todo,
             GoOn(t, [NoLocals EXCEPT !.op = "event", !.wf = w, !.todo = loc[t].todo \ {w}], "arm")
      PROVE  CodeOK'
    <2> DEFINE l == [NoLocals EXCEPT !.op = "event", !.wf = w, !.todo = loc[t].todo \ {w}]
    <2>1. loc[t].todo \subseteq Workflows
        BY LocalsOf DEF Locals
    <2>2. l \in Locals /\ l.wf = w
        BY <2>1, NoLocalsType DEF Locals, Op
    <2>3. GoOn(t, l, "arm")
        BY <1>2
    <2> HIDE DEF l
    <2>4. Moves(t, l, l.wf)
        BY <2>1, <2>2, <2>3 DEF Moves
    <2>5. QED
        BY <2>2, <2>4, QuietStoreType, MovesType DEF CodeOK, NextMatch
<1>3. QED
    BY <1>1, <1>2 DEF NextMatch

LEMMA ArmTypeStep ==
    ASSUME TypeInv, NEW t \in Threads, Arm(t)
    PROVE  CodeOK'
<1>1. loc[t] \in Locals /\ loc[t].wf \in Workflows
    BY LocalsOf DEF Arm
<1>2. "READY" \in WorkflowState /\ "start" \in Returns \ {"step"}
    BY DEF WorkflowState, Returns
<1>3. GoOn(t, loc[t], "start") \/ Transition(t, loc[t], "READY", "start") \/ Done(t)
    BY DEF Arm
<1>4. Moves(t, loc[t], loc[t].wf)
    BY <1>1, <1>2, <1>3 DEF Moves
<1>5. QED
    BY <1>1, <1>4, QuietStoreType, MovesType DEF CodeOK, Arm

LEMMA StartTypeStep ==
    ASSUME TypeInv, NEW t \in Threads, Start(t)
    PROVE  CodeOK'
<1>1. loc[t] \in Locals /\ loc[t].wf \in Workflows /\ loc[t].key \in Keys \cup {NoKey}
    BY LocalsOf DEF Start, Locals
<1>2. ASSUME NEW r \in FreshRuns, StartRun(r, loc[t].wf, loc[t].key),
             \/ Transition(t, [loc[t] EXCEPT !.run = r, !.step = 1], "RUNNING", "step")
             \/ Done(t)
      PROVE  CodeOK'
    <2> DEFINE l == [loc[t] EXCEPT !.run = r, !.step = 1]
    <2>1. r \in RunIds
        BY DEF FreshRuns
    <2>2. 1 \in Steps /\ 1 \in 0 .. NumSteps + 1
        BY StoreAssumption DEF Steps
    <2>3. l \in Locals /\ l.wf = loc[t].wf /\ l.run = r /\ l.step = 1
        BY <1>1, <2>1, <2>2 DEF Locals
    <2>4. StoreTypeOK'
        BY <1>1, <1>2, <2>1, StartRunType DEF TypeInv, TypeOK
    <2>5. "RUNNING" \in WorkflowState /\ "step" \in Returns
        BY DEF WorkflowState, Returns
    <2>6. Transition(t, l, "RUNNING", "step") \/ Done(t)
        BY <1>2
    <2> HIDE DEF l
    <2>7. pc' \in [Threads -> PC] /\ loc' \in [Threads -> Locals] /\ LocalsOK'
        BY <1>1, <2>1, <2>2, <2>3, <2>5, <2>6, TransitionType, DoneType
    <2>8. QED
        BY <2>4, <2>7 DEF CodeOK, Start
<1>3. CASE Done(t) /\ UNCHANGED storeVars
    BY <1>3, DoneType, QuietStoreType DEF CodeOK
<1>4. QED
    BY <1>2, <1>3 DEF Start, Commits

LEMMA AdvanceType ==
    ASSUME TypeInv, NEW t \in Threads, pc[t] \in {"step", "record"}, Advance(t)
    PROVE  pc' \in [Threads -> PC] /\ loc' \in [Threads -> Locals] /\ LocalsOK'
<1> DEFINE l == [loc[t] EXCEPT !.step = loc[t].step + 1]
           p == IF loc[t].step = NumSteps THEN "finish" ELSE "step"
<1>1. /\ loc[t] \in Locals /\ loc[t].wf \in Workflows
      /\ loc[t].run \in RunIds /\ loc[t].step \in Steps
    BY LocalsOf DEF Holds
<1>2. /\ loc[t].step + 1 \in 1 .. NumSteps + 1
      /\ loc[t].step + 1 \in 0 .. NumSteps + 1
      /\ loc[t].step # NumSteps => loc[t].step + 1 \in Steps
    BY <1>1, StoreAssumption DEF Steps
<1>3. /\ l \in Locals /\ l.wf = loc[t].wf /\ l.run = loc[t].run
      /\ l.step = loc[t].step + 1
    BY <1>1, <1>2 DEF Locals
<1>4. p \in PC /\ p \in {"step", "finish"} /\ (p # "finish" => loc[t].step # NumSteps)
    BY DEF PC
<1>5. GoOn(t, l, p)
    BY DEF Advance
<1> HIDE DEF l, p
<1>6. QED
    BY <1>1, <1>2, <1>3, <1>4, <1>5, GoOnType

LEMMA SkipStepTypeStep ==
    ASSUME TypeInv, NEW t \in Threads, SkipStep(t)
    PROVE  CodeOK'
<1>1. pc[t] \in {"step", "record"} /\ loc[t].run \in RunIds /\ loc[t].step \in Steps
    BY LocalsOf DEF SkipStep, Holds
<1>2. StoreTypeOK'
    BY <1>1, CheckpointStepType DEF TypeInv, TypeOK, SkipStep, StepStatus
<1>3. Advance(t)
    BY DEF SkipStep, Checkpoints, Commits
<1>4. QED
    BY <1>1, <1>2, <1>3, AdvanceType DEF CodeOK

LEMMA RunStepTypeStep ==
    ASSUME TypeInv, NEW t \in Threads, RunStep(t)
    PROVE  CodeOK'
<1>1. pc[t] \in {"step", "record"} /\ loc[t].run \in RunIds /\ loc[t].step \in Steps
    BY LocalsOf DEF RunStep, Holds
<1>2. StoreTypeOK'
    BY <1>1, CheckpointStepType DEF TypeInv, TypeOK, RunStep, StepStatus
<1>3. Advance(t)
    BY DEF RunStep, Checkpoints, Commits
<1>4. QED
    BY <1>1, <1>2, <1>3, AdvanceType DEF CodeOK

LEMMA RecordNotifyTypeStep ==
    ASSUME TypeInv, NEW t \in Threads, RecordNotify(t)
    PROVE  CodeOK'
<1>1. pc[t] \in {"step", "record"} /\ loc[t].run \in RunIds /\ loc[t].step \in Steps
    BY LocalsOf DEF RecordNotify, Holds
<1>2. StoreTypeOK'
    BY <1>1, CheckpointStepType DEF TypeInv, TypeOK, RecordNotify, StepStatus
<1>3. Advance(t)
    BY DEF RecordNotify, Checkpoints, Commits
<1>4. QED
    BY <1>1, <1>2, <1>3, AdvanceType DEF CodeOK

LEMMA NotifyStepTypeStep ==
    ASSUME TypeInv, NEW t \in Threads, NotifyStep(t)
    PROVE  CodeOK'
<1>1. /\ loc[t] \in Locals /\ loc[t].wf \in Workflows
      /\ loc[t].run \in RunIds /\ loc[t].step \in Steps /\ loc[t].step \in 1 .. NumSteps + 1
    BY LocalsOf DEF NotifyStep, Holds
<1>2. StoreTypeOK'
    BY <1>1, WriteOutboxType DEF TypeInv, TypeOK, NotifyStep
<1>3. PICK p \in {"record", "fail"} : GoOn(t, loc[t], p) /\ p \in PC
    BY DEF NotifyStep, Commits, PC
<1>4. QED
    BY <1>1, <1>2, <1>3, GoOnType DEF CodeOK, NotifyStep

LEMMA FailStepTypeStep ==
    ASSUME TypeInv, NEW t \in Threads, FailStep(t)
    PROVE  CodeOK'
<1>1. /\ loc[t] \in Locals /\ loc[t].wf \in Workflows
      /\ loc[t].run \in RunIds /\ loc[t].step \in Steps /\ loc[t].step \in 1 .. NumSteps + 1
    BY LocalsOf DEF FailStep, Holds
<1>2. StoreTypeOK'
    BY <1>1, CheckpointStepType DEF TypeInv, TypeOK, FailStep, StepStatus
<1>3. GoOn(t, loc[t], "finish") /\ "finish" \in PC
    BY DEF FailStep, Checkpoints, Commits, PC
<1>4. QED
    BY <1>1, <1>2, <1>3, GoOnType DEF CodeOK, FailStep

LEMMA FinishTypeStep ==
    ASSUME TypeInv, NEW t \in Threads, Finish(t)
    PROVE  CodeOK'
<1>1. loc[t] \in Locals /\ loc[t].wf \in Workflows /\ loc[t].run \in RunIds
    BY LocalsOf DEF Finish, Holds
<1>2. PICK s \in {"COMPLETED", "FAILED"} :
        /\ FinishRun(loc[t].run, s)
        /\ Transition(t, loc[t], s, After(loc[t].op)) \/ Done(t)
    BY DEF Finish, Commits
<1>3. s \in RunStatus /\ s \in WorkflowState /\ After(loc[t].op) \in Returns \ {"step"}
    BY DEF RunStatus, WorkflowState, After, Returns
<1>4. StoreTypeOK'
    BY <1>1, <1>2, <1>3, FinishRunType DEF TypeInv, TypeOK
<1>5. Moves(t, loc[t], loc[t].wf)
    BY <1>1, <1>2, <1>3 DEF Moves
<1>6. QED
    BY <1>1, <1>4, <1>5, MovesType DEF CodeOK, Finish

LEMMA ClockType ==
    ASSUME TypeInv
    PROVE  /\ clock \in 0 .. MaxTime
           /\ NextInstant(clock) \in 0 .. MaxTime + 2
           /\ 0 \in 0 .. MaxTime + 2
           /\ RunKey(clock) \in Keys
BY NextInstantType, RunKeyType, EngineAssumption DEF TypeInv, TypeOK

LEMMA SameThreads ==
    ASSUME TypeInv, UNCHANGED <<pc, loc>>
    PROVE  pc' \in [Threads -> PC] /\ loc' \in [Threads -> Locals] /\ LocalsOK'
BY DEF TypeInv, TypeOK, LocalsOK, Holds, Transiting

LEMMA FireTypeStep ==
    ASSUME TypeInv, NEW t \in Threads, NEW w \in Workflows, Fire(t, w)
    PROVE  CodeOK'
<1> DEFINE l == [NoLocals EXCEPT !.op = "fire", !.wf = w, !.key = RunKey(clock)]
<1>1. StoreTypeOK'
    BY QuietStoreType DEF Fire
<1>2. l \in Locals /\ l.wf = w
    BY NoLocalsType, ClockType DEF Locals, Op
<1>3. UNCHANGED <<pc, loc>> \/ GoOn(t, l, "exists")
    BY DEF Fire
<1> HIDE DEF l
<1>4. pc' \in [Threads -> PC] /\ loc' \in [Threads -> Locals] /\ LocalsOK'
    BY <1>2, <1>3, SameThreads, MovesType DEF Moves
<1>5. QED
    BY <1>1, <1>4 DEF CodeOK

LEMMA ExistsCheckTypeStep ==
    ASSUME TypeInv, NEW t \in Threads, ExistsCheck(t)
    PROVE  CodeOK'
<1>1. loc[t] \in Locals /\ loc[t].wf \in Workflows
    BY LocalsOf DEF ExistsCheck
<1>2. Moves(t, loc[t], loc[t].wf)
    BY <1>1 DEF Moves, ExistsCheck
<1>3. QED
    BY <1>1, <1>2, QuietStoreType, MovesType DEF CodeOK, ExistsCheck

\* The calls that write next_run_at.
LEMMA NextRunTypeStep ==
    ASSUME TypeInv, NEW t \in Threads, StoreNextRun(t) \/ RegisterNext(t) \/ PauseNext(t)
    PROVE  CodeOK'
<1>1. loc[t] \in Locals /\ loc[t].wf \in Workflows
    BY LocalsOf DEF StoreNextRun, RegisterNext, PauseNext
<1>2. StoreTypeOK'
    BY <1>1, SetNextRunType DEF TypeInv, TypeOK, StoreNextRun, RegisterNext, PauseNext
<1>3. Done(t) \/ GoOn(t, loc[t], "registerJob")
    BY DEF StoreNextRun, RegisterNext, PauseNext, Commits
<1>4. Moves(t, loc[t], loc[t].wf)
    BY <1>1, <1>3 DEF Moves
<1>5. QED
    BY <1>1, <1>2, <1>4, MovesType DEF CodeOK

\* The calls that write the job table.
LEMMA JobTypeStep ==
    ASSUME TypeInv, NEW t \in Threads, RegisterJob(t) \/ PauseJob(t)
    PROVE  CodeOK'
<1>1. loc[t] \in Locals /\ loc[t].wf \in Workflows
    BY LocalsOf DEF RegisterJob, PauseJob
<1>2. Moves(t, loc[t], loc[t].wf)
    BY <1>1 DEF Moves, RegisterJob, PauseJob
<1>3. QED
    BY <1>1, <1>2, QuietStoreType, MovesType DEF CodeOK, RegisterJob, PauseJob

LEMMA PauseTypeStep ==
    ASSUME TypeInv, NEW t \in Threads, NEW w \in Workflows, Pause(t, w)
    PROVE  CodeOK'
<1> DEFINE l == [NoLocals EXCEPT !.op = "pause", !.wf = w]
<1>1. StoreTypeOK'
    BY SetPausedType DEF TypeInv, TypeOK, Pause
<1>2. l \in Locals /\ l.wf = w
    BY FirstLocals DEF Op
<1>3. GoOn(t, l, "pauseJob") \/ Done(t)
    BY DEF Pause, Commits
<1> HIDE DEF l
<1>4. Moves(t, l, l.wf)
    BY <1>2, <1>3 DEF Moves
<1>5. QED
    BY <1>1, <1>2, <1>4, MovesType DEF CodeOK

LEMMA ResumeTypeStep ==
    ASSUME TypeInv, NEW t \in Threads, NEW w \in Workflows, Resume(t, w)
    PROVE  CodeOK'
<1> DEFINE l == [NoLocals EXCEPT !.op = "resume", !.wf = w]
<1>1. StoreTypeOK'
    BY SetPausedType DEF TypeInv, TypeOK, Resume
<1>2. l \in Locals /\ l.wf = w
    BY FirstLocals DEF Op
<1>3. Done(t) \/ GoOn(t, l, "registerNext")
    BY DEF Resume, Commits
<1> HIDE DEF l
<1>4. Moves(t, l, l.wf)
    BY <1>2, <1>3 DEF Moves
<1>5. QED
    BY <1>1, <1>2, <1>4, MovesType DEF CodeOK

\* "database is locked"
LEMMA RefusalTypeStep ==
    ASSUME TypeInv, NEW t \in Threads,
           RefuseRequest(t) \/ RefuseCall(t) \/ RefuseNotify(t) \/ RefuseCheckpoint(t)
    PROVE  CodeOK'
<1>1. StoreTypeOK'
    BY QuietStoreType DEF RefuseRequest, RefuseCall, RefuseNotify, RefuseCheckpoint
<1>2. CASE UNCHANGED <<pc, loc>>
    BY <1>1, <1>2, SameThreads DEF CodeOK
<1>3. CASE Done(t)
    BY <1>1, <1>3, DoneType DEF CodeOK
<1>4. CASE RefuseNotify(t)
    <2>1. /\ loc[t] \in Locals /\ loc[t].wf \in Workflows
          /\ loc[t].run \in RunIds /\ loc[t].step \in Steps /\ loc[t].step \in 1 .. NumSteps + 1
        BY <1>4, LocalsOf DEF RefuseNotify, Holds
    <2>2. GoOn(t, loc[t], "fail") /\ "fail" \in PC
        BY <1>4 DEF RefuseNotify, PC
    <2>3. QED
        BY <1>1, <2>1, <2>2, GoOnType DEF CodeOK
<1>5. QED
    BY <1>2, <1>3, <1>4 DEF RefuseRequest, RefuseCall, RefuseCheckpoint

LEMMA EndsTypeStep ==
    ASSUME TypeInv, NEW p \in Procs, Crash(p) \/ RefuseReload(p)
    PROVE  CodeOK'
<1>1. pc' \in [Threads -> PC] /\ loc' \in [Threads -> Locals]
    BY NoLocalsType DEF Crash, RefuseReload, Ends, TypeInv, TypeOK, PC
<1>2. \A t \in Threads : pc'[t] = "idle" \/ (pc'[t] = pc[t] /\ loc'[t] = loc[t])
    BY DEF Crash, RefuseReload, Ends
<1>3. LocalsOK'
    BY <1>2 DEF TypeInv, LocalsOK, Holds, Transiting
<1>4. StoreTypeOK'
    BY QuietStoreType DEF Crash, RefuseReload
<1>5. QED
    BY <1>1, <1>3, <1>4 DEF CodeOK

LEMMA ProcessTypeStep ==
    ASSUME TypeInv, NEW p \in Procs,
           Restart(p) \/ ReloadNext(p) \/ \E w \in Workflows : DropFire(p, w)
    PROVE  CodeOK'
<1>1. StoreTypeOK'
    <2>1. CASE UNCHANGED storeVars
        BY <2>1, QuietStoreType
    <2>2. CASE ReloadNext(p)
        <3>1. reload[p] \subseteq Workflows
            BY DEF TypeInv, TypeOK
        <3>2. PICK w \in Workflows : SetNextRun(w, TRUE)
            BY <2>2, <3>1 DEF ReloadNext
        <3>3. QED
            BY <3>2, SetNextRunType DEF TypeInv, TypeOK
    <2>3. QED
        BY <2>1, <2>2 DEF Restart, DropFire
<1>2. UNCHANGED <<pc, loc>>
    BY DEF Restart, ReloadNext, DropFire
<1>3. QED
    BY <1>1, <1>2, SameThreads DEF CodeOK

LEMMA CodeStep ==
    ASSUME TypeInv, [Next]_vars
    PROVE  CodeOK'
<1>1. ASSUME NEW t \in Threads, Begin(t) PROVE CodeOK'
    BY <1>1, CreateTypeStep, ApproveTypeStep, ExecuteTypeStep, FireTypeStep, PauseTypeStep,
       ResumeTypeStep, FireEventTypeStep, RefusalTypeStep DEF Begin
<1>2. ASSUME NEW t \in Threads, Continue(t) PROVE CodeOK'
    BY <1>2, TransitionCheckTypeStep, TransitionWriteTypeStep, StorePlanTypeStep,
       PlannerRaisesTypeStep, StoreTriggerTypeStep, StoreTriggerTypeTypeStep,
       StoreScheduleTypeStep, GateTypeStep, NextMatchTypeStep, ArmTypeStep, StartTypeStep,
       SkipStepTypeStep, RunStepTypeStep, NotifyStepTypeStep, RecordNotifyTypeStep,
       FailStepTypeStep, FinishTypeStep, ExistsCheckTypeStep, NextRunTypeStep, JobTypeStep,
       RefusalTypeStep DEF Continue
<1>3. ASSUME NEW p \in Procs,
             \/ Crash(p) \/ Restart(p) \/ ReloadNext(p) \/ RefuseReload(p)
             \/ \E w \in Workflows : DropFire(p, w)
      PROVE  CodeOK'
    BY <1>3, EndsTypeStep, ProcessTypeStep
<1>4. CASE Tick \/ UNCHANGED vars
    <2>1. UNCHANGED storeVars /\ UNCHANGED <<pc, loc>>
        BY <1>4 DEF Tick, vars
    <2>2. QED
        BY <2>1, QuietStoreType, SameThreads DEF CodeOK
<1>5. QED
    BY <1>1, <1>2, <1>3, <1>4 DEF Next

-----------------------------------------------------------------------------
(* The histories and the lock *)

\* The histories only grow.
Kept == approved \subseteq approved' /\ slipped \subseteq slipped' /\ refused \subseteq refused'

\* What a call of thread t does to the lock and to the histories.
Touches(t) ==
    /\ txn' \in [Procs -> TxnState]
    /\ Kept
    /\ approved' \cup slipped' \cup refused' \subseteq Workflows

LEMMA CommitsTouches ==
    ASSUME TypeInv, NEW t \in Threads, NEW w \in Workflows, Commits(t, w, TRUE, TRUE)
    PROVE  txn' \in [Procs -> TxnState] /\ refused \subseteq refused' /\ refused' \subseteq Workflows
<1>1. Home[t] \in Procs
    BY EngineAssumption
<1>2. QED
    BY <1>1 DEF Commits, TypeInv, TypeOK, TxnState

LEMMA RefusalTouches ==
    ASSUME TypeInv, NEW t \in Threads,
           RefuseRequest(t) \/ RefuseCall(t) \/ RefuseNotify(t) \/ RefuseCheckpoint(t)
    PROVE  Touches(t)
<1>1. Home[t] \in Procs
    BY EngineAssumption
<1>2. txn' \in [Procs -> TxnState]
    BY <1>1 DEF RefuseRequest, RefuseCall, RefuseNotify, RefuseCheckpoint, LeavesOpen,
                TypeInv, TypeOK, TxnState
<1>3. UNCHANGED gateVars
    BY DEF RefuseRequest, RefuseCall, RefuseNotify, RefuseCheckpoint
<1>4. refused' = refused \/ (refused' = refused \cup {loc[t].wf} /\ loc[t].wf \in Workflows)
    BY LocalsOf DEF RefuseRequest, RefuseCall, RefuseNotify, RefuseCheckpoint
<1>5. QED
    BY <1>2, <1>3, <1>4 DEF Touches, Kept, gateVars, TypeInv, TypeOK

LEMMA BeginTouches ==
    ASSUME TypeInv, NEW t \in Threads, Begin(t)
    PROVE  Touches(t)
<1>1. ASSUME NEW w \in Workflows, (\E op \in Ops : Create(t, w, op)) \/ Pause(t, w) \/ Resume(t, w)
      PROVE  Touches(t)
    <2>1. Commits(t, w, TRUE, TRUE) /\ UNCHANGED gateVars
        BY <1>1 DEF Create, Pause, Resume, Commits
    <2>2. QED
        BY <2>1, CommitsTouches DEF Touches, Kept, gateVars, TypeInv, TypeOK
<1>2. CASE UNCHANGED gateVars /\ UNCHANGED lockVars
    BY <1>2 DEF Touches, Kept, gateVars, lockVars, TypeInv, TypeOK
<1>3. QED
    BY <1>1, <1>2, RefusalTouches DEF Begin, Approve, Execute, Fire, FireEvent

LEMMA ContinueTouches ==
    ASSUME TypeInv, NEW t \in Threads, Continue(t)
    PROVE  Touches(t)
<1>1. CASE Commits(t, loc[t].wf, TRUE, TRUE) /\ loc[t].wf \in Workflows /\ UNCHANGED gateVars
    BY <1>1, CommitsTouches DEF Touches, Kept, gateVars, TypeInv, TypeOK
<1>2. CASE UNCHANGED gateVars /\ UNCHANGED lockVars
    BY <1>2 DEF Touches, Kept, gateVars, lockVars, TypeInv, TypeOK
<1>3. CASE \/ StorePlan(t) \/ StoreTrigger(t) \/ StoreTriggerType(t) \/ StoreSchedule(t)
           \/ StoreNextRun(t) \/ RegisterNext(t) \/ PauseNext(t)
    <2>1. loc[t].wf \in Workflows
        BY <1>3, LocalsOf DEF StorePlan, StoreTrigger, StoreTriggerType, StoreSchedule,
                              StoreNextRun, RegisterNext, PauseNext
    <2>2. Commits(t, loc[t].wf, TRUE, TRUE) /\ UNCHANGED gateVars
        BY <1>3 DEF StorePlan, StoreTrigger, StoreTriggerType, StoreSchedule,
                    StoreNextRun, RegisterNext, PauseNext, Commits
    <2>3. QED
        BY <1>1, <2>1, <2>2
<1>4. CASE SkipStep(t) \/ RunStep(t) \/ NotifyStep(t) \/ RecordNotify(t) \/ FailStep(t) \/ Finish(t)
    <2>1. loc[t].wf \in Workflows
        BY <1>4, LocalsOf DEF SkipStep, RunStep, NotifyStep, RecordNotify, FailStep, Finish
    <2>2. Commits(t, loc[t].wf, TRUE, TRUE) /\ UNCHANGED gateVars
        BY <1>4 DEF SkipStep, RunStep, NotifyStep, RecordNotify, FailStep, Finish, Checkpoints,
                    Commits
    <2>3. QED
        BY <1>1, <2>1, <2>2
<1>5. CASE TransitionWrite(t)
    <2>1. loc[t].wf \in Workflows
        BY <1>5, LocalsOf DEF TransitionWrite
    <2>2. Commits(t, loc[t].wf, TRUE, TRUE)
        BY <1>5 DEF TransitionWrite, Commits
    <2>3. approved' = approved \/ approved' = approved \cup {loc[t].wf}
        BY <1>5 DEF TransitionWrite
    <2>4. UNCHANGED slipped
        BY <1>5 DEF TransitionWrite
    <2>5. QED
        BY <2>1, <2>2, <2>3, <2>4, CommitsTouches DEF Touches, Kept, TypeInv, TypeOK
<1>6. CASE Arm(t)
    <2>1. loc[t].wf \in Workflows /\ UNCHANGED <<approved, lockVars>>
        BY <1>6, LocalsOf DEF Arm
    <2>2. slipped' = slipped \/ slipped' = slipped \cup {loc[t].wf}
        BY <1>6 DEF Arm
    <2>3. QED
        BY <2>1, <2>2 DEF Touches, Kept, lockVars, TypeInv, TypeOK
<1>7. CASE Start(t)
    <2>1. loc[t].wf \in Workflows /\ Home[t] \in Procs /\ UNCHANGED gateVars
        BY <1>7, LocalsOf, EngineAssumption DEF Start
    <2>2. \/ Commits(t, loc[t].wf, TRUE, TRUE)
          \/ /\ txn' = [txn EXCEPT ![Home[t]] = IF @ = "pending" THEN @ ELSE "write"]
             /\ UNCHANGED refused
        BY <1>7 DEF Start, Commits
    <2>3. QED
        BY <1>1, <2>1, <2>2 DEF Touches, Kept, gateVars, TypeInv, TypeOK, TxnState
<1>8. CASE \/ TransitionCheck(t) \/ PlannerRaises(t) \/ Gate(t) \/ NextMatch(t) \/ ExistsCheck(t)
           \/ RegisterJob(t) \/ PauseJob(t)
    BY <1>2, <1>8 DEF TransitionCheck, PlannerRaises, Gate, NextMatch, ExistsCheck, RegisterJob,
                      PauseJob
<1>9. QED
    BY <1>3, <1>4, <1>5, <1>6, <1>7, <1>8, RefusalTouches DEF Continue

\* What any step does to the schedule, the processes, the lock and the histories.
LEMMA RestStep ==
    ASSUME TypeInv, [Next]_vars
    PROVE  RestOK' /\ Kept
<1>1. ASSUME NEW t \in Threads, Begin(t) \/ Continue(t) PROVE RestOK' /\ Kept
    <2>1. Touches(t)
        BY <1>1, BeginTouches, ContinueTouches
    <2>2. UNCHANGED <<clock, procVars>>
        BY <1>1 DEF Begin, Continue, Create, Approve, Execute, Fire, Pause, Resume, FireEvent,
                    TransitionCheck, TransitionWrite, StorePlan, PlannerRaises, StoreTrigger,
                    StoreTriggerType, StoreSchedule, Gate, NextMatch, Arm, Start, SkipStep,
                    RunStep, NotifyStep, RecordNotify, FailStep, Finish, ExistsCheck,
                    StoreNextRun, RegisterNext, RegisterJob, PauseJob, PauseNext,
                    RefuseRequest, RefuseCall, RefuseNotify, RefuseCheckpoint, schedVars
    <2>3. \/ UNCHANGED job
          \/ \E p, w : \E c \in {0, NextInstant(clock)} : job' = [job EXCEPT ![p][w] = c]
        BY <1>1 DEF Begin, Continue, Create, Approve, Execute, Fire, Pause, Resume, FireEvent,
                    TransitionCheck, TransitionWrite, StorePlan, PlannerRaises, StoreTrigger,
                    StoreTriggerType, StoreSchedule, Gate, NextMatch, Arm, Start, SkipStep,
                    RunStep, NotifyStep, RecordNotify, FailStep, Finish, ExistsCheck,
                    StoreNextRun, RegisterNext, RegisterJob, PauseJob, PauseNext,
                    RefuseRequest, RefuseCall, RefuseNotify, RefuseCheckpoint, schedVars
    <2>4. job' \in [Procs -> [Workflows -> 0 .. MaxTime + 2]]
        <3>1. {0, NextInstant(clock)} \subseteq 0 .. MaxTime + 2
            BY ClockType
        <3>2. ASSUME NEW p, NEW w, NEW c \in 0 .. MaxTime + 2, job' = [job EXCEPT ![p][w] = c]
              PROVE  job' \in [Procs -> [Workflows -> 0 .. MaxTime + 2]]
            BY <3>2 DEF TypeInv, TypeOK
        <3>3. QED
            BY <2>3, <3>1, <3>2 DEF TypeInv, TypeOK
    <2>5. QED
        BY <2>1, <2>2, <2>4 DEF RestOK, Touches, procVars, TypeInv, TypeOK
<1>2. ASSUME NEW p \in Procs, Crash(p) \/ RefuseReload(p)
      PROVE  RestOK' /\ Kept
    <2>a. Ends(p)
        BY <1>2 DEF Crash, RefuseReload
    <2>b. [w \in Workflows |-> 0] \in [Workflows -> 0 .. MaxTime + 2]
        BY ClockType
    <2>c. job' \in [Procs -> [Workflows -> 0 .. MaxTime + 2]]
        BY <2>a, <2>b DEF Ends, TypeInv, TypeOK
    <2>1. /\ up' \subseteq Procs
          /\ reload' \in [Procs -> SUBSET Workflows]
          /\ txn' \in [Procs -> TxnState]
        BY <2>a DEF Ends, TypeInv, TypeOK, TxnState
    <2>2. crashes' \in 0 .. MaxCrashes /\ UNCHANGED <<clock, gateVars, refused>>
        BY <1>2, EngineAssumption DEF Crash, RefuseReload, TypeInv, TypeOK
    <2>3. QED
        BY <2>c, <2>1, <2>2 DEF RestOK, Kept, gateVars, TypeInv, TypeOK
<1>3. ASSUME NEW p \in Procs, Restart(p) PROVE RestOK' /\ Kept
    <2>1. up' \subseteq Procs /\ reload' \in [Procs -> SUBSET Workflows]
        BY <1>3 DEF Restart, ScheduledWorkflows, TypeInv, TypeOK
    <2>2. QED
        BY <1>3, <2>1 DEF Restart, RestOK, Kept, schedVars, gateVars, lockVars, TypeInv, TypeOK
<1>4. ASSUME NEW p \in Procs, ReloadNext(p) PROVE RestOK' /\ Kept
    <2>1. PICK w \in reload[p] :
            /\ job' = [job EXCEPT ![p][w] = NextInstant(clock)]
            /\ reload' = [reload EXCEPT ![p] = @ \ {w}]
            /\ txn' = [txn EXCEPT ![p] = "none"]
            /\ UNCHANGED <<clock, up, crashes, gateVars, refused>>
        BY <1>4 DEF ReloadNext
    <2>2. /\ job' \in [Procs -> [Workflows -> 0 .. MaxTime + 2]]
          /\ reload' \in [Procs -> SUBSET Workflows]
          /\ txn' \in [Procs -> TxnState]
        BY <2>1, ClockType DEF TypeInv, TypeOK, TxnState
    <2>3. QED
        BY <2>1, <2>2 DEF RestOK, Kept, gateVars, TypeInv, TypeOK
<1>5. ASSUME NEW p \in Procs, NEW w \in Workflows, DropFire(p, w) PROVE RestOK' /\ Kept
    <2>1. job' \in [Procs -> [Workflows -> 0 .. MaxTime + 2]]
        BY <1>5, ClockType DEF DropFire, TypeInv, TypeOK
    <2>2. QED
        BY <1>5, <2>1 DEF DropFire, RestOK, Kept, procVars, gateVars, lockVars, TypeInv, TypeOK
<1>6. CASE Tick \/ UNCHANGED vars
    <2>1. clock' \in 0 .. MaxTime /\ UNCHANGED <<job, procVars, gateVars, lockVars>>
        BY <1>6, EngineAssumption DEF Tick, vars, schedVars, TypeInv, TypeOK
    <2>2. QED
        BY <2>1 DEF RestOK, Kept, procVars, gateVars, lockVars, TypeInv, TypeOK
<1>7. QED
    BY <1>1, <1>2, <1>3, <1>4, <1>5, <1>6 DEF Next

-----------------------------------------------------------------------------

LEMMA InitType == Init => TypeInv
<1> SUFFICES ASSUME Init PROVE TypeInv
    OBVIOUS
<1>1. NewWorkflow \in WorkflowRow
    BY DEF NewWorkflow, WorkflowRow, PlanKind
<1>2. NoRun \in RunRow
    BY DEF NoRun, RunRow, RunStatus, StepStatus
<1>3. StoreTypeOK
    BY <1>1, <1>2 DEF Init, StoreInit, StoreTypeOK
<1>4. TypeOK
    BY <1>3, NoLocalsType, EngineAssumption DEF Init, TypeOK, PC, TxnState
<1>5. LocalsOK
    BY DEF Init, LocalsOK, Holds, Transiting
<1>6. QED
    BY <1>4, <1>5 DEF TypeInv

LEMMA NextType == TypeInv /\ [Next]_vars => TypeInv'
BY CodeStep, RestStep DEF TypeInv, TypeOK, CodeOK, RestOK

\* Every variable keeps its type, for any number of workflows, threads,
\* processes, steps, ticks and crashes.
THEOREM TypeCorrect == Spec => []TypeOK
<1>1. TypeInv => TypeOK
    BY DEF TypeInv
<1>2. QED
    BY <1>1, InitType, NextType, PTL DEF Spec

-----------------------------------------------------------------------------
(* Two frames: a step that leaves every run alone, and a step of a thread  *)
(* inside the run it holds.                                                *)

\* What a step does to a thread that is inside a run, when it is not a step of
\* the executor: nothing, or it brings the thread's transition forward.
Rests(t) ==
    Holds(t)' =>
        /\ Holds(t)
        /\ loc'[t].run = loc[t].run /\ loc'[t].step = loc[t].step /\ loc'[t].wf = loc[t].wf
        /\ \/ pc'[t] = pc[t]
           \/ Transiting(t) /\ pc'[t] \in {"write", "step"}

LEMMA RowUnchanged ==
    ASSUME NEW r \in RunIds, runs'[r] = runs[r], outbox'[r] = outbox[r], Kept, RowOK(r)
    PROVE  RowOK(r)'
BY DEF RowOK, Passed, Kept

LEMMA HoldUnchanged ==
    ASSUME NEW t \in Threads, Rests(t), Kept, Holds(t)', HoldOK(t),
           runs'[loc[t].run] = runs[loc[t].run], outbox'[loc[t].run] = outbox[loc[t].run]
    PROVE  HoldOK(t)'
<1>1. /\ loc'[t].run = loc[t].run /\ loc'[t].step = loc[t].step /\ loc'[t].wf = loc[t].wf
      /\ pc'[t] # pc[t] => pc[t] \in {"check", "write"} /\ pc'[t] \in {"write", "step"}
    BY DEF Rests, Transiting
<1>2. CASE pc'[t] = pc[t]
    BY <1>1, <1>2 DEF HoldOK, Passed, Kept
<1>3. CASE pc[t] \in {"check", "write"} /\ pc'[t] \in {"write", "step"}
    BY <1>1, <1>3 DEF HoldOK, Passed, Kept
<1>4. QED
    BY <1>1, <1>2, <1>3

LEMMA QuietStep ==
    ASSUME RunInv, UNCHANGED <<runs, outbox>>, Kept, \A t \in Threads : Rests(t)
    PROVE  RunInv'
<1>1. \A r \in RunIds : RowOK(r)'
    BY RowUnchanged DEF RunInv
<1>2. \A t \in Threads : Holds(t)' => HoldOK(t)'
    BY HoldUnchanged DEF RunInv, Rests
<1>3. OneOwner'
    BY DEF RunInv, OneOwner, Rests
<1>4. OneRunPerPeriod'
    BY DEF RunInv, OneRunPerPeriod, Opened
<1>5. QED
    BY <1>1, <1>2, <1>3, <1>4 DEF RunInv

\* A step of thread t that writes run r, which no other thread is inside of.
LEMMA OwnStep ==
    ASSUME RunInv, NEW t \in Threads, NEW r \in RunIds, Kept,
           \A q \in RunIds \ {r} : runs'[q] = runs[q] /\ outbox'[q] = outbox[q],
           \A u \in Threads \ {t} : pc'[u] = pc[u] /\ loc'[u] = loc[u],
           \A u \in Threads \ {t} : Holds(u) => loc[u].run \in RunIds \ {r},
           RowOK(r)',
           Holds(t)' => loc'[t].run = r /\ HoldOK(t)',
           OneRunPerPeriod'
    PROVE  RunInv'
<1>1. ASSUME NEW q \in RunIds PROVE RowOK(q)'
    BY RowUnchanged DEF RunInv
<1>2. ASSUME NEW u \in Threads \ {t}
      PROVE  Holds(u)' <=> Holds(u)
    BY DEF Holds, Transiting
<1>3. ASSUME NEW u \in Threads, Holds(u)' PROVE HoldOK(u)'
    <2>1. CASE u = t
        BY <1>3, <2>1
    <2>2. CASE u # t
        <3>1. Holds(u) /\ Rests(u)
            BY <1>2, <1>3, <2>2 DEF Rests
        <3>2. QED
            BY <1>3, <2>2, <3>1, HoldUnchanged DEF RunInv
    <2>3. QED
        BY <2>1, <2>2
<1>4. OneOwner'
    BY <1>2 DEF RunInv, OneOwner
<1>5. QED
    BY <1>1, <1>3, <1>4 DEF RunInv

\* A step that opens no run and stamps none.
LEMMA SamePeriods ==
    ASSUME RunInv, NEW r \in RunIds,
           \A q \in RunIds \ {r} : runs'[q] = runs[q],
           runs'[r].wf = runs[r].wf, runs'[r].key = runs[r].key,
           runs'[r].status # "none" => runs[r].status # "none"
    PROVE  OneRunPerPeriod'
<1>1. \A q \in RunIds :
        /\ runs'[q].wf = runs[q].wf /\ runs'[q].key = runs[q].key
        /\ Opened(q)' => Opened(q)
    BY DEF Opened
<1>2. QED
    BY <1>1 DEF RunInv, OneRunPerPeriod

\* The threads another thread's call does not touch.
LEMMA GoOnOthers ==
    ASSUME TypeInv, NEW t \in Threads, NEW l, NEW p, GoOn(t, l, p)
    PROVE  /\ pc'[t] = p /\ loc'[t] = l
           /\ \A u \in Threads \ {t} : pc'[u] = pc[u] /\ loc'[u] = loc[u]
BY DEF TypeInv, TypeOK, GoOn

LEMMA OtherOwners ==
    ASSUME TypeInv, RunInv, NEW t \in Threads, Holds(t)
    PROVE  \A u \in Threads \ {t} : Holds(u) => loc[u].run \in RunIds \ {loc[t].run}
BY LocalsOf DEF RunInv, OneOwner

-----------------------------------------------------------------------------
(* The steps of the executor *)

LEMMA StartRunInv ==
    ASSUME TypeInv, RunInv, Kept, NEW t \in Threads, Start(t)
    PROVE  RunInv'
<1>1. loc[t] \in Locals /\ loc[t].wf \in Workflows /\ loc[t].key \in Keys \cup {NoKey}
    BY LocalsOf DEF Start, Locals
<1>2. ASSUME NEW r \in FreshRuns, KeyIsFree(loc[t].wf, loc[t].key),
             StartRun(r, loc[t].wf, loc[t].key),
             \/ Transition(t, [loc[t] EXCEPT !.run = r, !.step = 1], "RUNNING", "step")
             \/ Done(t)
      PROVE  RunInv'
    <2> DEFINE l == [loc[t] EXCEPT !.run = r, !.step = 1, !.goal = "RUNNING", !.ret = "step"]
    <2>1. r \in RunIds /\ runs[r].status = "none"
        BY DEF FreshRuns
    <2>2. l.run = r /\ l.step = 1 /\ l.ret = "step" /\ l.wf = loc[t].wf
        BY <1>1 DEF Locals
    <2>3. GoOn(t, l, "check") \/ GoOn(t, NoLocals, "idle")
        BY <1>2 DEF Transition, Done
    <2> HIDE DEF l
    <2>4. /\ (pc'[t] = "check" /\ loc'[t] = l) \/ pc'[t] = "idle"
          /\ \A u \in Threads \ {t} : pc'[u] = pc[u] /\ loc'[u] = loc[u]
        BY <2>3, GoOnOthers
    <2>5. /\ runs'[r].status = "RUNNING" /\ runs'[r].wf = loc[t].wf /\ runs'[r].key = loc[t].key
          /\ \A n \in Steps : runs'[r].log[n] = "none"
          /\ \A q \in RunIds \ {r} : runs'[q] = runs[q]
          /\ UNCHANGED outbox
        BY <1>2, <2>1 DEF StartRun, TypeInv, TypeOK, StoreTypeOK
    <2>6. \A n \in Steps : outbox[r][n] = 0
        BY <2>1 DEF RunInv, RowOK
    <2>7. RowOK(r)'
        BY <2>5, <2>6 DEF RowOK
    <2>8. Holds(t)' => loc'[t].run = r /\ HoldOK(t)'
        <3>1. \A m \in Steps : ~(m < 1)
            BY DEF Steps
        <3>2. CASE pc'[t] = "check" /\ loc'[t] = l
            BY <2>2, <2>5, <2>6, <3>1, <3>2 DEF HoldOK
        <3>3. QED
            BY <2>4, <3>2 DEF Holds, Transiting
    <2>9. \A u \in Threads \ {t} : Holds(u) => loc[u].run \in RunIds \ {r}
        BY <2>1, LocalsOf DEF RunInv, HoldOK
    <2>10. OneRunPerPeriod'
        BY <1>2, <2>1, <2>5 DEF RunInv, OneRunPerPeriod, Opened, KeyIsFree, RunExistsForKey
    <2>11. QED
        BY <2>1, <2>4, <2>5, <2>7, <2>8, <2>9, <2>10, OwnStep
<1>3. CASE Done(t) /\ UNCHANGED storeVars
    <2>1. pc'[t] = "idle" /\ \A u \in Threads \ {t} : pc'[u] = pc[u] /\ loc'[u] = loc[u]
        BY <1>3, GoOnOthers DEF Done
    <2>2. \A u \in Threads : Rests(u)
        BY <2>1 DEF Rests, Holds, Transiting
    <2>3. QED
        BY <1>3, <2>2, QuietStep DEF storeVars
<1>4. QED
    BY <1>2, <1>3 DEF Start, Commits

\* A step is recorded as run or skipped and the executor goes on with the next.
LEMMA AdvanceRunInv ==
    ASSUME TypeInv, RunInv, Kept, NEW t \in Threads, pc[t] \in {"step", "record"},
           NEW s \in {"ok", "skipped"}, CheckpointStep(loc[t].run, loc[t].step, s), Advance(t),
           s = "ok" => (loc[t].step \in NotifySteps <=> pc[t] = "record"),
           s = "skipped" => pc[t] = "step"
    PROVE  RunInv'
<1>1. Holds(t) /\ pc[t] # "finish"
    BY DEF Holds
<1>a. PICK r \in RunIds, n \in Steps : r = loc[t].run /\ n = loc[t].step
    BY <1>1, LocalsOf
<1> DEFINE l == [loc[t] EXCEPT !.step = n + 1]
<1>2. r \in RunIds /\ n \in Steps /\ loc[t] \in Locals
    BY LocalsOf
<1>3. HoldOK(t) /\ RowOK(r)
    BY <1>1, <1>2 DEF RunInv
<1>4. l.run = r /\ l.step = n + 1 /\ l.wf = loc[t].wf
    BY <1>2, <1>a DEF Locals
<1>5. GoOn(t, l, IF n = NumSteps THEN "finish" ELSE "step")
    BY <1>a DEF Advance
<1>6. /\ pc'[t] = (IF n = NumSteps THEN "finish" ELSE "step") /\ loc'[t] = l
      /\ \A u \in Threads \ {t} : pc'[u] = pc[u] /\ loc'[u] = loc[u]
    BY <1>5, GoOnOthers
<1>7. runs[r] \in RunRow /\ runs \in [RunIds -> RunRow] /\ runs[r].log \in [Steps -> StepStatus]
    BY <1>2 DEF TypeInv, TypeOK, StoreTypeOK, RunRow
<1>8. /\ runs'[r] = [runs[r] EXCEPT !.log = [runs[r].log EXCEPT ![n] = s], !.status = "RUNNING"]
      /\ \A q \in RunIds \ {r} : runs'[q] = runs[q]
      /\ UNCHANGED outbox
    BY <1>2, <1>7, <1>a DEF CheckpointStep
<1>9. /\ runs'[r].status = "RUNNING" /\ runs'[r].wf = runs[r].wf /\ runs'[r].key = runs[r].key
      /\ runs'[r].log = [runs[r].log EXCEPT ![n] = s]
    BY <1>7, <1>8 DEF RunRow
<1>10. /\ runs'[r].log[n] = s
       /\ \A m \in Steps \ {n} : runs'[r].log[m] = runs[r].log[m]
    BY <1>2, <1>7, <1>9
<1>11. /\ runs[r].status = "RUNNING" /\ runs[r].wf = loc[t].wf
       /\ \A m \in Steps : m < n => Passed(r, m)
       /\ \A m \in Steps : m > n => runs[r].log[m] = "none" /\ outbox[r][m] = 0
       /\ runs[r].log[n] = "none"
       /\ outbox[r][n] = IF pc[t] = "record" THEN 1 ELSE 0
    <2>1. \A m \in Steps : m > n => m >= n /\ m # n
        BY <1>2 DEF Steps
    <2>2. n >= n
        BY <1>2 DEF Steps
    <2>3. QED
        BY <1>1, <1>2, <1>3, <1>a, <2>1, <2>2 DEF HoldOK
<1> HIDE DEF l
<1>12. \A m \in Steps : m <= n => Passed(r, m)'
    BY <1>2, <1>10, <1>11 DEF Passed, Steps
<1>13. \A m \in Steps : m > n => runs'[r].log[m] = "none" /\ outbox'[r][m] = 0
    BY <1>2, <1>8, <1>10, <1>11 DEF Steps
<1>14. \A m \in Steps : m <= n \/ m > n
    BY <1>2 DEF Steps
<1> DEFINE Sent(m) ==
        \/ runs'[r].log[m] \in {"none", "ok"}
        \/ runs'[r].log[m] = "error" /\ runs'[r].wf \in refused'
<1>15. RowOK(r)'
    <2>1. \A m \in Steps : \A k \in 1 .. m - 1 : k \in Steps /\ (m <= n => k <= n)
        BY <1>2, StoreAssumption DEF Steps
    <2>2. \A m \in Steps : m <= n => \A k \in 1 .. m - 1 : Passed(r, k)'
        BY <1>12, <2>1
    <2>3. \A m \in Steps : m <= n =>
            /\ outbox'[r][m] <= 1
            /\ outbox'[r][m] > 0 => Sent(m)
            /\ m \in NotifySteps /\ runs'[r].log[m] = "ok" => outbox'[r][m] = 1
        <3>1. ASSUME NEW m \in Steps, m # n
              PROVE  /\ outbox'[r][m] <= 1
                     /\ outbox'[r][m] > 0 => Sent(m)
                     /\ m \in NotifySteps /\ runs'[r].log[m] = "ok" => outbox'[r][m] = 1
            BY <1>3, <1>8, <1>9, <1>10, <3>1 DEF RowOK, Kept
        <3>2. /\ outbox'[r][n] <= 1
              /\ outbox'[r][n] > 0 => Sent(n)
              /\ n \in NotifySteps /\ runs'[r].log[n] = "ok" => outbox'[r][n] = 1
            BY <1>8, <1>10, <1>11, <1>a
        <3>3. QED
            BY <3>1, <3>2
    <2>4. \A m \in Steps : m > n => outbox'[r][m] = 0 /\ runs'[r].log[m] = "none"
        BY <1>13
    <2>5. QED
        BY <1>9, <1>14, <2>2, <2>3, <2>4 DEF RowOK
<1>16. HoldOK(t)'
    <2>1. \A m \in Steps : (m < n + 1 <=> m <= n) /\ (m >= n + 1 <=> m > n)
        BY <1>2 DEF Steps
    <2>2. n + 1 \in Steps => n # NumSteps
        BY <1>2, StoreAssumption DEF Steps
    <2>3. QED
        BY <1>4, <1>6, <1>9, <1>11, <1>12, <1>13, <2>1, <2>2 DEF HoldOK
<1>17. \A u \in Threads \ {t} : Holds(u) => loc[u].run \in RunIds \ {r}
    BY <1>1, <1>a, OtherOwners
<1>18. OneRunPerPeriod'
    BY <1>2, <1>8, <1>9, <1>11, SamePeriods
<1>19. QED
    BY <1>2, <1>4, <1>6, <1>8, <1>15, <1>16, <1>17, <1>18, OwnStep

LEMMA SkipStepRunInv ==
    ASSUME TypeInv, RunInv, Kept, NEW t \in Threads, SkipStep(t)
    PROVE  RunInv'
BY AdvanceRunInv DEF SkipStep, Checkpoints, Commits

LEMMA RunStepRunInv ==
    ASSUME TypeInv, RunInv, Kept, NEW t \in Threads, RunStep(t)
    PROVE  RunInv'
BY AdvanceRunInv DEF RunStep, Checkpoints, Commits

LEMMA RecordNotifyRunInv ==
    ASSUME TypeInv, RunInv, Kept, NEW t \in Threads, RecordNotify(t)
    PROVE  RunInv'
<1>1. loc[t].step \in NotifySteps
    BY DEF RecordNotify, RunInv, Holds, HoldOK
<1>2. QED
    BY <1>1, AdvanceRunInv DEF RecordNotify, Checkpoints, Commits

\* The notification leaves, or the lock refuses it: before anything is written,
\* or at the commit, with the row still in the connection.
LEMMA NotifyStepRunInv ==
    ASSUME TypeInv, RunInv, Kept, NEW t \in Threads, NotifyStep(t) \/ RefuseNotify(t)
    PROVE  RunInv'
<1>1. Holds(t) /\ pc[t] = "step" /\ loc[t].step \in NotifySteps
    BY DEF NotifyStep, RefuseNotify, Holds
<1>2. PICK r \in RunIds, n \in Steps : r = loc[t].run /\ n = loc[t].step
    BY <1>1, LocalsOf
<1>3. HoldOK(t) /\ RowOK(r)
    BY <1>1, <1>2 DEF RunInv
<1>4. outbox \in [RunIds -> [Steps -> Nat]]
    BY DEF TypeInv, TypeOK, StoreTypeOK
<1>5. /\ UNCHANGED runs
      /\ \/ outbox'[r] = [outbox[r] EXCEPT ![n] = outbox[r][n] + 1] /\ NotifyStep(t)
         \/ outbox'[r] = outbox[r] /\ RefuseNotify(t)
      /\ \A q \in RunIds \ {r} : outbox'[q] = outbox[q]
    BY <1>2, <1>4 DEF NotifyStep, RefuseNotify, WriteOutbox, storeVars
<1>6. /\ loc'[t] = loc[t]
      /\ \A u \in Threads \ {t} : pc'[u] = pc[u] /\ loc'[u] = loc[u]
      /\ \/ pc'[t] = "record" /\ NotifyStep(t)
         \/ pc'[t] = "fail" /\ loc[t].wf \in refused'
    BY GoOnOthers DEF NotifyStep, RefuseNotify, Commits
<1>7. /\ runs[r].status = "RUNNING" /\ runs[r].wf = loc[t].wf
      /\ \A m \in Steps : m < n => Passed(r, m)
      /\ \A m \in Steps : m >= n => runs[r].log[m] = "none" /\ outbox[r][m] = 0
    BY <1>1, <1>2, <1>3 DEF HoldOK
<1>8. /\ \A m \in Steps \ {n} : outbox'[r][m] = outbox[r][m]
      /\ \/ outbox'[r][n] = 1
         \/ outbox'[r][n] = 0 /\ pc'[t] = "fail"
    <2>1. n >= n
        BY DEF Steps
    <2>2. outbox[r][n] = 0
        BY <1>7, <2>1
    <2>3. RefuseNotify(t) => pc'[t] = "fail"
        BY GoOnOthers DEF RefuseNotify
    <2>4. QED
        BY <1>4, <1>5, <2>2, <2>3
<1>9. RowOK(r)'
    <2>1. \A m \in 1 .. n - 1 : m \in Steps /\ m < n
        BY StoreAssumption DEF Steps
    <2>2. \A m \in 1 .. n - 1 : Passed(r, m)
        BY <1>7, <2>1
    <2>3. runs[r].log[n] = "none"
        <3>1. n >= n
            BY DEF Steps
        <3>2. QED
            BY <1>7, <3>1
    <2>4. QED
        BY <1>3, <1>5, <1>7, <1>8, <2>2, <2>3 DEF RowOK, Passed, Kept
<1>10. HoldOK(t)'
    <2>1. \A m \in Steps : m < n => Passed(r, m)'
        BY <1>5, <1>7 DEF Passed
    <2>2. loc'[t].run = r /\ loc'[t].step = n /\ n \in NotifySteps
        BY <1>1, <1>2, <1>6
    <2>3. \A m \in Steps : m >= n =>
             /\ runs'[r].log[m] = "none"
             /\ m # n => outbox'[r][m] = 0
        BY <1>5, <1>7, <1>8
    <2>4. CASE pc'[t] = "record"
        BY <1>5, <1>6, <1>7, <1>8, <2>1, <2>2, <2>3, <2>4 DEF HoldOK
    <2>5. CASE pc'[t] = "fail"
        BY <1>5, <1>6, <1>7, <1>8, <2>1, <2>2, <2>3, <2>5 DEF HoldOK
    <2>6. QED
        BY <1>6, <2>4, <2>5
<1>11. \A u \in Threads \ {t} : Holds(u) => loc[u].run \in RunIds \ {r}
    BY <1>1, <1>2, OtherOwners
<1>12. OneRunPerPeriod'
    BY <1>5, SamePeriods
<1>13. QED
    BY <1>2, <1>5, <1>6, <1>9, <1>10, <1>11, <1>12, OwnStep

LEMMA FailStepRunInv ==
    ASSUME TypeInv, RunInv, Kept, NEW t \in Threads, FailStep(t)
    PROVE  RunInv'
<1>1. Holds(t) /\ pc[t] \in {"step", "fail"}
    BY DEF FailStep, Holds
<1>2. PICK r \in RunIds, n \in Steps : r = loc[t].run /\ n = loc[t].step
    BY <1>1, LocalsOf
<1>3. HoldOK(t) /\ RowOK(r)
    BY <1>1, <1>2 DEF RunInv
<1>4. /\ runs[r] \in RunRow /\ runs \in [RunIds -> RunRow]
      /\ runs[r].log \in [Steps -> StepStatus]
    BY DEF TypeInv, TypeOK, StoreTypeOK, RunRow
<1>5. /\ runs'[r] = [runs[r] EXCEPT !.log = [runs[r].log EXCEPT ![n] = "error"], !.status = "RUNNING"]
      /\ \A q \in RunIds \ {r} : runs'[q] = runs[q]
      /\ UNCHANGED outbox
    BY <1>2, <1>4 DEF FailStep, CheckpointStep
<1>6. /\ runs'[r].status = "RUNNING" /\ runs'[r].wf = runs[r].wf /\ runs'[r].key = runs[r].key
      /\ runs'[r].log = [runs[r].log EXCEPT ![n] = "error"]
    BY <1>4, <1>5 DEF RunRow
<1>7. /\ runs'[r].log[n] = "error"
      /\ \A m \in Steps \ {n} : runs'[r].log[m] = runs[r].log[m]
    BY <1>4, <1>6
<1>8. /\ pc'[t] = "finish" /\ loc'[t] = loc[t]
      /\ \A u \in Threads \ {t} : pc'[u] = pc[u] /\ loc'[u] = loc[u]
    BY GoOnOthers DEF FailStep, Checkpoints, Commits
<1>9. /\ runs[r].status = "RUNNING" /\ runs[r].wf = loc[t].wf
      /\ \A m \in Steps : m < n => Passed(r, m)
      /\ \A m \in Steps : m >= n => runs[r].log[m] = "none"
      /\ \A m \in Steps : m >= n /\ m # n => outbox[r][m] = 0
      /\ \/ outbox[r][n] = 0
         \/ outbox[r][n] = 1 /\ runs[r].wf \in refused
    <2>1. n >= n
        BY DEF Steps
    <2>2. QED
        BY <1>1, <1>2, <1>3, <2>1 DEF HoldOK
<1>10. RowOK(r)'
    <2>1. \A m \in Steps : /\ \A k \in 1 .. m - 1 : k \in Steps /\ (m <= n => k < n)
                           /\ m <= n \/ m > n
                           /\ m > n => m >= n /\ m # n
                           /\ m >= n <=> ~(m < n)
                           /\ m < n => m <= n /\ m # n
        BY StoreAssumption DEF Steps
    <2>2. \A m \in Steps : m < n => Passed(r, m)'
        BY <1>7, <1>9, <2>1 DEF Passed
    <2>3. \A m \in Steps : m <= n => \A k \in 1 .. m - 1 : Passed(r, k)'
        BY <2>1, <2>2
    <2>4. \A m \in Steps : m > n => runs'[r].log[m] = "none" /\ outbox'[r][m] = 0
        BY <1>5, <1>7, <1>9, <2>1
    <2>5. \A m \in Steps : m < n =>
             runs'[r].log[m] = runs[r].log[m] /\ outbox'[r][m] = outbox[r][m]
        BY <1>5, <1>7, <2>1
    <2>6. \/ outbox'[r][n] = 0
          \/ outbox'[r][n] = 1 /\ runs'[r].wf \in refused'
        BY <1>5, <1>6, <1>9 DEF Kept
    <2>7. \A m \in Steps : runs'[r].log[m] # "none" => \A k \in 1 .. m - 1 : Passed(r, k)'
        BY <2>1, <2>3, <2>4
    <2>8. ASSUME NEW m \in Steps
          PROVE  /\ outbox'[r][m] <= 1
                 /\ outbox'[r][m] > 0 =>
                       /\ \/ runs'[r].log[m] \in {"none", "ok"}
                          \/ runs'[r].log[m] = "error" /\ runs'[r].wf \in refused'
                       /\ \A k \in 1 .. m - 1 : Passed(r, k)'
                 /\ m \in NotifySteps /\ runs'[r].log[m] = "ok" => outbox'[r][m] = 1
        <3>1. CASE m < n
            BY <1>3, <1>6, <2>1, <2>3, <2>5, <3>1 DEF RowOK, Kept
        <3>2. CASE m = n
            BY <1>7, <2>1, <2>3, <2>6, <3>2
        <3>3. CASE m > n
            BY <2>4, <3>3
        <3>4. QED
            BY <2>1, <3>1, <3>2, <3>3 DEF Steps
    <2>9. QED
        BY <1>6, <2>7, <2>8 DEF RowOK
<1>11. HoldOK(t)'
    <2>1. \A m \in Steps : m < n => m # n
        BY DEF Steps
    <2>2. \A m \in Steps : m < n => Passed(r, m)'
        BY <1>7, <1>9, <2>1 DEF Passed
    <2>3. loc'[t].run = r /\ loc'[t].step = n /\ runs'[r].wf = loc'[t].wf
        BY <1>2, <1>6, <1>8, <1>9
    <2>4. QED
        BY <1>6, <1>7, <1>8, <2>2, <2>3 DEF HoldOK
<1>12. \A u \in Threads \ {t} : Holds(u) => loc[u].run \in RunIds \ {r}
    BY <1>1, <1>2, OtherOwners
<1>13. OneRunPerPeriod'
    BY <1>5, <1>6, <1>9, SamePeriods
<1>14. QED
    BY <1>2, <1>5, <1>8, <1>10, <1>11, <1>12, <1>13, OwnStep

LEMMA FinishRunInv ==
    ASSUME TypeInv, RunInv, Kept, NEW t \in Threads, Finish(t)
    PROVE  RunInv'
<1>1. Holds(t) /\ pc[t] = "finish"
    BY DEF Finish, Holds
<1>2. PICK r \in RunIds : r = loc[t].run
    BY <1>1, LocalsOf
<1>3. /\ HoldOK(t) /\ RowOK(r)
      /\ loc[t] \in Locals /\ loc[t].step \in 1 .. NumSteps + 1
    BY <1>1, <1>2, LocalsOf DEF RunInv
<1>4. PICK s \in {"COMPLETED", "FAILED"} :
        /\ s = (IF loc[t].step > NumSteps THEN "COMPLETED" ELSE "FAILED")
        /\ FinishRun(r, s)
        /\ Transition(t, loc[t], s, After(loc[t].op)) \/ Done(t)
    BY <1>2 DEF Finish, Commits
<1>5. runs[r] \in RunRow /\ runs \in [RunIds -> RunRow]
    BY DEF TypeInv, TypeOK, StoreTypeOK
<1>6. /\ runs'[r].status = s /\ runs'[r].wf = runs[r].wf /\ runs'[r].key = runs[r].key
      /\ runs'[r].log = runs[r].log
      /\ \A q \in RunIds \ {r} : runs'[q] = runs[q]
      /\ UNCHANGED outbox
    BY <1>4, <1>5 DEF FinishRun, RunRow
<1>7. ~Holds(t)' /\ \A u \in Threads \ {t} : pc'[u] = pc[u] /\ loc'[u] = loc[u]
    <2> DEFINE l == [loc[t] EXCEPT !.goal = s, !.ret = After(loc[t].op)]
    <2>1. l.ret # "step"
        BY <1>3 DEF Locals, After
    <2>2. GoOn(t, l, "check") \/ GoOn(t, NoLocals, "idle")
        BY <1>4 DEF Transition, Done
    <2> HIDE DEF l
    <2>3. QED
        BY <2>1, <2>2, GoOnOthers DEF Holds, Transiting
<1>8. s = "COMPLETED" => \A n \in Steps : Passed(r, n)
    <2>1. ASSUME s = "COMPLETED" PROVE \A n \in Steps : n < loc[t].step
        BY <1>3, <1>4, <2>1, StoreAssumption DEF Steps
    <2>2. QED
        BY <1>2, <1>3, <2>1 DEF HoldOK
<1>9. s = "FAILED" => \E n \in Steps : runs[r].log[n] = "error"
    <2>1. s = "FAILED" => loc[t].step \in Steps
        BY <1>3, <1>4, StoreAssumption DEF Steps
    <2>2. QED
        BY <1>1, <1>2, <1>3, <2>1 DEF HoldOK
<1>10. RowOK(r)'
    BY <1>3, <1>6, <1>8, <1>9 DEF RowOK, Passed, Kept
<1>11. \A u \in Threads \ {t} : Holds(u) => loc[u].run \in RunIds \ {r}
    BY <1>1, <1>2, OtherOwners
<1>12. runs[r].status = "RUNNING"
    BY <1>2, <1>3 DEF HoldOK
<1>13. OneRunPerPeriod'
    BY <1>6, <1>12, SamePeriods
<1>14. QED
    BY <1>6, <1>7, <1>10, <1>11, <1>13, OwnStep

-----------------------------------------------------------------------------
(* Every other step leaves the runs alone and puts no thread into one. *)

LEMMA GoOnRests ==
    ASSUME TypeInv, NEW t \in Threads, NEW l, NEW p, GoOn(t, l, p),
           p \notin {"check", "write", "step", "record", "fail", "finish"}
    PROVE  \A u \in Threads : Rests(u)
BY GoOnOthers DEF Rests, Holds, Transiting

LEMMA DoneRests ==
    ASSUME TypeInv, NEW t \in Threads, Done(t)
    PROVE  \A u \in Threads : Rests(u)
BY GoOnRests DEF Done

LEMMA TransitionRests ==
    ASSUME TypeInv, NEW t \in Threads, NEW l \in Locals, NEW to, NEW p,
           Transition(t, l, to, p), p # "step"
    PROVE  \A u \in Threads : Rests(u)
<1> DEFINE m == [l EXCEPT !.goal = to, !.ret = p]
<1>1. m.ret = p
    BY DEF Locals
<1>2. GoOn(t, m, "check")
    BY DEF Transition
<1> HIDE DEF m
<1>3. QED
    BY <1>1, <1>2, GoOnOthers DEF Rests, Holds, Transiting

LEMMA SameThreadsRest ==
    ASSUME UNCHANGED <<pc, loc>>
    PROVE  \A u \in Threads : Rests(u)
BY DEF Rests, Holds, Transiting

LEMMA TransitionCheckRunInv ==
    ASSUME TypeInv, RunInv, Kept, NEW t \in Threads, TransitionCheck(t)
    PROVE  RunInv'
<1>1. CASE GoOn(t, loc[t], "write")
    <2>1. \A u \in Threads : Rests(u)
        BY <1>1, GoOnOthers DEF TransitionCheck, Rests, Holds, Transiting
    <2>2. QED
        BY <2>1, QuietStep DEF TransitionCheck, storeVars
<1>2. CASE Done(t)
    BY <1>2, DoneRests, QuietStep DEF TransitionCheck, storeVars
<1>3. QED
    BY <1>1, <1>2 DEF TransitionCheck

LEMMA TransitionWriteRunInv ==
    ASSUME TypeInv, RunInv, Kept, NEW t \in Threads, TransitionWrite(t)
    PROVE  RunInv'
<1> DEFINE l == [loc[t] EXCEPT !.goal = "none", !.ret = "idle"]
<1>1. loc[t] \in Locals /\ loc[t].ret \in Returns
    BY LocalsOf DEF Locals
<1>2. l.run = loc[t].run /\ l.step = loc[t].step /\ l.wf = loc[t].wf
    BY <1>1 DEF Locals
<1>3. CASE Done(t)
    BY <1>3, DoneRests, QuietStep DEF TransitionWrite, WriteState
<1>4. CASE GoOn(t, l, loc[t].ret)
    <2> HIDE DEF l
    <2>1. \A u \in Threads : Rests(u)
        BY <1>1, <1>2, <1>4, GoOnOthers DEF TransitionWrite, Rests, Holds, Transiting, Returns
    <2>2. QED
        BY <2>1, QuietStep DEF TransitionWrite, WriteState
<1>5. QED
    BY <1>3, <1>4 DEF TransitionWrite, Commits

LEMMA CreateRunInv ==
    ASSUME TypeInv, RunInv, Kept, NEW t \in Threads, NEW w \in Workflows, NEW op \in Ops,
           Create(t, w, op)
    PROVE  RunInv'
<1> DEFINE l == [NoLocals EXCEPT !.op = op, !.wf = w]
<1>1. l \in Locals
    BY FirstLocals, EngineAssumption
<1>2. Transition(t, l, "PLANNED", "plan") \/ Done(t)
    BY DEF Create, Commits
<1> HIDE DEF l
<1>3. QED
    BY <1>1, <1>2, TransitionRests, DoneRests, QuietStep DEF Create, CreateWorkflow

LEMMA ApproveRunInv ==
    ASSUME TypeInv, RunInv, Kept, NEW t \in Threads, NEW w \in Workflows, Approve(t, w)
    PROVE  RunInv'
<1> DEFINE l == [NoLocals EXCEPT !.op = "approve", !.wf = w]
<1>1. l \in Locals
    BY FirstLocals DEF Op
<1>2. Transition(t, l, "READY", "idle")
    BY DEF Approve
<1> HIDE DEF l
<1>3. QED
    BY <1>1, <1>2, TransitionRests, QuietStep DEF Approve, storeVars

LEMMA PlanRunInv ==
    ASSUME TypeInv, RunInv, Kept, NEW t \in Threads,
           StorePlan(t) \/ PlannerRaises(t) \/ StoreTrigger(t) \/ StoreTriggerType(t)
              \/ StoreSchedule(t)
    PROVE  RunInv'
<1>1. loc[t] \in Locals
    BY LocalsOf
<1>2. UNCHANGED <<runs, outbox>>
    BY DEF StorePlan, PlannerRaises, StoreTrigger, StoreTriggerType, StoreSchedule,
           SetPlan, SetTrigger, SetSchedule, storeVars
<1>3. \/ Done(t)
      \/ \E p \in {"trigger", "typed", "stored"} : GoOn(t, loc[t], p)
      \/ \E to \in WorkflowState, p \in {"gate", "idle"} : Transition(t, loc[t], to, p)
    BY DEF StorePlan, PlannerRaises, StoreTrigger, StoreTriggerType, StoreSchedule, WorkflowState,
           Commits
<1>4. \A u \in Threads : Rests(u)
    BY <1>1, <1>3, DoneRests, GoOnRests, TransitionRests
<1>5. QED
    BY <1>2, <1>4, QuietStep

LEMMA GateRunInv ==
    ASSUME TypeInv, RunInv, Kept, NEW t \in Threads, Gate(t) \/ Arm(t)
    PROVE  RunInv'
<1>1. loc[t] \in Locals
    BY LocalsOf
<1>2. UNCHANGED <<runs, outbox>>
    BY DEF Gate, Arm, storeVars
<1>3. \/ Done(t)
      \/ GoOn(t, loc[t], "start")
      \/ \E to \in WorkflowState, p \in {"idle", "registerNext", "start"} :
            Transition(t, loc[t], to, p)
    BY DEF Gate, Arm, WorkflowState
<1>4. \A u \in Threads : Rests(u)
    BY <1>1, <1>3, DoneRests, GoOnRests, TransitionRests
<1>5. QED
    BY <1>2, <1>4, QuietStep

LEMMA RequestRunInv ==
    ASSUME TypeInv, RunInv, Kept, NEW t \in Threads, NEW w \in Workflows,
           Execute(t, w) \/ Fire(t, w) \/ Pause(t, w) \/ Resume(t, w)
    PROVE  RunInv'
<1>1. UNCHANGED <<runs, outbox>>
    BY DEF Execute, Fire, Pause, Resume, SetPaused, storeVars
<1>2. \/ UNCHANGED <<pc, loc>>
      \/ Done(t)
      \/ GoOn(t, [NoLocals EXCEPT !.op = "execute", !.wf = w], "arm")
      \/ GoOn(t, [NoLocals EXCEPT !.op = "fire", !.wf = w, !.key = RunKey(clock)], "exists")
      \/ GoOn(t, [NoLocals EXCEPT !.op = "pause", !.wf = w], "pauseJob")
      \/ GoOn(t, [NoLocals EXCEPT !.op = "resume", !.wf = w], "registerNext")
    BY DEF Execute, Fire, Pause, Resume, Commits
<1>3. \A u \in Threads : Rests(u)
    BY <1>2, DoneRests, GoOnRests, SameThreadsRest
<1>4. QED
    BY <1>1, <1>3, QuietStep

LEMMA NextMatchRunInv ==
    ASSUME TypeInv, RunInv, Kept, NEW t \in Threads, NextMatch(t)
    PROVE  RunInv'
<1>1. UNCHANGED <<runs, outbox>>
    BY DEF NextMatch, storeVars
<1>2. Done(t) \/ \E l : GoOn(t, l, "arm")
    BY DEF NextMatch
<1>3. QED
    BY <1>1, <1>2, DoneRests, GoOnRests, QuietStep

LEMMA SchedulerRunInv ==
    ASSUME TypeInv, RunInv, Kept, NEW t \in Threads,
           ExistsCheck(t) \/ StoreNextRun(t) \/ RegisterNext(t) \/ RegisterJob(t)
              \/ PauseJob(t) \/ PauseNext(t)
    PROVE  RunInv'
<1>1. UNCHANGED <<runs, outbox>>
    BY DEF ExistsCheck, StoreNextRun, RegisterNext, RegisterJob, PauseJob, PauseNext,
           SetNextRun, storeVars
<1>2. Done(t) \/ \E p \in {"arm", "registerJob", "pauseNext"} : GoOn(t, loc[t], p)
    BY DEF ExistsCheck, StoreNextRun, RegisterNext, RegisterJob, PauseJob, PauseNext, Commits
<1>3. QED
    BY <1>1, <1>2, DoneRests, GoOnRests, QuietStep

LEMMA RefusalRunInv ==
    ASSUME TypeInv, RunInv, Kept, NEW t \in Threads,
           RefuseRequest(t) \/ RefuseCall(t) \/ RefuseCheckpoint(t)
    PROVE  RunInv'
<1>1. UNCHANGED <<runs, outbox>>
    BY DEF RefuseRequest, RefuseCall, RefuseCheckpoint, storeVars
<1>2. Done(t) \/ UNCHANGED <<pc, loc>>
    BY DEF RefuseRequest, RefuseCall, RefuseCheckpoint
<1>3. QED
    BY <1>1, <1>2, DoneRests, SameThreadsRest, QuietStep

LEMMA ProcessRunInv ==
    ASSUME TypeInv, RunInv, Kept, NEW p \in Procs,
           \/ Crash(p) \/ Restart(p) \/ ReloadNext(p) \/ RefuseReload(p)
           \/ \E w \in Workflows : DropFire(p, w)
    PROVE  RunInv'
<1>1. UNCHANGED <<runs, outbox>>
    BY DEF Crash, Restart, ReloadNext, RefuseReload, DropFire, SetNextRun, storeVars
<1>2. \A t \in Threads : pc'[t] = "idle" \/ (pc'[t] = pc[t] /\ loc'[t] = loc[t])
    BY DEF Crash, Restart, ReloadNext, RefuseReload, DropFire, Ends
<1>3. \A t \in Threads : Rests(t)
    BY <1>2 DEF Rests, Holds, Transiting
<1>4. QED
    BY <1>1, <1>3, QuietStep

-----------------------------------------------------------------------------

LEMMA InitRunInv == Init => RunInv
<1> SUFFICES ASSUME Init PROVE RunInv
    OBVIOUS
<1>1. \A r \in RunIds : /\ runs[r].status = "none" /\ runs[r].key = NoKey
                        /\ \A n \in Steps : runs[r].log[n] = "none" /\ outbox[r][n] = 0
    BY DEF Init, StoreInit, NoRun
<1>2. \A r \in RunIds : RowOK(r)
    BY <1>1 DEF RowOK
<1>3. \A t \in Threads : ~Holds(t)
    BY DEF Init, Holds, Transiting
<1>4. OneRunPerPeriod
    BY <1>1 DEF OneRunPerPeriod, Opened
<1>5. QED
    BY <1>2, <1>3, <1>4 DEF RunInv, OneOwner

LEMMA NextRunInv == TypeInv /\ RunInv /\ [Next]_vars => RunInv'
<1> SUFFICES ASSUME TypeInv, RunInv, [Next]_vars PROVE RunInv'
    OBVIOUS
<1>a. Kept
    BY RestStep
<1>1. ASSUME NEW t \in Threads, Begin(t) PROVE RunInv'
    <2>1. CASE FireEvent(t)
        <3>1. UNCHANGED <<runs, outbox>> /\ \A u \in Threads : Rests(u)
            BY <2>1, GoOnRests DEF FireEvent, storeVars
        <3>2. QED
            BY <1>a, <3>1, QuietStep
    <2>2. ASSUME NEW w \in Workflows,
                 \/ \E op \in Ops : Create(t, w, op)
                 \/ Approve(t, w)
                 \/ Execute(t, w)
                 \/ Fire(t, w)
                 \/ Pause(t, w)
                 \/ Resume(t, w)
          PROVE  RunInv'
        BY <1>a, <2>2, CreateRunInv, ApproveRunInv, RequestRunInv
    <2>3. QED
        BY <1>1, <1>a, <2>1, <2>2, RefusalRunInv DEF Begin
<1>2. ASSUME NEW t \in Threads, Continue(t) PROVE RunInv'
    BY <1>2, <1>a, TransitionCheckRunInv, TransitionWriteRunInv, PlanRunInv, GateRunInv,
       NextMatchRunInv, StartRunInv, SkipStepRunInv, RunStepRunInv, NotifyStepRunInv,
       RecordNotifyRunInv, FailStepRunInv, FinishRunInv, SchedulerRunInv, RefusalRunInv
       DEF Continue
<1>3. ASSUME NEW p \in Procs,
             \/ Crash(p) \/ Restart(p) \/ ReloadNext(p) \/ RefuseReload(p)
             \/ \E w \in Workflows : DropFire(p, w)
      PROVE  RunInv'
    BY <1>3, <1>a, ProcessRunInv
<1>4. CASE Tick \/ UNCHANGED vars
    <2>1. UNCHANGED <<runs, outbox, pc, loc>>
        BY <1>4 DEF Tick, vars, storeVars
    <2>2. QED
        BY <1>a, <2>1, SameThreadsRest, QuietStep
<1>5. QED
    BY <1>1, <1>2, <1>3, <1>4 DEF Next

\* Every run is either as its thread's position says or as its finished or
\* abandoned record says, and no two threads are inside the same run.
THEOREM RunInvariant == Spec => [](TypeInv /\ RunInv)
<1>1. Init => TypeInv /\ RunInv
    BY InitType, InitRunInv
<1>2. TypeInv /\ RunInv /\ [Next]_vars => (TypeInv /\ RunInv)'
    BY NextType, NextRunInv
<1>3. QED
    BY <1>1, <1>2, PTL DEF Spec

\* No period of a workflow has two runs, however many processes fire it, in
\* whatever order their reads and writes fall, and wherever they crash.
THEOREM NoSecondRun == Spec => []OneRunPerPeriod
<1>1. RunInv => OneRunPerPeriod
    BY DEF RunInv
<1>2. QED
    BY <1>1, RunInvariant, PTL

\* Checkpoints are written in order, without holes, and stop at the first error.
THEOREM CheckpointsInOrder == Spec => []LogInOrder
<1>1. RunInv => LogInOrder
    BY DEF RunInv, RowOK, LogInOrder
<1>2. QED
    BY <1>1, RunInvariant, PTL

\* A run's final status is the one its checkpoints tell.
THEOREM OutcomeIsTheLog == Spec => []OutcomeMatchesLog
<1>1. RunInv => OutcomeMatchesLog
    BY DEF RunInv, RowOK, OutcomeMatchesLog
<1>2. QED
    BY <1>1, RunInvariant, PTL

\* Notifications leave once per run, in order, none for a step recorded as skipped,
\* and none for one recorded as failed unless the database was locked.
THEOREM EffectsAreTheLog == Spec => []EffectsMatchLog
<1>1. RunInv => EffectsMatchLog
    BY DEF RunInv, RowOK, EffectsMatchLog
<1>2. QED
    BY <1>1, RunInvariant, PTL

-----------------------------------------------------------------------------
(* What a step may do to the runs and their notifications. *)

\* Open run r.
Opens(r) ==
    /\ runs[r].status = "none"
    /\ \A q \in RunIds \ {r} : runs'[q] = runs[q]
    /\ UNCHANGED outbox

\* Record something of run r, which is under way.
Records(r) ==
    /\ runs[r].status = "RUNNING"
    /\ runs'[r].wf = runs[r].wf /\ runs'[r].key = runs[r].key
    /\ \A q \in RunIds \ {r} : runs'[q] = runs[q]
    /\ UNCHANGED outbox

\* Send the notification of step n of run r, which is under way, for the first time.
Notifies(r, n) ==
    /\ runs[r].status = "RUNNING"
    /\ outbox[r][n] = 0
    /\ outbox'[r][n] = 1
    /\ \A m \in Steps \ {n} : outbox'[r][m] = outbox[r][m]
    /\ \A q \in RunIds \ {r} : outbox'[q] = outbox[q]
    /\ UNCHANGED runs

LEMMA HeldRunIsRunning ==
    ASSUME TypeInv, RunInv, NEW t \in Threads, Holds(t)
    PROVE  loc[t].run \in RunIds /\ runs[loc[t].run].status = "RUNNING"
BY LocalsOf DEF RunInv, HoldOK

LEMMA CheckpointRecords ==
    ASSUME TypeInv, NEW r \in RunIds, NEW n, NEW s, runs[r].status = "RUNNING",
           CheckpointStep(r, n, s)
    PROVE  Records(r)
<1>1. runs[r] \in RunRow /\ runs \in [RunIds -> RunRow]
    BY DEF TypeInv, TypeOK, StoreTypeOK
<1>2. /\ runs'[r] = [runs[r] EXCEPT !.log = [runs[r].log EXCEPT ![n] = s], !.status = "RUNNING"]
      /\ \A q \in RunIds \ {r} : runs'[q] = runs[q]
      /\ UNCHANGED outbox
    BY <1>1 DEF CheckpointStep
<1>3. runs'[r].wf = runs[r].wf /\ runs'[r].key = runs[r].key
    BY <1>1, <1>2 DEF RunRow
<1>4. QED
    BY <1>2, <1>3 DEF Records

LEMMA RunSteps ==
    ASSUME TypeInv, RunInv, [Next]_vars
    PROVE  \/ UNCHANGED <<runs, outbox>>
           \/ \E r \in RunIds : Opens(r) \/ Records(r)
           \/ \E r \in RunIds, n \in NotifySteps : Notifies(r, n)
<1>1. CASE Tick \/ UNCHANGED vars
    BY <1>1 DEF Tick, vars, storeVars
<1>2. ASSUME NEW p \in Procs,
             \/ Crash(p) \/ Restart(p) \/ ReloadNext(p) \/ RefuseReload(p)
             \/ \E w \in Workflows : DropFire(p, w)
      PROVE  UNCHANGED <<runs, outbox>>
    BY <1>2 DEF Crash, Restart, ReloadNext, RefuseReload, DropFire, SetNextRun, storeVars
<1>3. ASSUME NEW t \in Threads, Begin(t) PROVE UNCHANGED <<runs, outbox>>
    BY <1>3 DEF Begin, Create, Approve, Execute, Fire, Pause, Resume, FireEvent, RefuseRequest,
                CreateWorkflow, SetPaused, storeVars
<1>4. ASSUME NEW t \in Threads,
             \/ TransitionCheck(t) \/ TransitionWrite(t) \/ StorePlan(t) \/ PlannerRaises(t)
             \/ StoreTrigger(t) \/ StoreTriggerType(t) \/ StoreSchedule(t) \/ Gate(t)
             \/ NextMatch(t) \/ Arm(t) \/ ExistsCheck(t) \/ StoreNextRun(t) \/ RegisterNext(t)
             \/ RegisterJob(t) \/ PauseJob(t) \/ PauseNext(t)
             \/ RefuseCall(t) \/ RefuseNotify(t) \/ RefuseCheckpoint(t)
      PROVE  UNCHANGED <<runs, outbox>>
    BY <1>4 DEF TransitionCheck, TransitionWrite, StorePlan, PlannerRaises, StoreTrigger,
                StoreTriggerType, StoreSchedule, Gate, NextMatch, Arm, ExistsCheck, StoreNextRun,
                RegisterNext, RegisterJob, PauseJob, PauseNext,
                RefuseCall, RefuseNotify, RefuseCheckpoint,
                WriteState, SetPlan, SetTrigger, SetSchedule, SetNextRun, storeVars
<1>5. ASSUME NEW t \in Threads, Start(t)
      PROVE  UNCHANGED <<runs, outbox>> \/ \E r \in RunIds : Opens(r)
    <2>1. CASE UNCHANGED storeVars
        BY <2>1 DEF storeVars
    <2>2. ASSUME NEW r \in FreshRuns, StartRun(r, loc[t].wf, loc[t].key) PROVE Opens(r)
        BY <2>2 DEF FreshRuns, StartRun, Opens, TypeInv, TypeOK, StoreTypeOK
    <2>3. QED
        BY <1>5, <2>1, <2>2 DEF Start, FreshRuns
<1>6. ASSUME NEW t \in Threads, SkipStep(t) \/ RunStep(t) \/ RecordNotify(t) \/ FailStep(t)
      PROVE  \E r \in RunIds : Records(r)
    <2>1. Holds(t)
        BY <1>6 DEF SkipStep, RunStep, RecordNotify, FailStep, Holds
    <2>2. QED
        BY <1>6, <2>1, HeldRunIsRunning, CheckpointRecords
           DEF SkipStep, RunStep, RecordNotify, FailStep
<1>7. ASSUME NEW t \in Threads, Finish(t) PROVE \E r \in RunIds : Records(r)
    <2>1. Holds(t)
        BY <1>7 DEF Finish, Holds
    <2>2. PICK r \in RunIds : r = loc[t].run /\ runs[r].status = "RUNNING"
        BY <2>1, HeldRunIsRunning
    <2>3. runs[r] \in RunRow /\ runs \in [RunIds -> RunRow]
        BY DEF TypeInv, TypeOK, StoreTypeOK
    <2>4. PICK s : FinishRun(r, s)
        BY <1>7, <2>2 DEF Finish
    <2>5. runs'[r].wf = runs[r].wf /\ runs'[r].key = runs[r].key
        BY <2>3, <2>4 DEF FinishRun, RunRow
    <2>6. QED
        BY <2>2, <2>3, <2>4, <2>5 DEF FinishRun, Records
<1>8. ASSUME NEW t \in Threads, NotifyStep(t)
      PROVE  \E r \in RunIds, n \in NotifySteps : Notifies(r, n)
    <2>1. Holds(t) /\ pc[t] = "step"
        BY <1>8 DEF NotifyStep, Holds
    <2>2. PICK r \in RunIds, n \in Steps : r = loc[t].run /\ n = loc[t].step
        BY <2>1, LocalsOf
    <2>3. outbox \in [RunIds -> [Steps -> Nat]] /\ n >= n
        BY DEF TypeInv, TypeOK, StoreTypeOK, Steps
    <2>4. outbox[r][n] = 0 /\ runs[r].status = "RUNNING"
        BY <2>1, <2>2, <2>3 DEF RunInv, HoldOK
    <2>5. /\ UNCHANGED runs
          /\ outbox'[r] = [outbox[r] EXCEPT ![n] = outbox[r][n] + 1]
          /\ \A q \in RunIds \ {r} : outbox'[q] = outbox[q]
        BY <1>8, <2>2, <2>3 DEF NotifyStep, WriteOutbox
    <2>6. n \in NotifySteps
        BY <1>8, <2>2 DEF NotifyStep
    <2>7. QED
        BY <2>3, <2>4, <2>5, <2>6 DEF Notifies
<1>9. QED
    BY <1>1, <1>2, <1>3, <1>4, <1>5, <1>6, <1>7, <1>8 DEF Next, Continue

\* A finished run is never written again: neither its row, nor its
\* checkpoints, nor its notifications.
THEOREM FinishedStays == Spec => FinishedRunIsFinal
<1>1. ASSUME TypeInv, RunInv, [Next]_vars, NEW r \in RunIds,
             runs[r].status \in {"COMPLETED", "FAILED"}
      PROVE  runs'[r] = runs[r] /\ outbox'[r] = outbox[r]
    BY <1>1, RunSteps DEF Opens, Records, Notifies
<1>2. TypeInv /\ RunInv /\ [Next]_vars
        => [\A r \in RunIds :
              runs[r].status \in {"COMPLETED", "FAILED"} =>
                 runs'[r] = runs[r] /\ outbox'[r] = outbox[r]]_vars
    BY <1>1
<1>3. QED
    BY <1>2, RunInvariant, PTL DEF Spec, FinishedRunIsFinal

-----------------------------------------------------------------------------
(* The engine implements ReportLedger. *)

LEMMA LedgerInit == Init => Ledger!Init
<1>1. ASSUME Init, NEW x \in Workflows \X Keys \X NotifySteps PROVE senders[x] = {}
    <2>1. x[3] \in Steps
        BY StoreAssumption DEF Steps
    <2>2. QED
        BY <1>1, <2>1 DEF Init, StoreInit, senders
<1>2. QED
    BY <1>1 DEF Ledger!Init, Ledger!Report, senders

\* A step after which the same runs have sent the same reports.
LEMMA LedgerStutters ==
    ASSUME \A r \in RunIds, n \in NotifySteps, w \in Workflows, k \in Keys :
              (runs'[r].wf = w /\ runs'[r].key = k /\ outbox'[r][n] > 0)
                 <=> (runs[r].wf = w /\ runs[r].key = k /\ outbox[r][n] > 0)
    PROVE  senders' = senders
<1>1. \A x \in Workflows \X Keys \X NotifySteps :
        /\ x[1] \in Workflows /\ x[2] \in Keys /\ x[3] \in NotifySteps
    OBVIOUS
<1>2. \A x \in Workflows \X Keys \X NotifySteps :
        {r \in RunIds : runs'[r].wf = x[1] /\ runs'[r].key = x[2] /\ outbox'[r][x[3]] > 0}
         = {r \in RunIds : runs[r].wf = x[1] /\ runs[r].key = x[2] /\ outbox[r][x[3]] > 0}
    BY <1>1
<1>3. QED
    BY <1>2 DEF senders

LEMMA LedgerNext ==
    ASSUME TypeInv, RunInv, [Next]_vars
    PROVE  [Ledger!Next]_senders
<1>1. CASE UNCHANGED <<runs, outbox>>
    BY <1>1, LedgerStutters
<1>2. ASSUME NEW r \in RunIds, Opens(r) PROVE senders' = senders
    <2>1. \A n \in NotifySteps : n \in Steps
        BY StoreAssumption DEF Steps
    <2>2. \A n \in NotifySteps : outbox[r][n] = 0 /\ outbox'[r][n] = 0
        BY <1>2, <2>1 DEF Opens, RunInv, RowOK
    <2>3. QED
        BY <1>2, <2>2, LedgerStutters DEF Opens
<1>3. ASSUME NEW r \in RunIds, Records(r) PROVE senders' = senders
    BY <1>3, LedgerStutters DEF Records
<1>4. ASSUME NEW r \in RunIds, NEW n \in NotifySteps, Notifies(r, n)
      PROVE  [Ledger!Next]_senders
    <2> DEFINE x == <<runs[r].wf, runs[r].key, n>>
    <2>1. n \in Steps
        BY StoreAssumption DEF Steps
    <2>2. /\ \A q \in RunIds, m \in NotifySteps :
               q # r \/ m # n => outbox'[q][m] = outbox[q][m]
          /\ UNCHANGED runs /\ outbox'[r][n] = 1 /\ outbox[r][n] = 0
        BY <1>4, StoreAssumption DEF Notifies, Steps
    <2>3. CASE runs[r].key = NoKey \/ runs[r].wf \notin Workflows
        <3>1. NoKey \notin Keys
            BY StoreAssumption DEF NoKey, Keys
        <3>2. QED
            BY <2>2, <2>3, <3>1, LedgerStutters
    <2>4. CASE runs[r].key # NoKey /\ runs[r].wf \in Workflows
        <3>1. runs[r].key \in Keys
            BY <2>4 DEF TypeInv, TypeOK, StoreTypeOK, RunRow
        <3>2. x \in Workflows \X Keys \X NotifySteps /\ x[1] = runs[r].wf /\ x[2] = runs[r].key
              /\ x[3] = n
            BY <2>4, <3>1
        <3>3. \A q \in RunIds : outbox[q][n] > 0 => Opened(q)
            BY <2>1 DEF RunInv, RowOK, Opened
        <3>4. Opened(r)
            BY <1>4 DEF Notifies, Opened
        <3>5. \A q \in RunIds \ {r} :
                 ~(runs[q].wf = runs[r].wf /\ runs[q].key = runs[r].key /\ outbox[q][n] > 0)
            BY <2>4, <3>3, <3>4 DEF RunInv, OneRunPerPeriod
        <3>6. senders[x] = {}
            BY <2>2, <3>2, <3>5 DEF senders
        <3>7. senders'[x] = {r}
            <4>1. senders'[x] = {q \in RunIds : /\ runs'[q].wf = x[1] /\ runs'[q].key = x[2]
                                                /\ outbox'[q][x[3]] > 0}
                BY <3>2 DEF senders
            <4>2. QED
                BY <2>2, <3>2, <3>5, <4>1
        <3>8. \A y \in (Workflows \X Keys \X NotifySteps) \ {x} : senders'[y] = senders[y]
            <4>1. ASSUME NEW y \in (Workflows \X Keys \X NotifySteps) \ {x}, NEW q \in RunIds
                  PROVE  (runs'[q].wf = y[1] /\ runs'[q].key = y[2] /\ outbox'[q][y[3]] > 0)
                          <=> (runs[q].wf = y[1] /\ runs[q].key = y[2] /\ outbox[q][y[3]] > 0)
                <5>1. CASE q # r \/ y[3] # n
                    BY <2>2, <5>1
                <5>2. CASE q = r /\ y[3] = n
                    <6>1. ~(runs[r].wf = y[1] /\ runs[r].key = y[2])
                        BY <5>2
                    <6>2. QED
                        BY <2>2, <5>2, <6>1
                <5>3. QED
                    BY <5>1, <5>2
            <4>2. QED
                BY <4>1 DEF senders
        <3>9. senders' = [senders EXCEPT ![x] = {r}]
            BY <3>2, <3>7, <3>8 DEF senders
        <3>10. Ledger!Send(x, r)
            BY <3>6, <3>9 DEF Ledger!Send
        <3>11. QED
            BY <3>2, <3>10 DEF Ledger!Next, Ledger!Report
    <2>5. QED
        BY <2>3, <2>4
<1>5. QED
    BY <1>1, <1>2, <1>3, <1>4, RunSteps

\* The engine implements the ledger: no report of a period leaves twice, or
\* from two runs.
THEOREM ImplementsLedger == Spec => NoDuplicateReport
<1>1. Init => Ledger!Init
    BY LedgerInit
<1>2. TypeInv /\ RunInv /\ [Next]_vars => [Ledger!Next]_senders
    BY LedgerNext
<1>3. QED
    BY <1>1, <1>2, RunInvariant, PTL DEF Spec, NoDuplicateReport, Ledger!Spec

-----------------------------------------------------------------------------
(* What is left RUNNING when no handler is cut short. *)

\* No other thread than t moves, and no process starts, ends or reloads.
Only(t) ==
    /\ \A u \in Threads \ {t} : pc'[u] = pc[u] /\ loc'[u] = loc[u]
    /\ UNCHANGED procVars

LEMMA GoOnOnly ==
    ASSUME TypeInv, NEW t \in Threads, NEW l, NEW p, GoOn(t, l, p), UNCHANGED procVars
    PROVE  Only(t) /\ pc'[t] = p /\ loc'[t] = l
BY GoOnOthers DEF Only

LEMMA DoneOnly ==
    ASSUME TypeInv, NEW t \in Threads, Done(t), UNCHANGED procVars
    PROVE  Only(t) /\ pc'[t] = "idle"
BY GoOnOnly DEF Done

\* Where a handler that opens no run and holds none may go.
GoesElsewhere(t) ==
    \/ pc'[t] \notin {"check", "write"}
    \/ loc'[t].goal # "RUNNING" /\ loc'[t].ret # "step"

LEMMA TransitionElsewhere ==
    ASSUME TypeInv, NEW t \in Threads, NEW l \in Locals, NEW to, NEW p, UNCHANGED procVars,
           Transition(t, l, to, p), p # "step", to # "RUNNING"
    PROVE  Only(t) /\ GoesElsewhere(t)
<1> DEFINE m == [l EXCEPT !.goal = to, !.ret = p]
<1>1. m.ret = p /\ m.goal = to
    BY DEF Locals
<1>2. GoOn(t, m, "check")
    BY DEF Transition
<1> HIDE DEF m
<1>3. QED
    BY <1>1, <1>2, GoOnOnly DEF GoesElsewhere

LEMMA SameProcesses ==
    ASSUME StrandInv, UNCHANGED procVars
    PROVE  DownAfterCrash'
BY DEF StrandInv, DownAfterCrash, procVars

\* A thread outside a run makes a call that is not about runs.
LEMMA OutsideStep ==
    ASSUME StrandInv, Kept, NEW t \in Threads, Only(t), GoesElsewhere(t),
           pc[t] \notin {"check", "write", "step", "record", "fail", "finish"},
           UNCHANGED <<runs, outbox>>,
           \A w \in Workflows : wstate'[w] = "RUNNING" => wstate[w] = "RUNNING"
    PROVE  StrandInv'
<1>1. \A u \in Threads : Holds(u) => Holds(u)' /\ loc'[u].run = loc[u].run
    BY DEF Only, Holds, Transiting
<1>2. \A u \in Threads, w \in Workflows : Carries(u, w) => Carries(u, w)'
    BY DEF Only, Carries, Transiting
<1>3. StartsFirst'
    BY DEF StrandInv, StartsFirst, Only, GoesElsewhere, Transiting
<1>4. HeldOrBlank'
    BY <1>1 DEF StrandInv, HeldOrBlank, Blank, Only, Kept, procVars
<1>5. CarriedOn'
    BY <1>2 DEF StrandInv, CarriedOn, Only, Kept, procVars
<1>6. QED
    BY <1>3, <1>4, <1>5, SameProcesses DEF StrandInv, Only

\* The lock cuts the handler of thread t short: whatever it leaves of its
\* workflow and its run is on record.
LEMMA CutShort ==
    ASSUME TypeInv, RunInv, StrandInv, Kept, NEW t \in Threads, Only(t), pc'[t] = "idle",
           loc[t].wf \in refused',
           \A w \in Workflows \ {loc[t].wf} : wstate'[w] = wstate[w],
           \A r \in RunIds : runs'[r] = runs[r] \/ runs'[r].status # "RUNNING",
           UNCHANGED outbox
    PROVE  StrandInv'
<1>1. StartsFirst'
    BY DEF StrandInv, StartsFirst, Only, Transiting
<1>2. HeldOrBlank'
    <2>1. SUFFICES ASSUME crashes' = 0, NEW r \in RunIds, runs'[r].status = "RUNNING"
                   PROVE  \/ Blank(r)'
                          \/ runs'[r].wf \in refused'
                          \/ \E u \in Threads : Holds(u)' /\ loc'[u].run = r
        BY DEF HeldOrBlank
    <2>2. runs'[r] = runs[r] /\ crashes = 0
        BY <2>1 DEF Only, procVars
    <2>3. \/ Blank(r)
          \/ runs[r].wf \in refused
          \/ \E u \in Threads : Holds(u) /\ loc[u].run = r
        BY <2>1, <2>2 DEF StrandInv, HeldOrBlank
    <2>4. Holds(t) /\ loc[t].run = r => runs[r].wf = loc[t].wf
        BY DEF RunInv, HoldOK
    <2>5. \A u \in Threads \ {t} : Holds(u) => Holds(u)' /\ loc'[u].run = loc[u].run
        BY DEF Only, Holds, Transiting
    <2>6. QED
        BY <2>2, <2>3, <2>4, <2>5 DEF Blank, Kept
<1>3. CarriedOn'
    <2>1. \A u \in Threads \ {t}, w \in Workflows : Carries(u, w) => Carries(u, w)'
        BY DEF Only, Carries, Transiting
    <2>2. \A w \in Workflows : Carries(t, w) => w = loc[t].wf
        BY DEF Carries
    <2>3. QED
        BY <2>1, <2>2 DEF StrandInv, CarriedOn, Kept, Only, procVars
<1>4. QED
    BY <1>1, <1>2, <1>3, SameProcesses DEF StrandInv, Only

LEMMA RefusalStrand ==
    ASSUME TypeInv, RunInv, StrandInv, Kept, NEW t \in Threads, RefuseCall(t) \/ RefuseCheckpoint(t)
    PROVE  StrandInv'
<1>1. Done(t) /\ UNCHANGED <<wstate, runs, outbox, procVars>> /\ loc[t].wf \in refused'
    BY DEF RefuseCall, RefuseCheckpoint, storeVars
<1>2. Only(t) /\ pc'[t] = "idle"
    BY <1>1, DoneOnly
<1>3. QED
    BY <1>1, <1>2, CutShort

LEMMA BeginStrand ==
    ASSUME TypeInv, StrandInv, Kept, NEW t \in Threads, Begin(t)
    PROVE  StrandInv'
<1>1. ASSUME NEW w \in Workflows, NEW op \in Ops, Create(t, w, op)
      PROVE  StrandInv'
    <2> DEFINE l == [NoLocals EXCEPT !.op = op, !.wf = w]
    <2>1. l \in Locals
        BY FirstLocals, EngineAssumption
    <2>2. /\ Transition(t, l, "PLANNED", "plan") \/ Done(t)
          /\ UNCHANGED <<procVars, runs, outbox>>
        BY <1>1 DEF Create, CreateWorkflow, Commits
    <2> HIDE DEF l
    <2>3. Only(t) /\ GoesElsewhere(t)
        BY <2>1, <2>2, TransitionElsewhere, DoneOnly DEF GoesElsewhere
    <2>4. \A v \in Workflows : wstate'[v] = "RUNNING" => wstate[v] = "RUNNING"
        BY <1>1 DEF Create, CreateWorkflow, TypeInv, TypeOK, StoreTypeOK
    <2>5. QED
        BY <1>1, <2>2, <2>3, <2>4, OutsideStep DEF Create, Serves, Idle
<1>2. ASSUME NEW w \in Workflows, Approve(t, w)
      PROVE  StrandInv'
    <2> DEFINE l == [NoLocals EXCEPT !.op = "approve", !.wf = w]
    <2>1. l \in Locals
        BY FirstLocals DEF Op
    <2>2. Transition(t, l, "READY", "idle") /\ UNCHANGED <<procVars, runs, outbox, wstate>>
        BY <1>2 DEF Approve, storeVars
    <2> HIDE DEF l
    <2>3. Only(t) /\ GoesElsewhere(t)
        BY <2>1, <2>2, TransitionElsewhere
    <2>4. QED
        BY <1>2, <2>2, <2>3, OutsideStep DEF Approve, Serves, Idle
<1>3. ASSUME NEW w \in Workflows, Execute(t, w) \/ Fire(t, w) \/ Pause(t, w) \/ Resume(t, w)
      PROVE  StrandInv'
    <2>1. UNCHANGED <<runs, outbox, wstate, procVars>> /\ pc[t] = "idle"
        BY <1>3 DEF Execute, Fire, Pause, Resume, SetPaused, storeVars, Serves, Idle
    <2>2. \/ UNCHANGED <<pc, loc>>
          \/ \E l : \E p \in {"idle", "arm", "exists", "pauseJob", "registerNext"} : GoOn(t, l, p)
        BY <1>3 DEF Execute, Fire, Pause, Resume, Commits, Done
    <2>3. Only(t) /\ GoesElsewhere(t)
        BY <2>1, <2>2, GoOnOnly DEF Only, GoesElsewhere
    <2>4. QED
        BY <2>1, <2>3, OutsideStep
<1>4. CASE FireEvent(t) \/ RefuseRequest(t)
    <2>1. UNCHANGED <<runs, outbox, wstate, procVars>> /\ pc[t] = "idle"
        BY <1>4 DEF FireEvent, RefuseRequest, storeVars, Serves, Idle
    <2>2. UNCHANGED <<pc, loc>> \/ \E l : GoOn(t, l, "match")
        BY <1>4 DEF FireEvent, RefuseRequest
    <2>3. Only(t) /\ GoesElsewhere(t)
        BY <2>1, <2>2, GoOnOnly DEF Only, GoesElsewhere
    <2>4. QED
        BY <2>1, <2>3, OutsideStep
<1>5. QED
    BY <1>1, <1>2, <1>3, <1>4 DEF Begin

\* The calls of a handler that is not at a transition and not inside a run.
LEMMA CallStrand ==
    ASSUME TypeInv, StrandInv, Kept, NEW t \in Threads,
           \/ StorePlan(t) \/ PlannerRaises(t) \/ StoreTrigger(t) \/ StoreTriggerType(t)
           \/ StoreSchedule(t) \/ Gate(t) \/ NextMatch(t) \/ Arm(t)
           \/ ExistsCheck(t) \/ StoreNextRun(t) \/ RegisterNext(t) \/ RegisterJob(t)
           \/ PauseJob(t) \/ PauseNext(t)
    PROVE  StrandInv'
<1>1. loc[t] \in Locals
    BY LocalsOf
<1>2. UNCHANGED <<runs, outbox, wstate, procVars>>
    BY DEF StorePlan, PlannerRaises, StoreTrigger, StoreTriggerType, StoreSchedule, Gate,
           NextMatch, Arm, ExistsCheck, StoreNextRun, RegisterNext, RegisterJob, PauseJob,
           PauseNext, SetPlan, SetTrigger, SetSchedule, SetNextRun, storeVars
<1>3. pc[t] \notin {"check", "write", "step", "record", "fail", "finish"}
    BY DEF StorePlan, PlannerRaises, StoreTrigger, StoreTriggerType, StoreSchedule, Gate,
           NextMatch, Arm, ExistsCheck, StoreNextRun, RegisterNext, RegisterJob, PauseJob,
           PauseNext
<1>4. \/ \E l : \E p \in {"idle", "arm", "start", "trigger", "typed", "stored",
                          "registerJob", "pauseNext"} : GoOn(t, l, p)
      \/ \E to \in {"REJECTED", "FEASIBLE", "AWAITING_APPROVAL", "READY"},
            p \in {"gate", "idle", "registerNext", "start"} : Transition(t, loc[t], to, p)
    <2>1. CASE StorePlan(t) \/ PlannerRaises(t) \/ StoreTrigger(t) \/ StoreTriggerType(t)
                 \/ StoreSchedule(t)
        BY <2>1 DEF StorePlan, PlannerRaises, StoreTrigger, StoreTriggerType, StoreSchedule,
                    Commits, Done
    <2>2. CASE Gate(t)
        BY <2>2 DEF Gate
    <2>3. CASE NextMatch(t)
        BY <2>3 DEF NextMatch, Done
    <2>4. CASE Arm(t)
        BY <2>4 DEF Arm, Done
    <2>5. CASE \/ ExistsCheck(t) \/ StoreNextRun(t) \/ RegisterNext(t) \/ RegisterJob(t)
               \/ PauseJob(t) \/ PauseNext(t)
        BY <2>5 DEF ExistsCheck, StoreNextRun, RegisterNext, RegisterJob, PauseJob, PauseNext,
                    Commits, Done
    <2>6. QED
        BY <2>1, <2>2, <2>3, <2>4, <2>5
<1>5. Only(t) /\ GoesElsewhere(t)
    BY <1>1, <1>2, <1>4, GoOnOnly, TransitionElsewhere DEF GoesElsewhere
<1>6. QED
    BY <1>2, <1>3, <1>5, OutsideStep

\* A refused transition of a held run leaves it blank; the last one of a handler
\* is not refused while the workflow is RUNNING.
LEMMA TransitionCheckStrand ==
    ASSUME TypeInv, RunInv, StrandInv, NEW t \in Threads, TransitionCheck(t)
    PROVE  StrandInv'
<1>1. /\ UNCHANGED <<runs, outbox, wstate, refused, procVars>> /\ UNCHANGED crashes
      /\ pc[t] = "check" /\ loc[t].wf \in Workflows
    BY LocalsOf DEF TransitionCheck, storeVars, lockVars, procVars
<1>2. CASE GoOn(t, loc[t], "write")
    <2>1. Only(t) /\ pc'[t] = "write" /\ loc'[t] = loc[t]
        BY <1>1, <1>2, GoOnOnly
    <2>2. \A u \in Threads : /\ (Holds(u) <=> Holds(u)') /\ loc'[u].run = loc[u].run
                             /\ \A w \in Workflows : Carries(u, w) => Carries(u, w)'
        BY <1>1, <2>1 DEF Only, Holds, Transiting, Carries
    <2>3. StartsFirst'
        BY <1>1, <2>1 DEF StrandInv, StartsFirst, Only, Transiting
    <2>4. QED
        BY <1>1, <2>2, <2>3, SameProcesses DEF StrandInv, HeldOrBlank, CarriedOn, Blank
<1>3. CASE Done(t) /\ ~CanTransition(wstate[loc[t].wf], loc[t].goal)
    <2>1. Only(t) /\ pc'[t] = "idle"
        BY <1>1, <1>3, DoneOnly
    <2>2. StartsFirst'
        BY <2>1 DEF StrandInv, StartsFirst, Only, Transiting
    <2>3. Holds(t) => loc[t].run \in RunIds /\ Blank(loc[t].run)
        <3>1. SUFFICES ASSUME Holds(t) PROVE loc[t].run \in RunIds /\ Blank(loc[t].run)
            OBVIOUS
        <3>2. loc[t].run \in RunIds /\ loc[t].step = 1 /\ HoldOK(t)
            BY <1>1, <3>1, LocalsOf DEF Holds, Transiting, StrandInv, StartsFirst, RunInv
        <3>3. \A m \in Steps : m >= 1
            BY DEF Steps
        <3>4. QED
            BY <1>1, <3>2, <3>3 DEF HoldOK, Blank
    <2>4. HeldOrBlank'
        BY <1>1, <2>1, <2>3 DEF StrandInv, HeldOrBlank, Blank, Only, Holds, Transiting
    <2>5. \A w \in Workflows : wstate[w] = "RUNNING" => ~Carries(t, w)
        BY <1>1, <1>3 DEF Carries, CanTransition, AllowedTransitions, Transiting
    <2>6. CarriedOn'
        BY <1>1, <2>1, <2>5 DEF StrandInv, CarriedOn, Carries, Only, Transiting
    <2>7. QED
        BY <1>1, <2>2, <2>4, <2>6, SameProcesses DEF StrandInv
<1>4. QED
    BY <1>2, <1>3 DEF TransitionCheck

\* Who writes RUNNING carries the workflow from then on.
LEMMA TransitionWriteStrand ==
    ASSUME TypeInv, RunInv, StrandInv, Kept, NEW t \in Threads, TransitionWrite(t)
    PROVE  StrandInv'
<1> DEFINE l == [loc[t] EXCEPT !.goal = "none", !.ret = "idle"]
<1>1. /\ UNCHANGED <<runs, outbox, procVars>> /\ UNCHANGED crashes /\ pc[t] = "write"
      /\ loc[t] \in Locals /\ loc[t].ret \in Returns /\ loc[t].wf \in Workflows
    BY LocalsOf DEF TransitionWrite, WriteState, procVars, Locals
<1>2. /\ l.run = loc[t].run /\ l.wf = loc[t].wf
    BY <1>1 DEF Locals
<1>3. /\ wstate'[loc[t].wf] = loc[t].goal
      /\ \A w \in Workflows \ {loc[t].wf} : wstate'[w] = wstate[w]
    BY <1>1 DEF TransitionWrite, WriteState, TypeInv, TypeOK, StoreTypeOK
<1>a. CASE Done(t) /\ loc[t].wf \in refused'
    BY <1>1, <1>3, <1>a, DoneOnly, CutShort
<1>b. CASE (Done(t) /\ loc[t].ret = "idle") \/ GoOn(t, l, loc[t].ret)
    <2>4. \/ GoOn(t, NoLocals, "idle") /\ loc[t].ret = "idle"
          \/ GoOn(t, l, loc[t].ret)
        BY <1>b DEF Done
    <2> HIDE DEF l
    <2>5. /\ Only(t) /\ pc'[t] = loc[t].ret
          /\ loc[t].ret = "step" => loc'[t].run = loc[t].run /\ loc'[t].wf = loc[t].wf
        BY <1>1, <1>2, <2>4, GoOnOnly
    <2>6. StartsFirst'
        BY <1>1, <2>5 DEF StrandInv, StartsFirst, Only, Transiting, Returns
    <2>7. HeldOrBlank'
        <3>1. \A u \in Threads : Holds(u) => Holds(u)' /\ loc'[u].run = loc[u].run
            BY <1>1, <2>5 DEF Holds, Transiting, Only
        <3>2. QED
            BY <1>1, <3>1 DEF StrandInv, HeldOrBlank, Blank, Kept
    <2>8. CarriedOn'
        <3>1. \A w : loc[t].goal = "RUNNING" /\ w = loc[t].wf => Carries(t, w)'
            BY <1>1, <2>5 DEF StrandInv, StartsFirst, Transiting, Carries
        <3>2. \A u \in Threads \ {t}, w \in Workflows : Carries(u, w) => Carries(u, w)'
            BY <2>5 DEF Only, Carries, Transiting
        <3>3. \A w \in Workflows : Carries(t, w) => w = loc[t].wf
            BY DEF Carries
        <3>4. ASSUME crashes' = 0, NEW w \in Workflows \ refused', wstate'[w] = "RUNNING"
              PROVE  \E u \in Threads : Carries(u, w)'
            <4>1. CASE w = loc[t].wf
                BY <1>3, <3>1, <3>4, <4>1
            <4>2. CASE w # loc[t].wf
                <5>1. PICK u \in Threads : Carries(u, w)
                    BY <1>1, <1>3, <3>4, <4>2 DEF StrandInv, CarriedOn, Kept
                <5>2. QED
                    BY <3>2, <3>3, <4>2, <5>1
            <4>3. QED
                BY <4>1, <4>2
        <3>5. QED
            BY <3>4 DEF CarriedOn
    <2>9. QED
        BY <1>1, <2>6, <2>7, <2>8, SameProcesses DEF StrandInv
<1>c. QED
    BY <1>1, <1>a, <1>b DEF TransitionWrite, Commits

LEMMA StartStrand ==
    ASSUME TypeInv, RunInv, StrandInv, Kept, NEW t \in Threads, Start(t)
    PROVE  StrandInv'
<1>1. /\ pc[t] = "start" /\ UNCHANGED procVars /\ UNCHANGED crashes
      /\ loc[t] \in Locals
    BY LocalsOf DEF Start, procVars
<1>2. ASSUME NEW r \in FreshRuns, StartRun(r, loc[t].wf, loc[t].key),
             \/ Transition(t, [loc[t] EXCEPT !.run = r, !.step = 1], "RUNNING", "step")
             \/ Done(t)
      PROVE  StrandInv'
    <2> DEFINE l == [loc[t] EXCEPT !.run = r, !.step = 1, !.goal = "RUNNING", !.ret = "step"]
    <2>1. l.step = 1 /\ l.ret = "step" /\ l.goal = "RUNNING"
        BY <1>1 DEF Locals
    <2>2. GoOn(t, l, "check") \/ Done(t)
        BY <1>2 DEF Transition
    <2> HIDE DEF l
    <2>3. Only(t) /\ ((pc'[t] = "check" /\ loc'[t] = l) \/ pc'[t] = "idle")
        BY <1>1, <2>2, GoOnOnly, DoneOnly
    <2>4. /\ \A q \in RunIds \ {r} : runs'[q] = runs[q]
          /\ \A n \in Steps : runs'[r].log[n] = "none"
          /\ UNCHANGED <<outbox, wstate>>
        BY <1>2 DEF StartRun, FreshRuns, TypeInv, TypeOK, StoreTypeOK
    <2>5. StartsFirst'
        BY <2>1, <2>3 DEF StrandInv, StartsFirst, Only, Transiting
    <2>6. Blank(r)'
        BY <2>4 DEF Blank, FreshRuns, RunInv, RowOK
    <2>7. \A u \in Threads : /\ Holds(u) => Holds(u)' /\ loc'[u].run = loc[u].run
                             /\ \A w \in Workflows : Carries(u, w) => Carries(u, w)'
        BY <1>1, <2>3 DEF Only, Holds, Transiting, Carries
    <2>8. HeldOrBlank'
        BY <1>1, <2>4, <2>6, <2>7 DEF StrandInv, HeldOrBlank, Blank, Kept
    <2>9. CarriedOn'
        BY <1>1, <2>4, <2>7 DEF StrandInv, CarriedOn, Kept
    <2>10. QED
        BY <1>1, <2>5, <2>8, <2>9, SameProcesses DEF StrandInv
<1>3. CASE Done(t) /\ UNCHANGED storeVars
    <2>1. Only(t) /\ GoesElsewhere(t)
        BY <1>1, <1>3, DoneOnly DEF GoesElsewhere
    <2>2. QED
        BY <1>1, <1>3, <2>1, OutsideStep DEF storeVars
<1>4. QED
    BY <1>2, <1>3 DEF Start, Commits

\* A step of the run a thread is inside of, which it stays inside of.
LEMMA InsideStep ==
    ASSUME TypeInv, StrandInv, Kept, NEW t \in Threads, NEW r \in RunIds, r = loc[t].run, Only(t),
           pc[t] \in {"step", "record", "fail"}, pc'[t] \in {"step", "record", "fail", "finish"},
           loc'[t].run = r, loc'[t].wf = loc[t].wf,
           \A q \in RunIds \ {r} : runs'[q] = runs[q] /\ outbox'[q] = outbox[q],
           UNCHANGED wstate
    PROVE  StrandInv'
<1>1. \A u \in Threads : /\ Holds(u) => Holds(u)' /\ loc'[u].run = loc[u].run
                         /\ \A w \in Workflows : Carries(u, w) => Carries(u, w)'
    BY DEF Only, Holds, Transiting, Carries
<1>2. Holds(t)'
    BY DEF Holds
<1>3. StartsFirst'
    BY DEF StrandInv, StartsFirst, Only, Transiting
<1>4. HeldOrBlank'
    BY <1>1, <1>2 DEF StrandInv, HeldOrBlank, Blank, Only, Kept, procVars
<1>5. CarriedOn'
    BY <1>1 DEF StrandInv, CarriedOn, Only, Kept, procVars
<1>6. QED
    BY <1>3, <1>4, <1>5, SameProcesses DEF StrandInv, Only

LEMMA ExecutorStrand ==
    ASSUME TypeInv, RunInv, StrandInv, Kept, NEW t \in Threads,
           \/ SkipStep(t) \/ RunStep(t) \/ NotifyStep(t) \/ RecordNotify(t) \/ FailStep(t)
           \/ RefuseNotify(t)
    PROVE  StrandInv'
<1>1. pc[t] \in {"step", "record", "fail"} /\ UNCHANGED procVars
    BY DEF SkipStep, RunStep, NotifyStep, RecordNotify, FailStep, RefuseNotify
<1>2. PICK r \in RunIds : r = loc[t].run /\ runs[r].status = "RUNNING"
    BY <1>1, HeldRunIsRunning DEF Holds
<1>3. /\ \A q \in RunIds \ {r} : runs'[q] = runs[q] /\ outbox'[q] = outbox[q]
      /\ UNCHANGED wstate
    BY <1>2 DEF SkipStep, RunStep, NotifyStep, RecordNotify, FailStep, RefuseNotify,
           CheckpointStep, WriteOutbox, storeVars, TypeInv, TypeOK, StoreTypeOK
<1> DEFINE l == [loc[t] EXCEPT !.step = @ + 1]
<1>4. loc[t] \in Locals /\ l.run = loc[t].run /\ l.wf = loc[t].wf
    BY LocalsOf DEF Locals
<1>5. \/ \E p \in {"step", "finish"} : GoOn(t, l, p)
      \/ \E p \in {"record", "fail", "finish"} : GoOn(t, loc[t], p)
    BY DEF SkipStep, RunStep, NotifyStep, RecordNotify, FailStep, RefuseNotify, Advance,
           Checkpoints, Commits
<1> HIDE DEF l
<1>6. /\ Only(t) /\ pc'[t] \in {"step", "record", "fail", "finish"}
      /\ loc'[t].run = r /\ loc'[t].wf = loc[t].wf
    BY <1>1, <1>2, <1>4, <1>5, GoOnOnly
<1>7. QED
    BY <1>1, <1>2, <1>3, <1>6, InsideStep

\* The run is closed, and the thread carries the workflow to its last write.
LEMMA FinishStrand ==
    ASSUME TypeInv, RunInv, StrandInv, Kept, NEW t \in Threads, Finish(t)
    PROVE  StrandInv'
<1>1. pc[t] = "finish" /\ UNCHANGED <<procVars, wstate, outbox>> /\ UNCHANGED crashes
    BY DEF Finish, FinishRun, procVars
<1>2. PICK r \in RunIds : r = loc[t].run /\ runs[r].status = "RUNNING"
    BY <1>1, HeldRunIsRunning DEF Holds
<1>3. PICK s \in {"COMPLETED", "FAILED"} :
         /\ FinishRun(r, s)
         /\ \/ Transition(t, loc[t], s, After(loc[t].op))
            \/ Done(t) /\ loc[t].wf \in refused'
    BY <1>2 DEF Finish, Commits
<1>4. loc[t] \in Locals
    BY LocalsOf
<1>8. runs'[r].status = s /\ \A q \in RunIds \ {r} : runs'[q] = runs[q]
    BY <1>3 DEF FinishRun, TypeInv, TypeOK, StoreTypeOK, RunRow
<1>a. CASE Done(t) /\ loc[t].wf \in refused'
    <2>1. \A q \in RunIds : runs'[q] = runs[q] \/ runs'[q].status # "RUNNING"
        BY <1>8
    <2>2. Only(t) /\ pc'[t] = "idle"
        BY <1>1, <1>a, DoneOnly
    <2>3. QED
        BY <1>1, <1>a, <2>1, <2>2, CutShort
<1>b. CASE Transition(t, loc[t], s, After(loc[t].op))
    <2> DEFINE l == [loc[t] EXCEPT !.goal = s, !.ret = After(loc[t].op)]
    <2>5. l.goal = s /\ l.ret # "step" /\ l.wf = loc[t].wf
        BY <1>4 DEF Locals, After
    <2>6. GoOn(t, l, "check")
        BY <1>b DEF Transition
    <2> HIDE DEF l
    <2>7. Only(t) /\ pc'[t] = "check" /\ loc'[t] = l
        BY <1>1, <2>6, GoOnOnly
    <2>9. StartsFirst'
        BY <2>5, <2>7 DEF StrandInv, StartsFirst, Only, Transiting
    <2>10. HeldOrBlank'
        <3>1. \A u \in Threads \ {t} : Holds(u) => Holds(u)' /\ loc'[u].run = loc[u].run
            BY <2>7 DEF Only, Holds, Transiting
        <3>2. QED
            BY <1>1, <1>2, <1>8, <3>1 DEF StrandInv, HeldOrBlank, Blank, Kept
    <2>11. CarriedOn'
        <3>1. \A u \in Threads, w \in Workflows : Carries(u, w) => Carries(u, w)'
            BY <2>5, <2>7 DEF Only, Carries, Transiting
        <3>2. QED
            BY <1>1, <3>1 DEF StrandInv, CarriedOn, Kept
    <2>12. QED
        BY <1>1, <2>9, <2>10, <2>11, SameProcesses DEF StrandInv
<1>c. QED
    BY <1>3, <1>a, <1>b

\* A process that starts, ends or reloads does so after a crash.
LEMMA ProcessStrand ==
    ASSUME TypeInv, StrandInv, Kept,
           \/ \E p \in Procs :
                \/ Crash(p) \/ Restart(p) \/ ReloadNext(p) \/ RefuseReload(p)
                \/ \E w \in Workflows : DropFire(p, w)
           \/ Tick \/ UNCHANGED vars
    PROVE  StrandInv'
<1>1. UNCHANGED <<runs, outbox, wstate>>
    BY DEF Crash, Restart, ReloadNext, RefuseReload, DropFire, SetNextRun, Tick, vars, storeVars
<1>2. CASE UNCHANGED <<pc, loc>> /\ UNCHANGED procVars
    BY <1>1, <1>2, SameProcesses DEF StrandInv, StartsFirst, HeldOrBlank, CarriedOn, Blank, Carries,
       Holds, Transiting, Kept, procVars
<1>3. ASSUME NEW p \in Procs, Crash(p) \/ Restart(p) \/ ReloadNext(p) \/ RefuseReload(p)
      PROVE  StrandInv'
    <2>1. crashes' # 0
        <3>1. CASE Crash(p)
            <4>1. crashes \in Nat /\ crashes' = crashes + 1
                BY <3>1, EngineAssumption DEF Crash, TypeInv, TypeOK
            <4>2. QED
                BY <4>1
        <3>2. CASE p \notin up \/ reload[p] # {}
            <4>1. crashes # 0
                BY <3>2 DEF StrandInv, DownAfterCrash
            <4>2. CASE Crash(p)
                BY <3>1, <4>2
            <4>3. CASE Restart(p) \/ ReloadNext(p) \/ RefuseReload(p)
                BY <4>1, <4>3 DEF Restart, ReloadNext, RefuseReload
            <4>4. QED
                BY <1>3, <4>2, <4>3
        <3>3. QED
            BY <1>3, <3>1, <3>2 DEF Restart, ReloadNext, RefuseReload
    <2>2. \A t \in Threads : pc'[t] = "idle" \/ (pc'[t] = pc[t] /\ loc'[t] = loc[t])
        BY <1>3 DEF Crash, Restart, ReloadNext, RefuseReload, Ends
    <2>3. StartsFirst'
        BY <2>2 DEF StrandInv, StartsFirst, Transiting
    <2>4. QED
        BY <2>1, <2>3 DEF StrandInv, HeldOrBlank, CarriedOn, DownAfterCrash
<1>4. QED
    BY <1>2, <1>3 DEF DropFire, Tick, vars

LEMMA InitStrand == Init => StrandInv
BY DEF Init, StoreInit, NoRun, StrandInv, StartsFirst, HeldOrBlank, CarriedOn, DownAfterCrash,
       Transiting

\* Without a crash or a refused call, what is RUNNING is in the hands of a handler.
THEOREM StrandInvariant == Spec => []StrandInv
<1>1. TypeInv /\ RunInv /\ StrandInv /\ [Next]_vars => StrandInv'
    <2> SUFFICES ASSUME TypeInv, RunInv, StrandInv, [Next]_vars PROVE StrandInv'
        OBVIOUS
    <2>a. Kept
        BY RestStep
    <2>1. ASSUME NEW t \in Threads, Continue(t) PROVE StrandInv'
        BY <2>1, <2>a, CallStrand, TransitionCheckStrand, TransitionWriteStrand, StartStrand,
           ExecutorStrand, FinishStrand, RefusalStrand DEF Continue
    <2>2. QED
        BY <2>1, <2>a, BeginStrand, ProcessStrand DEF Next
<1>2. QED
    BY <1>1, InitStrand, RunInvariant, PTL DEF Spec

\* What is left RUNNING when no handler is under way, no process died and the
\* lock cut no handler of it short: no workflow, and no run that did anything.
THEOREM NothingStranded == Spec => [](NoStrandedWorkflow /\ StrandedRunIsBlank)
<1>1. StrandInv => NoStrandedWorkflow /\ StrandedRunIsBlank
    BY DEF StrandInv, HeldOrBlank, CarriedOn, NoStrandedWorkflow, StrandedRunIsBlank,
           Quiescent, Holds, Carries, Transiting, Blank
<1>2. QED
    BY <1>1, StrandInvariant, PTL

-----------------------------------------------------------------------------
(* One process alone meets no lock. *)

LEMMA NobodyElse ==
    ASSUME OneProcess, NEW p \in Procs
    PROVE  CanRead(p) /\ CanWrite(p) /\ ~MayMeetReader(p)
BY DEF OneProcess, CanRead, CanWrite, MayMeetReader, Elsewhere

LEMMA CommitsAlone ==
    ASSUME OneProcess, NEW t \in Threads, NEW w, Commits(t, w, TRUE, TRUE)
    PROVE  UNCHANGED refused
BY NobodyElse, EngineAssumption DEF Commits

LEMMA AloneStep ==
    ASSUME OneProcess, [Next]_vars
    PROVE  UNCHANGED refused
<1>1. ASSUME NEW t \in Threads, Begin(t) PROVE UNCHANGED refused
    <2>1. ASSUME NEW w \in Workflows, (\E op \in Ops : Create(t, w, op)) \/ Pause(t, w) \/ Resume(t, w)
          PROVE  Commits(t, w, TRUE, TRUE)
        BY <2>1 DEF Create, Pause, Resume, Commits
    <2>2. QED
        BY <1>1, <2>1, CommitsAlone DEF Begin, Approve, Execute, Fire, FireEvent, RefuseRequest,
                                        lockVars
<1>2. ASSUME NEW t \in Threads, Continue(t) PROVE UNCHANGED refused
    <2>1. ~RefuseCall(t) /\ ~RefuseNotify(t) /\ ~RefuseCheckpoint(t)
        BY NobodyElse, EngineAssumption DEF RefuseCall, RefuseNotify, RefuseCheckpoint, LeavesOpen
    <2>2. CASE \/ TransitionWrite(t) \/ StorePlan(t) \/ StoreTrigger(t) \/ StoreTriggerType(t)
               \/ StoreSchedule(t) \/ SkipStep(t) \/ RunStep(t) \/ NotifyStep(t)
               \/ RecordNotify(t) \/ FailStep(t) \/ Finish(t) \/ StoreNextRun(t)
               \/ RegisterNext(t) \/ PauseNext(t)
        <3>1. Commits(t, loc[t].wf, TRUE, TRUE)
            BY <2>2 DEF TransitionWrite, StorePlan, StoreTrigger, StoreTriggerType,
                        StoreSchedule, SkipStep, RunStep, NotifyStep, RecordNotify, FailStep,
                        Finish, StoreNextRun, RegisterNext, PauseNext, Checkpoints, Commits
        <3>2. QED
            BY <3>1, CommitsAlone
    <2>3. CASE Start(t)
        <3>1. Commits(t, loc[t].wf, TRUE, TRUE) \/ UNCHANGED refused
            BY <2>3 DEF Start, Commits
        <3>2. QED
            BY <3>1, CommitsAlone
    <2>4. CASE \/ TransitionCheck(t) \/ PlannerRaises(t) \/ Gate(t) \/ NextMatch(t) \/ Arm(t)
               \/ ExistsCheck(t) \/ RegisterJob(t) \/ PauseJob(t)
        BY <2>4 DEF TransitionCheck, PlannerRaises, Gate, NextMatch, Arm, ExistsCheck,
                    RegisterJob, PauseJob, lockVars
    <2>5. QED
        BY <1>2, <2>1, <2>2, <2>3, <2>4 DEF Continue
<1>3. ASSUME NEW p \in Procs,
             \/ Crash(p) \/ Restart(p) \/ ReloadNext(p) \/ RefuseReload(p)
             \/ \E w \in Workflows : DropFire(p, w)
      PROVE  UNCHANGED refused
    BY <1>3 DEF Crash, Restart, ReloadNext, RefuseReload, DropFire, lockVars
<1>4. QED
    BY <1>1, <1>2, <1>3 DEF Next, Tick, vars, lockVars

\* Where one process runs alone, no handler is ever refused a call: the lock that
\* a duplicate fire leaves is met by other processes only.
THEOREM AloneIsNotRefused == Spec => []NeverRefused
<1>1. Init => NeverRefused
    BY DEF Init, NeverRefused
<1>2. NeverRefused /\ [Next]_vars => NeverRefused'
    BY AloneStep DEF NeverRefused, OneProcess
<1>3. QED
    BY <1>1, <1>2, PTL DEF Spec

\* So there nothing but a death of the process leaves a workflow RUNNING, however
\* its requests and fires race.
THEOREM AloneNothingStranded ==
    Spec => [](OneProcess /\ Quiescent /\ crashes = 0
                 => \A w \in Workflows : wstate[w] # "RUNNING")
<1>1. NoStrandedWorkflow /\ NeverRefused
        => (OneProcess /\ Quiescent /\ crashes = 0
              => \A w \in Workflows : wstate[w] # "RUNNING")
    BY DEF NoStrandedWorkflow, NeverRefused
<1>2. QED
    BY <1>1, NothingStranded, AloneIsNotRefused, PTL

-----------------------------------------------------------------------------
(* The gate before a run *)

\* The calls before which a thread knows nothing of the plan.
KnowNothing ==
    PC \ {"check", "write", "plan", "trigger", "typed", "stored", "gate", "start",
          "step", "record", "fail", "finish"}

LEMMA KnowsNothing ==
    ASSUME NEW t \in Threads, pc'[t] \in KnowNothing
    PROVE  KnowsPlan(t)' /\ ~BeforePlan(t)'
BY DEF KnowNothing, KnowsPlan, BeforePlan, Transiting

LEMMA DoneKnows ==
    ASSUME TypeInv, NEW t \in Threads, Done(t)
    PROVE  /\ KnowsPlan(t)' /\ ~BeforePlan(t)'
           /\ \A u \in Threads \ {t} : pc'[u] = pc[u] /\ loc'[u] = loc[u]
BY GoOnOthers, KnowsNothing DEF Done, KnowNothing, PC

LEMMA TransitionFields ==
    ASSUME TypeInv, NEW t \in Threads, NEW l \in Locals, NEW to, NEW p, Transition(t, l, to, p)
    PROVE  /\ pc'[t] = "check" /\ loc'[t].goal = to /\ loc'[t].ret = p
           /\ loc'[t].op = l.op /\ loc'[t].wf = l.wf
           /\ \A u \in Threads \ {t} : pc'[u] = pc[u] /\ loc'[u] = loc[u]
<1> DEFINE m == [l EXCEPT !.goal = to, !.ret = p]
<1>1. m.ret = p /\ m.goal = to /\ m.op = l.op /\ m.wf = l.wf
    BY DEF Locals
<1>2. GoOn(t, m, "check")
    BY DEF Transition
<1> HIDE DEF m
<1>3. QED
    BY <1>1, <1>2, GoOnOthers

\* The methods of the store that leave every plan as it is.
LEMMA PlansKept ==
    ASSUME TypeInv, NEW w \in Workflows, NEW b,
           SetTrigger(w, b) \/ SetSchedule(w, b) \/ SetPaused(w, b) \/ SetNextRun(w, b)
    PROVE  /\ \A v \in Workflows : wf'[v].plan = wf[v].plan
           /\ UNCHANGED <<wstate, runs>>
<1>1. wf \in [Workflows -> WorkflowRow]
    BY DEF TypeInv, TypeOK, StoreTypeOK
<1>2. \/ wf' = [wf EXCEPT ![w] = [wf[w] EXCEPT !.trigger = b]]
      \/ wf' = [wf EXCEPT ![w] = [wf[w] EXCEPT !.sched = b]]
      \/ wf' = [wf EXCEPT ![w] = [wf[w] EXCEPT !.paused = b]]
      \/ wf' = [wf EXCEPT ![w] = [wf[w] EXCEPT !.nextRun = b]]
    BY <1>1 DEF SetTrigger, SetSchedule, SetPaused, SetNextRun
<1>3. wf'[w].plan = wf[w].plan
    BY <1>1, <1>2 DEF WorkflowRow
<1>4. \A v \in Workflows \ {w} : wf'[v] = wf[v]
    BY <1>1, <1>2
<1>5. QED
    BY <1>3, <1>4 DEF SetTrigger, SetSchedule, SetPaused, SetNextRun

LEMMA ClearedStays ==
    ASSUME Kept, NEW w \in Workflows, wf'[w].plan = wf[w].plan
    PROVE  (Cleared(w) => Cleared(w)') /\ (Feasible(w) => Feasible(w)')
BY DEF Kept, Cleared, Feasible

\* What a thread knows stays true while the plan of its workflow does.
LEMMA KnowsStays ==
    ASSUME TypeInv, Kept, NEW u \in Threads, KnowsPlan(u), pc'[u] = pc[u], loc'[u] = loc[u],
           loc[u].wf \in Workflows => /\ wf'[loc[u].wf].plan = wf[loc[u].wf].plan
                                      /\ wstate[loc[u].wf] # "absent" => wstate'[loc[u].wf] # "absent"
    PROVE  KnowsPlan(u)'
<1>1. CASE pc[u] \in {"idle", "match"}
    BY <1>1, KnowsNothing DEF KnowNothing, PC
<1>2. CASE pc[u] \notin {"idle", "match"}
    <2> DEFINE w == loc[u].wf
    <2>1. w \in Workflows
        BY <1>2, LocalsOf
    <2>2. (Cleared(w) => Cleared(w)') /\ (Feasible(w) => Feasible(w)')
        BY <2>1, ClearedStays
    <2>3. QED
        BY <2>1, <2>2 DEF KnowsPlan, BeforePlan, Transiting, Cleared, Feasible, Kept
<1>3. QED
    BY <1>1, <1>2

\* One thread makes a call that stores no plan.
LEMMA GateStep ==
    ASSUME TypeInv, GateInv, Kept, NEW t \in Threads,
           \A u \in Threads \ {t} : pc'[u] = pc[u] /\ loc'[u] = loc[u],
           \A w \in Workflows : wf'[w].plan = wf[w].plan,
           \A w \in Workflows : wstate'[w] = wstate[w] \/ (StateOK(w)' /\ wstate'[w] # "absent"),
           KnowsPlan(t)',
           BeforePlan(t)' => \/ BeforePlan(t) /\ loc'[t].wf = loc[t].wf
                             \/ wstate[loc'[t].wf] = "absent",
           \A r \in RunIds : Opened(r)' =>
                \/ Opened(r) /\ runs'[r].wf = runs[r].wf
                \/ \E w \in Workflows : runs'[r].wf = w /\ Cleared(w)
    PROVE  GateInv'
<1>1. \A w \in Workflows : (Cleared(w) => Cleared(w)') /\ (Feasible(w) => Feasible(w)')
    BY ClearedStays
<1>2. \A w \in Workflows : StateOK(w)'
    BY <1>1 DEF GateInv, StateOK
<1>3. \A u \in Threads \ {t} : KnowsPlan(u)'
    <2>1. \A w \in Workflows : wstate[w] # "absent" => wstate'[w] # "absent"
        OBVIOUS
    <2>2. QED
        BY <2>1, KnowsStays DEF GateInv
<1>4. OneMaker'
    <2>1. \A u \in Threads \ {t} : BeforePlan(u)' => BeforePlan(u) /\ loc'[u].wf = loc[u].wf
        BY DEF BeforePlan, Transiting
    <2>2. \A u \in Threads : BeforePlan(u) => wstate[loc[u].wf] # "absent"
        BY DEF GateInv, KnowsPlan
    <2>3. \A u \in Threads \ {t} : BeforePlan(t)' /\ BeforePlan(u)' => loc'[t].wf # loc'[u].wf
        BY <2>1, <2>2 DEF GateInv, OneMaker
    <2>4. \A u, v \in Threads \ {t} :
             BeforePlan(u)' /\ BeforePlan(v)' /\ loc'[u].wf = loc'[v].wf => u = v
        BY <2>1 DEF GateInv, OneMaker
    <2>5. QED
        BY <2>3, <2>4 DEF OneMaker
<1>5. ASSUME NEW r \in RunIds, Opened(r)'
      PROVE  \E w \in Workflows : runs'[r].wf = w /\ Cleared(w)'
    BY <1>1, <1>5 DEF GateInv
<1>6. \A r \in RunIds : Opened(r)' => runs'[r].wf \in Workflows /\ Cleared(runs[r].wf)'
    BY <1>5 DEF Cleared
<1>7. QED
    BY <1>2, <1>3, <1>4, <1>6 DEF GateInv

\* ... and touches neither the states nor the runs.
LEMMA GateQuiet ==
    ASSUME TypeInv, GateInv, Kept, NEW t \in Threads,
           \A u \in Threads \ {t} : pc'[u] = pc[u] /\ loc'[u] = loc[u],
           \A w \in Workflows : wf'[w].plan = wf[w].plan,
           UNCHANGED <<wstate, runs>>,
           KnowsPlan(t)',
           BeforePlan(t)' => BeforePlan(t) /\ loc'[t].wf = loc[t].wf
    PROVE  GateInv'
BY GateStep DEF Opened

LEMMA BeginGate ==
    ASSUME TypeInv, GateInv, Kept, NEW t \in Threads, Begin(t)
    PROVE  GateInv'
<1>1. ASSUME NEW w \in Workflows, NEW op \in Ops, Create(t, w, op)
      PROVE  GateInv'
    <2> DEFINE l == [NoLocals EXCEPT !.op = op, !.wf = w]
    <2>1. l \in Locals /\ l.wf = w /\ l.op = op
        BY FirstLocals, EngineAssumption DEF NoLocals
    <2>2. /\ Transition(t, l, "PLANNED", "plan") \/ Done(t)
          /\ op \in Makes /\ wstate[w] = "absent" /\ UNCHANGED <<wf, runs>>
          /\ wstate' = [wstate EXCEPT ![w] = "SUBMITTED"]
        BY <1>1 DEF Create, CreateWorkflow, Commits, Exists, Makes
    <2> HIDE DEF l
    <2>3. wstate'[w] = "SUBMITTED" /\ \A v \in Workflows \ {w} : wstate'[v] = wstate[v]
        BY <2>2 DEF TypeInv, TypeOK, StoreTypeOK
    <2>4. StateOK(w)'
        BY <2>3 DEF StateOK
    <2>5. \A v \in Workflows : wstate'[v] = wstate[v] \/ (StateOK(v)' /\ wstate'[v] # "absent")
        BY <2>3, <2>4
    <2>6. wf[w].plan = "none"
        BY <2>2 DEF GateInv, StateOK
    <2>7. CASE Transition(t, l, "PLANNED", "plan")
        <3>1. /\ pc'[t] = "check" /\ loc'[t].goal = "PLANNED" /\ loc'[t].ret = "plan"
              /\ loc'[t].op = op /\ loc'[t].wf = w
              /\ \A u \in Threads \ {t} : pc'[u] = pc[u] /\ loc'[u] = loc[u]
            BY <2>1, <2>7, TransitionFields
        <3>2. KnowsPlan(t)'
            BY <2>2, <2>3, <2>6, <3>1 DEF KnowsPlan, BeforePlan, Transiting
        <3>3. QED
            BY <2>2, <2>5, <3>1, <3>2, GateStep DEF Opened
    <2>8. CASE Done(t)
        BY <2>2, <2>5, <2>8, DoneKnows, GateStep DEF Opened
    <2>9. QED
        BY <2>2, <2>7, <2>8
<1>2. ASSUME NEW w \in Workflows, Approve(t, w)
      PROVE  GateInv'
    <2> DEFINE l == [NoLocals EXCEPT !.op = "approve", !.wf = w]
    <2>1. l \in Locals /\ l.wf = w /\ l.op = "approve"
        BY FirstLocals DEF Op, NoLocals
    <2>2. /\ Transition(t, l, "READY", "idle") /\ UNCHANGED <<wf, runs, wstate>>
          /\ wf[w].plan = "approval"
        BY <1>2 DEF Approve, storeVars, GateInv, StateOK
    <2> HIDE DEF l
    <2>3. /\ pc'[t] = "check" /\ loc'[t].goal = "READY" /\ loc'[t].ret = "idle"
          /\ loc'[t].op = "approve" /\ loc'[t].wf = w
          /\ \A u \in Threads \ {t} : pc'[u] = pc[u] /\ loc'[u] = loc[u]
        BY <2>1, <2>2, TransitionFields
    <2>4. KnowsPlan(t)' /\ ~BeforePlan(t)'
        BY <2>2, <2>3 DEF KnowsPlan, BeforePlan, Transiting
    <2>5. QED
        BY <2>2, <2>3, <2>4, GateQuiet
<1>3. ASSUME NEW w \in Workflows, Execute(t, w) \/ Fire(t, w) \/ Pause(t, w) \/ Resume(t, w)
      PROVE  GateInv'
    <2>1. /\ \A v \in Workflows : wf'[v].plan = wf[v].plan
          /\ UNCHANGED <<wstate, runs>>
        BY <1>3, PlansKept DEF Execute, Fire, Pause, Resume, storeVars
    <2>2. \/ UNCHANGED <<pc, loc>>
          \/ \E l : \E p \in {"idle", "arm", "exists", "pauseJob", "registerNext"} : GoOn(t, l, p)
        BY <1>3 DEF Execute, Fire, Pause, Resume, Commits, Done
    <2>3. pc[t] = "idle"
        BY <1>3 DEF Execute, Fire, Pause, Resume, Serves, Idle
    <2>4. /\ pc'[t] \in KnowNothing
          /\ \A u \in Threads \ {t} : pc'[u] = pc[u] /\ loc'[u] = loc[u]
        BY <2>2, <2>3, GoOnOthers DEF KnowNothing, PC
    <2>5. QED
        BY <2>1, <2>4, KnowsNothing, GateQuiet
<1>4. ASSUME FireEvent(t) \/ RefuseRequest(t)
      PROVE  GateInv'
    <2>1. UNCHANGED <<wf, wstate, runs>> /\ pc[t] = "idle"
        BY <1>4 DEF FireEvent, RefuseRequest, storeVars, Serves, Idle
    <2>2. UNCHANGED <<pc, loc>> \/ \E l : GoOn(t, l, "match")
        BY <1>4 DEF FireEvent, RefuseRequest
    <2>3. /\ pc'[t] \in KnowNothing
          /\ \A u \in Threads \ {t} : pc'[u] = pc[u] /\ loc'[u] = loc[u]
        BY <2>1, <2>2, GoOnOthers DEF KnowNothing, PC
    <2>4. QED
        BY <2>1, <2>3, KnowsNothing, GateQuiet
<1>5. QED
    BY <1>1, <1>2, <1>3, <1>4 DEF Begin

LEMMA TransitionCheckGate ==
    ASSUME TypeInv, GateInv, Kept, NEW t \in Threads, TransitionCheck(t)
    PROVE  GateInv'
<1>1. UNCHANGED <<wf, wstate, runs>>
    BY DEF TransitionCheck, storeVars
<1>2. CASE GoOn(t, loc[t], "write")
    <2>1. /\ pc[t] = "check" /\ pc'[t] = "write" /\ loc'[t] = loc[t]
          /\ \A u \in Threads \ {t} : pc'[u] = pc[u] /\ loc'[u] = loc[u]
        BY <1>2, GoOnOthers DEF TransitionCheck
    <2>2. loc[t].wf \in Workflows
        BY <2>1, LocalsOf
    <2>3. (Cleared(loc[t].wf) => Cleared(loc[t].wf)') /\ (Feasible(loc[t].wf) => Feasible(loc[t].wf)')
        BY <1>1, <2>1, <2>2 DEF Cleared, Feasible, Kept
    <2>4. KnowsPlan(t)
        BY DEF GateInv
    <2>5. KnowsPlan(t)'
        BY <1>1, <2>1, <2>3, <2>4 DEF KnowsPlan, BeforePlan, Transiting
    <2>6. QED
        BY <1>1, <2>1, <2>5, GateQuiet DEF BeforePlan, Transiting
<1>3. CASE Done(t)
    BY <1>1, <1>3, DoneKnows, GateQuiet
<1>4. QED
    BY <1>2, <1>3 DEF TransitionCheck

\* The state written is the one the thread may write.
LEMMA TransitionWriteGate ==
    ASSUME TypeInv, GateInv, Kept, NEW t \in Threads, TransitionWrite(t)
    PROVE  GateInv'
<1> DEFINE g == loc[t].goal
           l == [loc[t] EXCEPT !.goal = "none", !.ret = "idle"]
<1>w. PICK w \in Workflows : w = loc[t].wf
    BY LocalsOf DEF TransitionWrite
<1>1. Transiting(t) /\ pc[t] = "write"
    BY DEF TransitionWrite, Transiting
<1>2. KnowsPlan(t)
    BY DEF GateInv
<1>3. UNCHANGED <<wf, runs>> /\ wstate' = [wstate EXCEPT ![w] = g]
    BY <1>w DEF TransitionWrite, WriteState
<1>4. wstate'[w] = g /\ \A v \in Workflows \ {w} : wstate'[v] = wstate[v]
    BY <1>1, <1>3 DEF TypeInv, TypeOK, StoreTypeOK
<1>5. loc[t].op = "approve" => w \in approved'
    BY <1>w DEF TransitionWrite
<1>6. StateOK(w)' /\ wstate'[w] # "absent"
    <2>1. (Cleared(w) => Cleared(w)') /\ (Feasible(w) => Feasible(w)')
        BY <1>1, <1>3, ClearedStays
    <2>2. wf[w].plan = "approval" /\ loc[t].op = "approve" => Cleared(w)'
        BY <1>3, <1>5 DEF Cleared
    <2>3. g = wstate'[w] /\ wf'[w].plan = wf[w].plan
        BY <1>3, <1>4
    <2>4. /\ g \notin {"absent", "PAUSED"}
          /\ g = "FEASIBLE" => Feasible(w)'
          /\ g = "AWAITING_APPROVAL" => Feasible(w)' /\ wf'[w].plan = "approval"
          /\ g \in {"READY", "RUNNING", "COMPLETED", "FAILED"} => Cleared(w)'
        BY <1>w, <1>1, <1>2, <1>3, <2>1, <2>2 DEF KnowsPlan, Feasible
    <2>5. QED
        BY <2>3, <2>4 DEF StateOK
<1>7. \A v \in Workflows : wstate'[v] = wstate[v] \/ (StateOK(v)' /\ wstate'[v] # "absent")
    BY <1>4, <1>6
<1>8. CASE Done(t)
    BY <1>3, <1>7, <1>8, DoneKnows, GateStep DEF Opened
<1>9. CASE GoOn(t, l, loc[t].ret)
    <2>1. l.wf = w /\ l.op = loc[t].op /\ loc[t].ret \in Returns
        BY <1>w, LocalsOf DEF Locals
    <2>2. /\ pc'[t] = loc[t].ret /\ loc'[t] = l
          /\ \A u \in Threads \ {t} : pc'[u] = pc[u] /\ loc'[u] = loc[u]
        BY <1>9, GoOnOthers
    <2>3. CASE loc[t].ret = "plan"
        <3>1. BeforePlan(t) /\ loc'[t].wf = w /\ loc'[t].op = loc[t].op /\ pc'[t] = "plan"
            BY <1>1, <2>1, <2>2, <2>3 DEF BeforePlan
        <3>2. KnowsPlan(t)'
            BY <1>w, <1>2, <1>3, <1>6, <3>1 DEF KnowsPlan, Transiting
        <3>3. QED
            BY <1>w, <1>3, <1>7, <2>2, <3>1, <3>2, GateStep DEF Opened
    <2>4. CASE loc[t].ret \in {"gate", "start", "step"}
        <3>1. loc'[t].wf = w /\ loc'[t].op = loc[t].op /\ pc'[t] \in {"gate", "start", "step"}
            BY <2>1, <2>2, <2>4
        <3>2. /\ pc'[t] = "gate" => Feasible(w)' /\ (loc[t].op # "create" => wf'[w].plan = "auto")
              /\ pc'[t] \in {"start", "step"} => Cleared(w)'
            BY <1>w, <1>1, <1>2, <1>3, <2>2, ClearedStays DEF KnowsPlan
        <3>3. KnowsPlan(t)' /\ ~BeforePlan(t)'
            BY <3>1, <3>2 DEF KnowsPlan, BeforePlan, Transiting, Feasible, Cleared
        <3>4. QED
            BY <1>3, <1>7, <2>2, <3>3, GateStep DEF Opened
    <2>5. CASE loc[t].ret \notin {"plan", "gate", "start", "step"}
        <3>1. pc'[t] \in KnowNothing
            BY <2>1, <2>2, <2>5 DEF Returns, KnowNothing, PC
        <3>2. QED
            BY <1>3, <1>7, <2>2, <3>1, KnowsNothing, GateStep DEF Opened
    <2>6. QED
        BY <2>3, <2>4, <2>5
<1>10. QED
    BY <1>8, <1>9 DEF TransitionWrite, Commits

\* The plan of a workflow is stored once, by its maker: nobody else knew of one.
LEMMA StorePlanGate ==
    ASSUME TypeInv, GateInv, Kept, NEW t \in Threads, StorePlan(t)
    PROVE  GateInv'
<1>w. PICK w \in Workflows : w = loc[t].wf
    BY LocalsOf DEF StorePlan
<1>1. loc[t] \in Locals /\ w \in Workflows /\ pc[t] = "plan"
    BY LocalsOf DEF StorePlan
<1>2. loc[t].op \in Makes /\ wf[w].plan = "none" /\ wstate[w] # "absent" /\ BeforePlan(t)
    BY <1>w, <1>1 DEF GateInv, KnowsPlan, BeforePlan
<1>3. PICK p \in IF loc[t].op = "create" THEN {"infeasible", "auto", "approval"} ELSE {"auto"} :
         SetPlan(w, p)
    BY <1>w DEF StorePlan
<1>4. /\ wf'[w].plan = p /\ \A v \in Workflows \ {w} : wf'[v].plan = wf[v].plan
      /\ UNCHANGED <<wstate, runs>>
    BY <1>1, <1>3 DEF SetPlan, TypeInv, TypeOK, StoreTypeOK, WorkflowRow
<1>5. \A v \in Workflows : StateOK(v)'
    <2>1. StateOK(w)'
        BY <1>1, <1>2, <1>4 DEF GateInv, StateOK, Feasible, Cleared
    <2>2. \A v \in Workflows \ {w} : StateOK(v)'
        BY <1>4, ClearedStays DEF GateInv, StateOK
    <2>3. QED
        BY <2>1, <2>2
<1>6. /\ \A u \in Threads \ {t} : pc'[u] = pc[u] /\ loc'[u] = loc[u]
      /\ KnowsPlan(t)' /\ ~BeforePlan(t)'
    <2>1. CASE GoOn(t, loc[t], "trigger") /\ loc[t].op = "create"
        <3>1. /\ pc'[t] = "trigger" /\ loc'[t] = loc[t]
              /\ \A u \in Threads \ {t} : pc'[u] = pc[u] /\ loc'[u] = loc[u]
            BY <2>1, GoOnOthers
        <3>2. QED
            BY <1>w, <1>3, <1>4, <2>1, <3>1 DEF KnowsPlan, BeforePlan, Transiting
    <2>2. CASE GoOn(t, loc[t], "typed") /\ loc[t].op = "schedule"
        <3>1. /\ pc'[t] = "typed" /\ loc'[t] = loc[t]
              /\ \A u \in Threads \ {t} : pc'[u] = pc[u] /\ loc'[u] = loc[u]
            BY <2>2, GoOnOthers
        <3>2. QED
            BY <1>w, <1>3, <1>4, <2>2, <3>1 DEF KnowsPlan, BeforePlan, Transiting
    <2>3. CASE Transition(t, loc[t], "FEASIBLE", "gate") /\ loc[t].op = "deliver"
        <3>1. /\ pc'[t] = "check" /\ loc'[t].goal = "FEASIBLE" /\ loc'[t].ret = "gate"
              /\ loc'[t].op = "deliver" /\ loc'[t].wf = w
              /\ \A u \in Threads \ {t} : pc'[u] = pc[u] /\ loc'[u] = loc[u]
            BY <1>w, <1>1, <2>3, TransitionFields
        <3>2. QED
            BY <1>w, <1>3, <1>4, <2>3, <3>1 DEF KnowsPlan, BeforePlan, Transiting, Feasible
    <2>4. CASE Done(t)
        BY <2>4, DoneKnows
    <2>5. QED
        BY <1>2, <2>1, <2>2, <2>3, <2>4 DEF StorePlan, Commits, Makes
<1>7. \A u \in Threads \ {t} : BeforePlan(u)' => BeforePlan(u) /\ loc'[u].wf = loc[u].wf
    BY <1>6 DEF BeforePlan, Transiting
<1>8. ASSUME NEW u \in Threads \ {t} PROVE KnowsPlan(u)'
    <2>1. KnowsPlan(u) /\ pc'[u] = pc[u] /\ loc'[u] = loc[u]
        BY <1>6 DEF GateInv
    <2>2. CASE loc[u].wf # w
        BY <1>4, <2>1, <2>2, KnowsStays
    <2>3. CASE loc[u].wf = w
        <3>1. ~BeforePlan(u)
            BY <1>w, <1>2, <2>3 DEF GateInv, OneMaker
        <3>2. /\ pc[u] \notin {"trigger", "typed", "stored", "gate", "start", "step", "record",
                               "fail", "finish"}
              /\ Transiting(u) => loc[u].goal \in {"PLANNED", "REJECTED"}
                                  /\ loc[u].ret \notin {"start", "step", "gate"}
            BY <1>2, <2>1, <2>3 DEF KnowsPlan, Feasible, Cleared
        <3>3. QED
            BY <2>1, <3>1, <3>2 DEF KnowsPlan, BeforePlan, Transiting
    <2>4. QED
        BY <2>2, <2>3
<1>9. OneMaker'
    BY <1>6, <1>7 DEF GateInv, OneMaker
<1>10. ASSUME NEW r \in RunIds, Opened(r)'
       PROVE  runs'[r].wf \in Workflows /\ Cleared(runs[r].wf)'
    <2>1. Opened(r) /\ runs[r].wf \in Workflows /\ Cleared(runs[r].wf) /\ runs'[r] = runs[r]
        BY <1>4, <1>10 DEF GateInv, Opened
    <2>2. runs[r].wf # w
        BY <1>2, <2>1 DEF Cleared
    <2>3. wf'[runs[r].wf].plan = wf[runs[r].wf].plan
        BY <1>4, <2>1, <2>2
    <2>4. QED
        BY <2>1, <2>3 DEF Cleared, Kept
<1>11. QED
    BY <1>5, <1>6, <1>8, <1>9, <1>10 DEF GateInv

\* The calls of the handler that makes a workflow, between its plan and its gate.
LEMMA MakerGate ==
    ASSUME TypeInv, GateInv, Kept, NEW t \in Threads,
           StoreTrigger(t) \/ StoreTriggerType(t) \/ StoreSchedule(t) \/ Gate(t)
    PROVE  GateInv'
<1>w. PICK w \in Workflows : w = loc[t].wf
    BY LocalsOf DEF StoreTrigger, StoreTriggerType, StoreSchedule, Gate
<1>1. loc[t] \in Locals /\ KnowsPlan(t)
    BY LocalsOf DEF GateInv
<1>2. (\A v \in Workflows : wf'[v].plan = wf[v].plan) /\ UNCHANGED <<wstate, runs>>
    BY <1>w, PlansKept DEF StoreTrigger, StoreTriggerType, StoreSchedule, Gate, storeVars
<1>3. wf[w].plan \in PlanKind
    BY DEF TypeInv, TypeOK, StoreTypeOK, WorkflowRow
<1>4. CASE Done(t)
    BY <1>2, <1>4, DoneKnows, GateQuiet
<1>5. CASE GoOn(t, loc[t], "stored") /\ StoreTriggerType(t)
    <2>1. /\ pc'[t] = "stored" /\ loc'[t] = loc[t]
          /\ \A u \in Threads \ {t} : pc'[u] = pc[u] /\ loc'[u] = loc[u]
        BY <1>5, GoOnOthers
    <2>2. loc[t].op = "schedule" /\ wf'[w].plan = "auto"
        BY <1>w, <1>1, <1>2, <1>5 DEF KnowsPlan, StoreTriggerType
    <2>3. KnowsPlan(t)' /\ ~BeforePlan(t)'
        BY <1>w, <2>1, <2>2 DEF KnowsPlan, BeforePlan, Transiting
    <2>4. QED
        BY <1>2, <2>1, <2>3, GateQuiet
<1>6. ASSUME NEW to, NEW p, Transition(t, loc[t], to, p),
             \/ to = "REJECTED" /\ p = "idle"
             \/ to = "FEASIBLE" /\ p = "gate" /\ Feasible(w)
                /\ (loc[t].op # "create" => wf[w].plan = "auto")
             \/ to = "AWAITING_APPROVAL" /\ p = "idle" /\ wf[w].plan = "approval"
             \/ to = "READY" /\ p \in {"idle", "registerNext", "start"} /\ wf[w].plan = "auto"
      PROVE  GateInv'
    <2>1. /\ pc'[t] = "check" /\ loc'[t].goal = to /\ loc'[t].ret = p
          /\ loc'[t].op = loc[t].op /\ loc'[t].wf = w
          /\ \A u \in Threads \ {t} : pc'[u] = pc[u] /\ loc'[u] = loc[u]
        BY <1>w, <1>1, <1>6, TransitionFields
    <2>2. KnowsPlan(t)' /\ ~BeforePlan(t)'
        BY <1>2, <1>6, <2>1 DEF KnowsPlan, BeforePlan, Transiting, Feasible, Cleared
    <2>3. QED
        BY <1>2, <2>1, <2>2, GateQuiet
<1>7. CASE StoreTrigger(t)
    <2>1. loc[t].op = "create" /\ wf[w].plan # "none"
        BY <1>w, <1>1, <1>7 DEF KnowsPlan, StoreTrigger
    <2>2. wf[w].plan = "infeasible" \/ Feasible(w)
        BY <1>3, <2>1 DEF PlanKind, Feasible
    <2>3. \/ Transition(t, loc[t], "REJECTED", "idle")
          \/ Transition(t, loc[t], "FEASIBLE", "gate") /\ wf[w].plan # "infeasible"
          \/ Done(t)
        BY <1>w, <1>7 DEF StoreTrigger, Commits
    <2>4. QED
        BY <1>4, <1>6, <2>1, <2>2, <2>3
<1>8. CASE StoreSchedule(t)
    <2>1. wf[w].plan = "auto"
        BY <1>w, <1>1, <1>8 DEF KnowsPlan, StoreSchedule
    <2>2. QED
        BY <1>4, <1>6, <1>8, <2>1 DEF StoreSchedule, Commits, Feasible
<1>9. CASE Gate(t)
    <2>1. Feasible(w) /\ (loc[t].op # "create" => wf[w].plan = "auto")
        BY <1>w, <1>1, <1>9 DEF KnowsPlan, Gate
    <2>2. \/ Transition(t, loc[t], "AWAITING_APPROVAL", "idle") /\ wf[w].plan = "approval"
          \/ \E p \in {"idle", "registerNext", "start"} :
               Transition(t, loc[t], "READY", p) /\ wf[w].plan = "auto"
        BY <1>w, <1>9, <2>1 DEF Gate, Feasible
    <2>3. QED
        BY <1>6, <2>2
<1>10. QED
    BY <1>4, <1>5, <1>7, <1>8, <1>9 DEF StoreTriggerType, Commits

\* A workflow found FEASIBLE slips by; in every other armable state it was let
\* through before.
LEMMA ArmGate ==
    ASSUME TypeInv, GateInv, Kept, NEW t \in Threads, Arm(t)
    PROVE  GateInv'
<1>w. PICK w \in Workflows : w = loc[t].wf
    BY LocalsOf DEF Arm
<1>1. loc[t] \in Locals /\ UNCHANGED <<wf, wstate, runs>>
    BY LocalsOf DEF Arm, storeVars
<1>2. CASE Done(t)
    BY <1>1, <1>2, DoneKnows, GateQuiet
<1>3. wstate[w] \in {"READY"} \cup ArmableStates => Cleared(w)'
    <2>1. CASE wstate[w] = "FEASIBLE"
        <3>1. Feasible(w) /\ w \in slipped'
            BY <1>w, <2>1 DEF Arm, GateInv, StateOK
        <3>2. QED
            BY <1>1, <3>1 DEF Feasible, Cleared
    <2>2. CASE wstate[w] \in {"READY", "COMPLETED", "FAILED"}
        <3>1. Cleared(w)
            BY <2>2 DEF GateInv, StateOK
        <3>2. QED
            BY <1>1, <3>1, ClearedStays
    <2>3. QED
        BY <2>1, <2>2 DEF ArmableStates
<1>4. CASE GoOn(t, loc[t], "start") /\ wstate[w] = "READY"
    <2>1. /\ pc'[t] = "start" /\ loc'[t] = loc[t]
          /\ \A u \in Threads \ {t} : pc'[u] = pc[u] /\ loc'[u] = loc[u]
        BY <1>4, GoOnOthers
    <2>2. KnowsPlan(t)' /\ ~BeforePlan(t)'
        BY <1>w, <1>3, <1>4, <2>1 DEF KnowsPlan, BeforePlan, Transiting, Cleared
    <2>3. QED
        BY <1>1, <2>1, <2>2, GateQuiet
<1>5. CASE Transition(t, loc[t], "READY", "start") /\ wstate[w] \in ArmableStates
    <2>1. /\ pc'[t] = "check" /\ loc'[t].goal = "READY" /\ loc'[t].ret = "start" /\ loc'[t].wf = w
          /\ \A u \in Threads \ {t} : pc'[u] = pc[u] /\ loc'[u] = loc[u]
        BY <1>w, <1>1, <1>5, TransitionFields
    <2>2. KnowsPlan(t)' /\ ~BeforePlan(t)'
        BY <1>3, <1>5, <2>1 DEF KnowsPlan, BeforePlan, Transiting, Cleared
    <2>3. QED
        BY <1>1, <2>1, <2>2, GateQuiet
<1>6. QED
    BY <1>w, <1>2, <1>4, <1>5 DEF Arm

LEMMA StartGate ==
    ASSUME TypeInv, GateInv, Kept, NEW t \in Threads, Start(t)
    PROVE  GateInv'
<1>w. PICK w \in Workflows : w = loc[t].wf
    BY LocalsOf DEF Start
<1>1. loc[t] \in Locals /\ Cleared(w)
    BY <1>w, LocalsOf DEF Start, GateInv, KnowsPlan
<1>2. CASE Done(t) /\ UNCHANGED storeVars
    BY <1>2, DoneKnows, GateQuiet DEF storeVars
<1>3. ASSUME NEW r \in FreshRuns, StartRun(r, w, loc[t].key),
             \/ Transition(t, [loc[t] EXCEPT !.run = r, !.step = 1], "RUNNING", "step")
             \/ Done(t)
      PROVE  GateInv'
    <2> DEFINE l == [loc[t] EXCEPT !.run = r, !.step = 1]
    <2>1. r \in RunIds /\ 1 \in 0 .. NumSteps + 1
        BY StoreAssumption DEF FreshRuns
    <2>2. l \in Locals /\ l.wf = w
        BY <1>w, <1>1, <2>1 DEF Locals
    <2>3. UNCHANGED <<wstate, wf>> /\ runs'[r].wf = w
          /\ \A q \in RunIds \ {r} : runs'[q] = runs[q]
        BY <1>3, <2>1 DEF StartRun, TypeInv, TypeOK, StoreTypeOK
    <2>4. \A q \in RunIds : Opened(q)' => \/ Opened(q) /\ runs'[q].wf = runs[q].wf
                                         \/ \E v \in Workflows : runs'[q].wf = v /\ Cleared(v)
        BY <1>1, <2>3 DEF Opened
    <2>5. Transition(t, l, "RUNNING", "step") \/ Done(t)
        BY <1>3
    <2> HIDE DEF l
    <2>6. CASE Transition(t, l, "RUNNING", "step")
        <3>1. /\ pc'[t] = "check" /\ loc'[t].goal = "RUNNING" /\ loc'[t].ret = "step"
              /\ loc'[t].wf = w
              /\ \A u \in Threads \ {t} : pc'[u] = pc[u] /\ loc'[u] = loc[u]
            BY <2>2, <2>6, TransitionFields
        <3>2. Cleared(w)'
            BY <1>1, <2>3, ClearedStays
        <3>3. KnowsPlan(t)' /\ ~BeforePlan(t)'
            BY <3>1, <3>2 DEF KnowsPlan, BeforePlan, Transiting, Cleared
        <3>4. QED
            BY <2>3, <2>4, <3>1, <3>3, GateStep
    <2>7. CASE Done(t)
        BY <2>3, <2>4, <2>7, DoneKnows, GateStep
    <2>8. QED
        BY <2>5, <2>6, <2>7
<1>4. QED
    BY <1>w, <1>2, <1>3 DEF Start, Commits

\* Inside a run nothing more is learnt of the plan, and no run is opened.
LEMMA ExecutorGate ==
    ASSUME TypeInv, RunInv, GateInv, Kept, NEW t \in Threads,
           \/ SkipStep(t) \/ RunStep(t) \/ NotifyStep(t) \/ RecordNotify(t) \/ FailStep(t)
           \/ RefuseNotify(t) \/ Finish(t)
    PROVE  GateInv'
<1>1. Holds(t) /\ pc[t] \in {"step", "record", "fail", "finish"}
    BY DEF SkipStep, RunStep, NotifyStep, RecordNotify, FailStep, RefuseNotify, Finish, Holds
<1>w. PICK w \in Workflows : w = loc[t].wf
    BY <1>1, LocalsOf
<1>2. PICK r \in RunIds : r = loc[t].run /\ runs[r].status = "RUNNING"
    BY <1>1, HeldRunIsRunning
<1>3. /\ runs'[r].wf = runs[r].wf /\ \A q \in RunIds \ {r} : runs'[q] = runs[q]
      /\ UNCHANGED <<wstate, wf>>
    BY <1>2 DEF SkipStep, RunStep, NotifyStep, RecordNotify, FailStep, RefuseNotify, Finish,
           CheckpointStep, FinishRun, WriteOutbox, storeVars, TypeInv, TypeOK, StoreTypeOK, RunRow
<1>4. \A q \in RunIds : Opened(q)' => Opened(q) /\ runs'[q].wf = runs[q].wf
    BY <1>2, <1>3 DEF Opened
<1>5. Cleared(w)'
    BY <1>w, <1>1, <1>3, ClearedStays DEF GateInv, KnowsPlan
<1>6. loc[t] \in Locals
    BY LocalsOf
<1>7. ASSUME NEW l, NEW p \in {"step", "record", "fail", "finish"}, GoOn(t, l, p), l.wf = w
      PROVE  GateInv'
    <2>1. /\ pc'[t] = p /\ loc'[t] = l
          /\ \A u \in Threads \ {t} : pc'[u] = pc[u] /\ loc'[u] = loc[u]
        BY <1>7, GoOnOthers
    <2>2. KnowsPlan(t)' /\ ~BeforePlan(t)'
        BY <1>5, <1>7, <2>1 DEF KnowsPlan, BeforePlan, Transiting, Cleared
    <2>3. QED
        BY <1>3, <1>4, <2>1, <2>2, GateStep
<1>8. CASE Finish(t)
    <2>1. PICK s \in {"COMPLETED", "FAILED"} :
             Transition(t, loc[t], s, After(loc[t].op)) \/ Done(t)
        BY <1>8 DEF Finish, Commits
    <2>2. CASE Done(t)
        BY <1>3, <1>4, <2>2, DoneKnows, GateStep
    <2>3. CASE Transition(t, loc[t], s, After(loc[t].op))
        <3>1. /\ pc'[t] = "check" /\ loc'[t].goal = s
              /\ loc'[t].ret = After(loc[t].op) /\ loc'[t].wf = w
              /\ \A u \in Threads \ {t} : pc'[u] = pc[u] /\ loc'[u] = loc[u]
            BY <1>w, <1>6, <2>3, TransitionFields
        <3>2. loc'[t].ret \notin {"plan", "gate", "start", "step"}
            BY <3>1 DEF After
        <3>3. KnowsPlan(t)' /\ ~BeforePlan(t)'
            BY <1>5, <2>1, <3>1, <3>2 DEF KnowsPlan, BeforePlan, Transiting, Cleared
        <3>4. QED
            BY <1>3, <1>4, <3>1, <3>3, GateStep
    <2>4. QED
        BY <2>1, <2>2, <2>3
<1>9. CASE \/ SkipStep(t) \/ RunStep(t) \/ NotifyStep(t) \/ RecordNotify(t) \/ FailStep(t)
           \/ RefuseNotify(t)
    <2> DEFINE l == [loc[t] EXCEPT !.step = @ + 1]
    <2>1. l.wf = w
        BY <1>w, <1>6 DEF Locals
    <2>2. \/ \E p \in {"step", "finish"} : GoOn(t, l, p)
          \/ \E p \in {"record", "fail", "finish"} : GoOn(t, loc[t], p)
        BY <1>9 DEF SkipStep, RunStep, NotifyStep, RecordNotify, FailStep, RefuseNotify, Advance,
                    Checkpoints, Commits
    <2> HIDE DEF l
    <2>3. QED
        BY <1>w, <1>7, <2>1, <2>2
<1>10. QED
    BY <1>8, <1>9

\* The calls that know nothing of the plan.
LEMMA OtherGate ==
    ASSUME TypeInv, GateInv, Kept, NEW t \in Threads,
           \/ PlannerRaises(t) \/ NextMatch(t) \/ ExistsCheck(t) \/ StoreNextRun(t)
           \/ RegisterNext(t) \/ RegisterJob(t) \/ PauseJob(t) \/ PauseNext(t)
           \/ RefuseCall(t) \/ RefuseCheckpoint(t)
    PROVE  GateInv'
<1>1. (\A v \in Workflows : wf'[v].plan = wf[v].plan) /\ UNCHANGED <<wstate, runs>>
    <2>1. CASE StoreNextRun(t) \/ RegisterNext(t) \/ PauseNext(t)
        <3>1. loc[t].wf \in Workflows
            BY <2>1, LocalsOf DEF StoreNextRun, RegisterNext, PauseNext
        <3>2. QED
            BY <2>1, <3>1, PlansKept DEF StoreNextRun, RegisterNext, PauseNext
    <2>2. CASE UNCHANGED storeVars
        BY <2>2 DEF storeVars
    <2>3. QED
        BY <2>1, <2>2 DEF PlannerRaises, NextMatch, ExistsCheck, RegisterJob, PauseJob,
                          RefuseCall, RefuseCheckpoint
<1>2. \E l : \E p \in {"idle", "arm", "registerJob", "pauseNext"} : GoOn(t, l, p)
    BY DEF PlannerRaises, NextMatch, ExistsCheck, StoreNextRun, RegisterNext, RegisterJob,
           PauseJob, PauseNext, RefuseCall, RefuseCheckpoint, Commits, Done
<1>3. /\ pc'[t] \in KnowNothing
      /\ \A u \in Threads \ {t} : pc'[u] = pc[u] /\ loc'[u] = loc[u]
    BY <1>2, GoOnOthers DEF KnowNothing, PC
<1>4. QED
    BY <1>1, <1>3, KnowsNothing, GateQuiet

LEMMA ProcessGate ==
    ASSUME TypeInv, GateInv, Kept,
           \/ \E p \in Procs :
                \/ Crash(p) \/ Restart(p) \/ ReloadNext(p) \/ RefuseReload(p)
                \/ \E w \in Workflows : DropFire(p, w)
           \/ Tick \/ UNCHANGED vars
    PROVE  GateInv'
<1>1. /\ \A v \in Workflows : wf'[v].plan = wf[v].plan
      /\ UNCHANGED <<wstate, runs>>
    <2>1. ASSUME NEW p \in Procs, NEW w \in reload[p], SetNextRun(w, TRUE)
          PROVE  (\A v \in Workflows : wf'[v].plan = wf[v].plan) /\ UNCHANGED <<wstate, runs>>
        <3>1. w \in Workflows
            BY DEF TypeInv, TypeOK
        <3>2. QED
            BY <2>1, <3>1, PlansKept
    <2>2. QED
        BY <2>1 DEF Crash, Restart, ReloadNext, RefuseReload, DropFire, Tick, vars, storeVars
<1>2. \A u \in Threads : pc'[u] = "idle" \/ (pc'[u] = pc[u] /\ loc'[u] = loc[u])
    BY DEF Crash, Restart, ReloadNext, RefuseReload, DropFire, Ends, Tick, vars
<1>3. \A w \in Workflows : StateOK(w)'
    BY <1>1, ClearedStays DEF GateInv, StateOK
<1>4. ASSUME NEW u \in Threads PROVE KnowsPlan(u)'
    <2>1. CASE pc'[u] = "idle"
        BY <2>1, KnowsNothing DEF KnowNothing, PC
    <2>2. CASE pc'[u] = pc[u] /\ loc'[u] = loc[u]
        BY <1>1, <2>2, KnowsStays DEF GateInv
    <2>3. QED
        BY <1>2, <2>1, <2>2
<1>5. OneMaker'
    BY <1>2 DEF GateInv, OneMaker, BeforePlan, Transiting
<1>6. ASSUME NEW r \in RunIds, Opened(r)'
      PROVE  runs'[r].wf \in Workflows /\ Cleared(runs[r].wf)'
    BY <1>1, <1>6 DEF GateInv, Opened, Cleared, Kept
<1>7. QED
    BY <1>3, <1>4, <1>5, <1>6 DEF GateInv

LEMMA InitGate == Init => GateInv
BY DEF Init, StoreInit, NewWorkflow, NoRun, GateInv, StateOK, KnowsPlan, OneMaker, BeforePlan,
       Transiting, Opened

\* What a workflow's state, and each handler's next call, tell of its plan.
THEOREM GateInvariant == Spec => []GateInv
<1>1. TypeInv /\ RunInv /\ GateInv /\ [Next]_vars => GateInv'
    <2> SUFFICES ASSUME TypeInv, RunInv, GateInv, [Next]_vars PROVE GateInv'
        OBVIOUS
    <2>a. Kept
        BY RestStep
    <2>1. ASSUME NEW t \in Threads, Continue(t) PROVE GateInv'
        BY <2>1, <2>a, TransitionCheckGate, TransitionWriteGate, StorePlanGate, MakerGate,
           ArmGate, StartGate, ExecutorGate, OtherGate DEF Continue
    <2>2. QED
        BY <2>1, <2>a, BeginGate, ProcessGate DEF Next
<1>2. QED
    BY <1>1, InitGate, RunInvariant, PTL DEF Spec

\* Whatever requests, fires, crashes and locks interleave, a run is opened only
\* of a workflow whose stored plan passed the feasibility check ...
THEOREM OnlyCheckedRuns == Spec => []OnlyCheckedPlansRun
<1>1. GateInv => OnlyCheckedPlansRun
    BY DEF GateInv, Cleared, OnlyCheckedPlansRun
<1>2. QED
    BY <1>1, GateInvariant, PTL

\* ... and, if the plan needs approval, only of one that was approved or that was
\* armed in the window between the two transitions of POST /workflows.
THEOREM GateHolds == Spec => []GateButForTheWindow
<1>1. GateInv => GateButForTheWindow
    BY DEF GateInv, Cleared, GateButForTheWindow
<1>2. QED
    BY <1>1, GateInvariant, PTL
=============================================================================
