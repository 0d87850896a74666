---------------------------- MODULE PlanRunProofs ----------------------------
(***************************************************************************)
(* Proofs about PlanRun for every set of plans, of any length and with any *)
(* numbering: what check_plan lets through never fails on a reference, and *)
(* data flows only from steps that ran.                                    *)
(*                                                                         *)
(* The argument rests on two books agreeing: the outcome of each position  *)
(* and the sets of numbers the executor looks references up in (Books);    *)
(* and on a step being reached only when every step with a smaller number  *)
(* has an outcome (Current).                                               *)
(***************************************************************************)
EXTENDS PlanRun, TLAPS

Books ==
    /\ phase = "running" => Feasible(plan)
    /\ \A i \in Positions :
          /\ phase = "planned" => outcomes[i] = "none"
          /\ phase = "running" => outcomes[i] # "error"
          /\ outcomes[i] = "ok" => plan[i].num \in results
          /\ outcomes[i] = "skipped" => plan[i].num \in skipped
    /\ \A n \in skipped : \E j \in Positions : plan[j].num = n /\ outcomes[j] = "skipped"

DataInv ==
    /\ TypeOK
    /\ Books
    /\ FeasibleNeverDangles
    /\ DataComesFromRuns
    /\ SkipsHaveACause

LEMMA InitOK == Init => DataInv
<1> SUFFICES ASSUME Init PROVE DataInv
    OBVIOUS
<1> USE DEF Init
<1>1. TypeOK
    BY PlanAssumption DEF TypeOK, Outcome
<1>2. Books
    BY DEF Books, Positions
<1>3. FeasibleNeverDangles /\ DataComesFromRuns /\ SkipsHaveACause
    BY DEF FeasibleNeverDangles, DataComesFromRuns, SkipsHaveACause, Positions
<1>. QED
    BY <1>1, <1>2, <1>3 DEF DataInv

\* A step that is reached refers backward, to positions with an outcome that is
\* not an error: the heart of the soundness of check_plan.
LEMMA ReadsAreDone ==
    ASSUME DataInv, NEW i \in Positions, Current(i),
           NEW j \in Positions, plan[j].num \in Reads(plan[i])
    PROVE  outcomes[j] \in {"ok", "skipped"} /\ plan[j].num < plan[i].num
<1>1. Feasible(plan) /\ phase = "running"
    BY DEF DataInv, Books, Current
<1>2. plan[i] \in PlanStep /\ plan[j] \in PlanStep
    BY DEF DataInv, TypeOK, Positions
<1>3. plan[j].num \in Int /\ plan[i].num \in Int /\ plan[j].num # Trigger
    BY <1>2, PlanAssumption DEF PlanStep
<1>4. RefOK(plan[j].num, plan[i], plan)
    BY <1>1 DEF Feasible, Positions
<1>5. plan[j].num < plan[i].num
    BY <1>3, <1>4 DEF RefOK
<1>6. outcomes[j] # "none"
    BY <1>3, <1>5 DEF Current
<1>7. outcomes[j] # "error" /\ outcomes[j] \in Outcome
    BY <1>1 DEF DataInv, Books, TypeOK, Positions
<1>. QED
    BY <1>5, <1>6, <1>7 DEF Outcome

\* So every reference of a step that is reached resolves, or blocks the step.
LEMMA ReadsResolve ==
    ASSUME DataInv, NEW i \in Positions, Current(i), ~Blocked(plan[i]),
           NEW r \in Reads(plan[i])
    PROVE  Resolves(r)
<1>1. Feasible(plan)
    BY DEF DataInv, Books, Current
<1>2. RefOK(r, plan[i], plan)
    BY <1>1 DEF Feasible, Positions
<1>3. CASE r = Trigger
    BY <1>3 DEF Resolves
<1>4. CASE r \in StepNumbers(plan)
  <2>1. PICK j \in Positions : plan[j].num = r
      BY <1>4 DEF StepNumbers, Positions
  <2>2. outcomes[j] \in {"ok", "skipped"}
      BY <2>1, ReadsAreDone
  <2>3. outcomes[j] # "skipped"
      BY <2>1 DEF DataInv, Books, Blocked
  <2>. QED
      BY <2>1, <2>2, <2>3 DEF DataInv, Books, Resolves
<1>. QED
    BY <1>2, <1>3, <1>4 DEF RefOK

\* What a checkpoint does to the type of the two tables it writes.
LEMMA CheckpointType ==
    ASSUME DataInv, NEW i \in Positions, NEW o \in Outcome, Checkpoint(i, o),
           plan' = plan
    PROVE  /\ outcomes' \in [DOMAIN plan' -> Outcome]
           /\ rows' \in [Numbers -> Outcome]
           /\ plan'[i] \in PlanStep
           /\ plan[i].num \in Numbers
           /\ outcomes'[i] = o
           /\ \A j \in Positions : j # i => outcomes'[j] = outcomes[j]
<1>1. plan[i] \in PlanStep
    BY DEF DataInv, TypeOK, Positions
<1>. QED
    BY <1>1 DEF DataInv, TypeOK, Checkpoint, Positions, PlanStep

LEMMA SkipOK ==
    ASSUME DataInv, NEW i \in Positions, Current(i), Skip(i),
           Blocked(plan[i]) \/ plan[i].guard # NoGuard
    PROVE  DataInv'
<1>0. /\ Checkpoint(i, "skipped") /\ "skipped" \in Outcome
      /\ plan' = plan /\ phase' = phase /\ results' = results /\ fault' = fault
      /\ skipped' = skipped \cup {plan[i].num}
    BY DEF Skip, Outcome
<1>1. /\ outcomes' \in [DOMAIN plan' -> Outcome]
      /\ rows' \in [Numbers -> Outcome]
      /\ plan[i].num \in Numbers
      /\ outcomes'[i] = "skipped"
      /\ \A j \in Positions : j # i => outcomes'[j] = outcomes[j]
    BY <1>0, CheckpointType
<1>2. TypeOK'
    BY <1>0, <1>1 DEF DataInv, TypeOK
<1>3. outcomes[i] = "none" /\ phase = "running"
    BY DEF Current
<1>4. Books'
  <2>1. phase' = "running" => Feasible(plan')
      BY <1>0 DEF DataInv, Books
  <2>2. \A j \in Positions :
            /\ phase' = "planned" => outcomes'[j] = "none"
            /\ phase' = "running" => outcomes'[j] # "error"
            /\ outcomes'[j] = "ok" => plan[j].num \in results'
            /\ outcomes'[j] = "skipped" => plan[j].num \in skipped'
      BY <1>0, <1>1, <1>3 DEF DataInv, Books
  <2>3. \A n \in skipped' : \E j \in Positions : plan[j].num = n /\ outcomes'[j] = "skipped"
      BY <1>0, <1>1, <1>3 DEF DataInv, Books
  <2>. QED
      BY <1>0, <2>1, <2>2, <2>3 DEF Books, Positions
<1>5. FeasibleNeverDangles'
    BY <1>0 DEF DataInv, FeasibleNeverDangles
<1>6. DataComesFromRuns'
    BY <1>0, <1>1, <1>3 DEF DataInv, DataComesFromRuns, Positions
<1>7. SkipsHaveACause'
  <2>1. ASSUME NEW k \in Positions, outcomes'[k] = "skipped", plan[k].guard = NoGuard
        PROVE  \E j \in Positions : plan[j].num \in plan[k].refs /\ outcomes'[j] = "skipped"
    <3>1. CASE k = i
      <4>1. PICK n \in skipped : n \in plan[i].refs
          BY <2>1, <3>1 DEF Blocked, Reads
      <4>2. PICK j \in Positions : plan[j].num = n /\ outcomes[j] = "skipped"
          BY DEF DataInv, Books
      <4>. QED
          BY <1>1, <1>3, <3>1, <4>1, <4>2
    <3>2. CASE k # i
        BY <1>1, <1>3, <2>1, <3>2 DEF DataInv, SkipsHaveACause
    <3>. QED
        BY <3>1, <3>2
  <2>. QED
      BY <1>0, <2>1 DEF SkipsHaveACause, Positions
<1>. QED
    BY <1>2, <1>4, <1>5, <1>6, <1>7 DEF DataInv

LEMMA RunStepOK ==
    ASSUME DataInv, NEW i \in Positions, RunStep(i)
    PROVE  DataInv'
<1>0. /\ Checkpoint(i, "ok") /\ "ok" \in Outcome /\ Current(i) /\ ~Blocked(plan[i])
      /\ plan' = plan /\ phase' = phase /\ skipped' = skipped /\ fault' = fault
      /\ results' = results \cup {plan[i].num}
    BY DEF RunStep, Outcome
<1>1. /\ outcomes' \in [DOMAIN plan' -> Outcome]
      /\ rows' \in [Numbers -> Outcome]
      /\ plan[i].num \in Numbers
      /\ outcomes'[i] = "ok"
      /\ \A j \in Positions : j # i => outcomes'[j] = outcomes[j]
    BY <1>0, CheckpointType
<1>2. TypeOK'
    BY <1>0, <1>1 DEF DataInv, TypeOK
<1>3. outcomes[i] = "none" /\ phase = "running"
    BY <1>0 DEF Current
<1>4. Books'
  <2>1. phase' = "running" => Feasible(plan')
      BY <1>0 DEF DataInv, Books
  <2>2. \A j \in Positions :
            /\ phase' = "planned" => outcomes'[j] = "none"
            /\ phase' = "running" => outcomes'[j] # "error"
            /\ outcomes'[j] = "ok" => plan[j].num \in results'
            /\ outcomes'[j] = "skipped" => plan[j].num \in skipped'
      BY <1>0, <1>1, <1>3 DEF DataInv, Books
  <2>3. \A n \in skipped' : \E j \in Positions : plan[j].num = n /\ outcomes'[j] = "skipped"
      BY <1>0, <1>1, <1>3 DEF DataInv, Books
  <2>. QED
      BY <1>0, <2>1, <2>2, <2>3 DEF Books, Positions
<1>5. FeasibleNeverDangles'
    BY <1>0 DEF DataInv, FeasibleNeverDangles
<1>6. DataComesFromRuns'
  <2>1. ASSUME NEW k \in Positions, NEW j \in Positions,
               outcomes'[k] = "ok", plan[j].num \in Reads(plan[k])
        PROVE  outcomes'[j] = "ok"
    <3>1. CASE k = i
      <4>1. outcomes[j] \in {"ok", "skipped"}
          BY <1>0, <2>1, <3>1, ReadsAreDone
      <4>2. outcomes[j] # "skipped"
          BY <1>0, <2>1, <3>1 DEF DataInv, Books, Blocked
      <4>. QED
          BY <1>1, <4>1, <4>2
    <3>2. CASE k # i
        BY <1>1, <2>1, <3>2 DEF DataInv, DataComesFromRuns
    <3>. QED
        BY <3>1, <3>2
  <2>. QED
      BY <1>0, <2>1 DEF DataComesFromRuns, Positions, Reads
<1>7. SkipsHaveACause'
    BY <1>0, <1>1, <1>3 DEF DataInv, SkipsHaveACause, Positions
<1>. QED
    BY <1>2, <1>4, <1>5, <1>6, <1>7 DEF DataInv

LEMMA StepRaisesOK ==
    ASSUME DataInv, NEW i \in Positions, StepRaises(i)
    PROVE  DataInv'
<1>0. /\ Checkpoint(i, "error") /\ "error" \in Outcome /\ Current(i)
      /\ plan' = plan /\ phase' = "FAILED" /\ skipped' = skipped /\ fault' = "value"
      /\ results' = results
    BY DEF StepRaises, Abort, Outcome
<1>1. /\ outcomes' \in [DOMAIN plan' -> Outcome]
      /\ rows' \in [Numbers -> Outcome]
      /\ outcomes'[i] = "error"
      /\ \A j \in Positions : j # i => outcomes'[j] = outcomes[j]
    BY <1>0, CheckpointType
<1>2. TypeOK'
    BY <1>0, <1>1 DEF DataInv, TypeOK
<1>3. outcomes[i] = "none"
    BY <1>0 DEF Current
<1>4. Books'
    BY <1>0, <1>1, <1>3 DEF DataInv, Books, Positions
<1>5. FeasibleNeverDangles'
    BY <1>0 DEF FeasibleNeverDangles
<1>6. DataComesFromRuns'
    BY <1>0, <1>1, <1>3 DEF DataInv, DataComesFromRuns, Positions, Reads
<1>7. SkipsHaveACause'
    BY <1>0, <1>1, <1>3 DEF DataInv, SkipsHaveACause, Positions
<1>. QED
    BY <1>2, <1>4, <1>5, <1>6, <1>7 DEF DataInv

LEMMA StepOK == DataInv /\ [Next]_vars => DataInv'
<1> SUFFICES ASSUME DataInv, [Next]_vars PROVE DataInv'
    OBVIOUS
<1>1. CASE Check
    BY <1>1 DEF Check, DataInv, TypeOK, Books, FeasibleNeverDangles, DataComesFromRuns,
                SkipsHaveACause, Positions, Reads
<1>2. CASE Finish
    BY <1>2 DEF Finish, DataInv, TypeOK, Books, FeasibleNeverDangles, DataComesFromRuns,
                SkipsHaveACause, Positions, Reads
<1>3. CASE UNCHANGED vars
    BY <1>3 DEF vars, DataInv, TypeOK, Books, FeasibleNeverDangles, DataComesFromRuns,
                SkipsHaveACause, Positions, Reads, Feasible, RefOK, StepNumbers
<1>4. ASSUME NEW i \in Positions, CascadeSkip(i) \/ GuardFalse(i) PROVE DataInv'
    BY <1>4, SkipOK DEF CascadeSkip, GuardFalse
<1>5. ASSUME NEW i \in Positions, NoSource(i) PROVE DataInv'
    BY <1>5, ReadsResolve DEF NoSource
<1>6. ASSUME NEW i \in Positions, StepRaises(i) PROVE DataInv'
    BY <1>6, StepRaisesOK
<1>7. ASSUME NEW i \in Positions, RunStep(i) PROVE DataInv'
    BY <1>7, RunStepOK
<1>. QED
    BY <1>1, <1>2, <1>3, <1>4, <1>5, <1>6, <1>7 DEF Next

\* Every reachable state satisfies the inductive invariant.
THEOREM PlanInvariant == Spec => []DataInv
<1>. QED
    BY InitOK, StepOK, PTL DEF Spec

\* A run of a plan that check_plan let through (feasibility.py) never fails on a
\* reference to a step that has not run (executor.py, _resolve_value).
THEOREM CheckIsSound == Spec => []FeasibleNeverDangles
<1>1. DataInv => FeasibleNeverDangles
    BY DEF DataInv
<1>. QED
    BY <1>1, PlanInvariant, PTL

\* No step that ran read from a step that was skipped or failed.
THEOREM DataFlowsFromRuns == Spec => []DataComesFromRuns
<1>1. DataInv => DataComesFromRuns
    BY DEF DataInv
<1>. QED
    BY <1>1, PlanInvariant, PTL

\* Every skip cascades from a guard that was false.
THEOREM SkipsCascade == Spec => []SkipsHaveACause
<1>1. DataInv => SkipsHaveACause
    BY DEF DataInv
<1>. QED
    BY <1>1, PlanInvariant, PTL
=============================================================================
