------------------------------- MODULE PlanRun -------------------------------
(***************************************************************************)
(* One run of one plan: the feasibility check of feasibility.py, then the  *)
(* loop of Executor.execute over the steps in the order of their numbers,  *)
(* with the data flow WorkflowEngine leaves out: which results a step      *)
(* reads, which steps are skipped because of that, and why a step fails.   *)
(*                                                                         *)
(* A step is its number, the references of its arguments, the reference of *)
(* its guard, and what the registry says of its tool.  A reference names   *)
(* the trigger payload, a step number, or is malformed; what a field holds *)
(* is data, so a guard may be true, false or incomparable, and a read of a *)
(* result that exists may still raise for a missing field.                 *)
(***************************************************************************)
EXTENDS Integers, Sequences, FiniteSets

CONSTANTS
    Numbers,        \* the step numbers the planner may write
    Plans,          \* the plans this instance submits
    MaxPlanSteps,   \* config.MAX_PLAN_STEPS
    Trigger,        \* a reference to the trigger payload
    Malformed,      \* a reference the grammar does not match
    NoGuard         \* a step without a when condition

Ref == Numbers \cup {Trigger, Malformed}

PlanStep ==
    [num: Numbers,
     refs: SUBSET Ref,                  \* of the arguments
     guard: Ref \cup {NoGuard},
     permitted: BOOLEAN]                \* registered, category and arguments valid

ASSUME PlanAssumption ==
    /\ Numbers \subseteq Int
    /\ Plans \subseteq Seq(PlanStep)
    /\ MaxPlanSteps \in Nat
    /\ {Trigger, Malformed, NoGuard} \cap Numbers = {}
    /\ Trigger # Malformed /\ NoGuard \notin {Trigger, Malformed}

VARIABLES
    plan,       \* the stored plan
    phase,      \* what became of it
    outcomes,   \* outcomes[i]: what became of plan[i]
    results,    \* the step numbers with a result
    skipped,    \* the step numbers skipped
    rows,       \* step_results of the run, keyed by step number
    fault       \* why the run failed

vars == <<plan, phase, outcomes, results, skipped, rows, fault>>

Positions == DOMAIN plan
Outcome == {"none", "ok", "skipped", "error"}

Init ==
    /\ plan \in Plans
    /\ phase = "planned"
    /\ outcomes = [i \in DOMAIN plan |-> "none"]
    /\ results = {}
    /\ skipped = {}
    /\ rows = [n \in Numbers |-> "none"]
    /\ fault = "none"

-----------------------------------------------------------------------------
(* check_plan *)

StepNumbers(p) == {p[i].num : i \in DOMAIN p}

\* The references a step reads: its arguments' and its guard's.
Reads(s) == s.refs \cup ({s.guard} \ {NoGuard})

\* Mutated form: a reference backward is not looked up in the plan.
RefOK_Absent(r, s, p) == r = Trigger \/ (r \in Numbers /\ r < s.num)

\* _check_ref: backward, and at a step of the plan
RefOK(r, s, p) ==
    r = Trigger \/ (r \in Numbers /\ r < s.num /\ r \in StepNumbers(p))

Feasible(p) ==
    /\ p # <<>>
    /\ Len(p) <= MaxPlanSteps
    /\ \A i \in DOMAIN p :
          p[i].permitted /\ \A r \in Reads(p[i]) : RefOK(r, p[i], p)

Check ==
    /\ phase = "planned"
    /\ phase' = IF Feasible(plan) THEN "running" ELSE "rejected"
    /\ UNCHANGED <<plan, outcomes, results, skipped, rows, fault>>

-----------------------------------------------------------------------------
(* Executor.execute *)

\* The steps are taken in the order of their numbers, ties in plan order.
Current(i) ==
    /\ phase = "running"
    /\ outcomes[i] = "none"
    /\ \A j \in Positions :
          outcomes[j] = "none" =>
            plan[i].num < plan[j].num \/ (plan[i].num = plan[j].num /\ i <= j)

\* Mutated form: a skipped step ends the plan for every later one.
Blocked_After(s) == \E n \in skipped : n < s.num

\* Some step it refers to was skipped.
Blocked(s) == Reads(s) \cap skipped # {}

\* _resolve_value finds the source of a reference.
Resolves(r) == r = Trigger \/ r \in results

\* A checkpoint: INSERT OR REPLACE of the row (run, step number).
Checkpoint(i, o) ==
    /\ outcomes' = [outcomes EXCEPT ![i] = o]
    /\ rows' = [rows EXCEPT ![plan[i].num] = o]

\* Mutated form: a skip is recorded and not remembered.
Skip_Forgotten(i) ==
    /\ Checkpoint(i, "skipped")
    /\ UNCHANGED <<plan, phase, results, skipped, fault>>

Skip(i) ==
    /\ Checkpoint(i, "skipped")
    /\ skipped' = skipped \cup {plan[i].num}
    /\ UNCHANGED <<plan, phase, results, fault>>

Abort(i, why) ==
    /\ Checkpoint(i, "error")
    /\ phase' = "FAILED"
    /\ fault' = why
    /\ UNCHANGED <<plan, results, skipped>>

CascadeSkip(i) ==
    /\ Current(i)
    /\ Blocked(plan[i])
    /\ Skip(i)

GuardFalse(i) ==
    /\ Current(i)
    /\ ~Blocked(plan[i])
    /\ plan[i].guard # NoGuard
    /\ Resolves(plan[i].guard)
    /\ Skip(i)

\* The guard or an argument has no source to resolve to.
NoSource(i) ==
    LET s == plan[i]
    IN /\ Current(i)
       /\ ~Blocked(s)
       /\ \E r \in Reads(s) : ~Resolves(r)
       /\ Abort(i, "reference")

\* A missing field, an incomparable guard, invalid arguments, or the tool raises.
StepRaises(i) ==
    LET s == plan[i]
    IN /\ Current(i)
       /\ ~Blocked(s)
       /\ s.guard = NoGuard \/ Resolves(s.guard)
       /\ s.guard = NoGuard /\ s.refs # {} => \E r \in s.refs : Resolves(r)
       /\ Abort(i, "value")

RunStep(i) ==
    LET s == plan[i]
    IN /\ Current(i)
       /\ ~Blocked(s)
       /\ \A r \in Reads(s) : Resolves(r)
       /\ Checkpoint(i, "ok")
       /\ results' = results \cup {s.num}
       /\ UNCHANGED <<plan, phase, skipped, fault>>

Finish ==
    /\ phase = "running"
    /\ \A i \in Positions : outcomes[i] # "none"
    /\ phase' = "COMPLETED"
    /\ UNCHANGED <<plan, outcomes, results, skipped, rows, fault>>

Next ==
    \/ Check
    \/ \E i \in Positions :
         CascadeSkip(i) \/ GuardFalse(i) \/ NoSource(i) \/ StepRaises(i) \/ RunStep(i)
    \/ Finish

Spec == Init /\ [][Next]_vars

-----------------------------------------------------------------------------

\* Every variable has its type.
TypeOK ==
    /\ plan \in Seq(PlanStep)
    /\ phase \in {"planned", "rejected", "running", "COMPLETED", "FAILED"}
    /\ outcomes \in [DOMAIN plan -> Outcome]
    /\ results \subseteq Numbers
    /\ skipped \subseteq Numbers
    /\ rows \in [Numbers -> Outcome]
    /\ fault \in {"none", "reference", "value"}

\* What check_plan lets through never fails on a reference to a step that has
\* not run, whatever guards turn out false and however the planner ordered or
\* numbered the steps: the check by number and the run by order agree.
FeasibleNeverDangles == fault # "reference"

\* A step reads only results of steps that ran: no step that ran depends on a
\* step that was skipped or failed, under any of the steps with its number.
DataComesFromRuns ==
    \A i, j \in Positions :
        outcomes[i] = "ok" /\ plan[j].num \in Reads(plan[i]) => outcomes[j] = "ok"

\* A step without a guard is skipped only for a step it depends on that was
\* skipped: every cascade starts at a guard that was false.
SkipsHaveACause ==
    \A i \in Positions :
        outcomes[i] = "skipped" /\ plan[i].guard = NoGuard =>
            \E j \in Positions : plan[j].num \in plan[i].refs /\ outcomes[j] = "skipped"

\* "A step_results row is written after EVERY step ... No step is ever silently
\* lost" (state.py): the row of each step executed so far tells its outcome.
EveryStepRecorded ==
    \A i \in Positions : outcomes[i] # "none" => rows[plan[i].num] = outcomes[i]
=============================================================================
