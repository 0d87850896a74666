------------------------------ MODULE AgentTeam ------------------------------
(***************************************************************************)
(* The supervisor graph of agents/multi_agent: evaluate() puts a           *)
(* transaction on a fresh blackboard, the router picks a specialist after  *)
(* another, code overrides its picks, and decision_agent ends the run.     *)
(*                                                                         *)
(* The router's model is free to answer anything.  The graph is compiled   *)
(* with a MemorySaver, so the state of a thread outlives an evaluation in  *)
(* the process: evaluate() overwrites every slot of the blackboard, but    *)
(* agents_invoked has an appending reducer and keeps what it had.  The one *)
(* process that evaluates more than once is eval_runner.py: it names the   *)
(* thread after the transaction, which its sample, from an append-only     *)
(* table, may hold twice, and stops at the first evaluation that raises.   *)
(***************************************************************************)
EXTENDS Integers, Sequences, SequencesExt

CONSTANTS
    Evaluations,    \* the thread_id of each evaluate() call of the process
    MaxSteps        \* config.ORCHESTRATOR_MAX_STEPS

Feature == "feature_agent"
Risk == "risk_agent"
Policy == "policy_agent"
Decider == "decision_agent"

\* config.SPECIALIST_AGENTS
Specialists == <<Feature, Risk, Policy, Decider>>
Agent == {Feature, Risk, Policy, Decider}

Thread == {Evaluations[k] : k \in DOMAIN Evaluations}

ASSUME TeamAssumption ==
    /\ Evaluations \in Seq(Thread)
    /\ MaxSteps \in Nat

\* The cap leaves room for every specialist (config.py: 6 turns for 4 of them).
ASSUME CapAssumption == MaxSteps > Len(Specialists) + 1

VARIABLES
    call,       \* which evaluate() call is being served
    phase,      \* where its graph is: a node, or between two calls
    invoked,    \* per thread: agents_invoked
    board,      \* the agents whose finding slot of this evaluation is set
    verdicts    \* per call: how it ended, and the slots set when it did

vars == <<call, phase, invoked, board, verdicts>>

Open == [end |-> "open", slots |-> {}]

Init ==
    /\ call = 0
    /\ phase = "idle"
    /\ invoked = [t \in Thread |-> <<>>]
    /\ board = {}
    /\ verdicts = [k \in DOMAIN Evaluations |-> Open]

Now == Evaluations[call]

-----------------------------------------------------------------------------
(* Routing, as operators of the agents already invoked. *)

Has(log, a) == \E i \in DOMAIN log : log[i] = a

Available(log) == {a \in Agent : ~Has(log, a)}

\* The first available specialist, in the order of config.SPECIALIST_AGENTS.
FirstAvailable(log) ==
    LET k == CHOOSE i \in 1 .. 4 :
                /\ Specialists[i] \in Available(log)
                /\ \A j \in 1 .. i - 1 : Specialists[j] \notin Available(log)
    IN Specialists[k]

\* No choice is left to make.
HardStop(log) ==
    Available(log) = {Decider} \/ Len(log) >= MaxSteps - 1

Forced(log) == IF Policy \in Available(log) THEN Policy ELSE Decider

\* Mutated form: the second guardrail is missing.
Guarded_Ungrounded(log, pick) ==
    IF pick \in Available(log) THEN pick ELSE FirstAvailable(log)

\* The router's pick after invariant 1, then after invariant 2.
Guarded(log, pick) ==
    LET once == IF pick \in Available(log) THEN pick ELSE FirstAvailable(log)
    IN IF once = Decider /\ ~Has(log, Policy) THEN Policy ELSE once

-----------------------------------------------------------------------------
(* The graph. *)

\* run's next transaction, unless one before it raised; evaluate resets every
\* slot, and agents_invoked gets [] appended.
Begin ==
    /\ phase = "idle"
    /\ call < Len(Evaluations)
    /\ \A k \in DOMAIN verdicts : verdicts[k].end # "raised"
    /\ call' = call + 1
    /\ phase' = "orchestrator"
    /\ board' = {}
    /\ UNCHANGED <<invoked, verdicts>>

RouteTo(a) ==
    /\ phase' = a
    /\ UNCHANGED <<call, invoked, board, verdicts>>

RouteForced ==
    /\ phase = "orchestrator"
    /\ HardStop(invoked[Now])
    /\ RouteTo(Forced(invoked[Now]))

\* Mutated form: with no agent left to fall back on the run goes to its decision.
RouteByModel_Decides ==
    /\ phase = "orchestrator"
    /\ ~HardStop(invoked[Now])
    /\ \E pick \in Agent :
          RouteTo(IF Available(invoked[Now]) = {} THEN Decider ELSE Guarded(invoked[Now], pick))

RouteByModel ==
    /\ phase = "orchestrator"
    /\ ~HardStop(invoked[Now])
    /\ Available(invoked[Now]) # {}
    /\ \E pick \in Agent : RouteTo(Guarded(invoked[Now], pick))

\* A specialist fills its slot and appends its name.
Work(a) ==
    /\ phase = a
    /\ phase' = "orchestrator"
    /\ board' = board \cup {a}
    /\ invoked' = [invoked EXCEPT ![Now] = Append(@, a)]
    /\ UNCHANGED <<call, verdicts>>

FeatureAgent == Work(Feature)
RiskAgent == Work(Risk)
PolicyAgent == Work(Policy)

\* decision_agent has the last word, whatever is on the blackboard.
Decide ==
    /\ phase = Decider
    /\ phase' = "idle"
    /\ invoked' = [invoked EXCEPT ![Now] = Append(@, Decider)]
    /\ verdicts' = [verdicts EXCEPT ![call] = [end |-> "decided", slots |-> board]]
    /\ UNCHANGED <<call, board>>

\* Mutated form: a failed node hands back to the router instead of raising.
Raise_Retried ==
    /\ phase # "idle"
    /\ phase' = "orchestrator"
    /\ UNCHANGED <<call, invoked, board, verdicts>>

\* A model or a tool raises, or the router has no agent left to fall back on
\* (available[0] of an empty list): evaluate() raises, the thread's memory stays.
Raise ==
    /\ phase # "idle"
    /\ phase' = "idle"
    /\ verdicts' = [verdicts EXCEPT ![call] = [end |-> "raised", slots |-> board]]
    /\ UNCHANGED <<call, invoked, board>>

Next ==
    \/ Begin
    \/ RouteForced
    \/ RouteByModel
    \/ FeatureAgent
    \/ RiskAgent
    \/ PolicyAgent
    \/ Decide
    \/ Raise

Spec == Init /\ [][Next]_vars

\* The graph runs node after node by itself; the caller serves its list.
FairSpec == Spec /\ WF_vars(Next)

-----------------------------------------------------------------------------

\* Every variable has its type.
TypeOK ==
    /\ call \in 0 .. Len(Evaluations)
    /\ phase \in Agent \cup {"idle", "orchestrator"}
    /\ invoked \in [Thread -> Seq(Agent)]
    /\ board \subseteq Agent
    /\ verdicts \in [DOMAIN Evaluations ->
                        [end : {"open", "decided", "raised"}, slots : SUBSET Agent]]

\* "No decision without policy grounding ... structurally impossible to
\* violate" (orchestrator.py): whatever the router's model answers, and whatever
\* an earlier evaluation left on the thread, a decision is made with policy
\* guidance on the blackboard of its own evaluation.
GroundedDecision ==
    \A k \in DOMAIN verdicts :
        verdicts[k].end = "decided" => Policy \in verdicts[k].slots

\* "Each specialist runs at most once" (orchestrator.py), the decision agent too,
\* on a memory that outlives the evaluation: a transaction the sample holds twice
\* is not decided a second time on what the first evaluation gathered.
OneDecisionPerThread ==
    \A j, k \in DOMAIN verdicts :
        /\ verdicts[j].end = "decided" /\ verdicts[k].end = "decided"
        /\ Evaluations[j] = Evaluations[k]
        => j = k

\* "A hard step cap ends a confused run" (orchestrator.py): an evaluation comes
\* to an end, in a decision or an exception, whatever the router's model answers.
EvaluationEnds == phase # "idle" ~> phase = "idle"
=============================================================================
