----------------------------- MODULE AgentProofs -----------------------------
(***************************************************************************)
(* The two guardrails of the router and the cap of the single agent, for   *)
(* any list of evaluations, on threads used however often, and any answers *)
(* of the model; the knowledge base they search, for ingests one at a      *)
(* time; and its chunker, for a section of any length.                     *)
(***************************************************************************)
EXTENDS AgentTeam, PolicySearch, FiniteSetTheorems, WellFoundedInduction, TLAPS

Distinct(log) == \A i, j \in DOMAIN log : log[i] = log[j] => i = j

\* No agent is twice in the memory of a thread.
NoRepeats == \A t \in Thread : Distinct(invoked[t])

NoneRaised == \A k \in DOMAIN verdicts : verdicts[k].end # "raised"

\* While no evaluation has raised, a thread not being served is one no call has
\* used or one that has been decided.
Settled ==
    NoneRaised =>
        \A t \in Thread : phase = "idle" \/ t # Now =>
            invoked[t] = <<>> \/ Has(invoked[t], Decider)

\* An evaluation under way is the first to raise, if it does, and on a thread not
\* decided yet what the router reads is what this evaluation did.
LogIsThisRun ==
    phase # "idle" =>
        /\ call \in DOMAIN Evaluations
        /\ NoneRaised
        /\ Has(invoked[Now], Policy) => Policy \in board \/ Has(invoked[Now], Decider)

\* A node that is about to run has not run, and the last one is grounded.
PickIsLegal ==
    phase \in Agent =>
        /\ ~Has(invoked[Now], phase)
        /\ phase = Decider => Has(invoked[Now], Policy)

\* A decision is remembered by its thread.
DecisionsAreKept ==
    \A k \in DOMAIN verdicts :
        verdicts[k].end = "decided" => Has(invoked[Evaluations[k]], Decider)

TeamInv ==
    /\ TypeOK
    /\ NoRepeats
    /\ Settled
    /\ LogIsThisRun
    /\ PickIsLegal
    /\ DecisionsAreKept
    /\ OneDecisionPerThread
    /\ GroundedDecision

-----------------------------------------------------------------------------

\* The log after a node has run names that node and the ones before it.
LEMMA HasAppend ==
    ASSUME NEW log \in Seq(Agent), NEW a \in Agent, NEW b \in Agent
    PROVE  /\ Append(log, b) \in Seq(Agent)
           /\ Has(Append(log, b), a) <=> Has(log, a) \/ a = b
<1>1. /\ DOMAIN log = 1 .. Len(log)
      /\ Len(log) \in Nat
      /\ DOMAIN Append(log, b) = 1 .. Len(log) + 1
      /\ \A i \in 1 .. Len(log) : Append(log, b)[i] = log[i]
      /\ Append(log, b)[Len(log) + 1] = b
  OBVIOUS
<1>2. Has(log, a) => Has(Append(log, b), a)
  BY <1>1, SMT DEF Has
<1>3. a = b => Has(Append(log, b), a)
  BY <1>1, SMT DEF Has
<1>4. Has(Append(log, b), a) => Has(log, a) \/ a = b
  BY <1>1, SMT DEF Has
<1> QED
  BY <1>2, <1>3, <1>4

\* The fallback of invariant 1 is one of the agents still available.
LEMMA FallbackIsAvailable ==
    ASSUME NEW log, Available(log) # {}
    PROVE  FirstAvailable(log) \in Available(log)
<1> DEFINE P(i) == /\ Specialists[i] \in Available(log)
                   /\ \A j \in 1 .. i - 1 : Specialists[j] \notin Available(log)
<1>1. PICK i \in 1 .. 4 : Specialists[i] \in Available(log)
  BY DEF Available, Agent, Specialists, Feature, Risk, Policy, Decider
<1>2. \E k \in 1 .. 4 : P(k)
  <2>1. CASE Specialists[1] \in Available(log)
    BY <2>1
  <2>2. CASE Specialists[1] \notin Available(log) /\ Specialists[2] \in Available(log)
    BY <2>2
  <2>3. CASE /\ Specialists[1] \notin Available(log)
             /\ Specialists[2] \notin Available(log)
             /\ Specialists[3] \in Available(log)
    BY <2>3
  <2>4. CASE \A j \in 1 .. 3 : Specialists[j] \notin Available(log)
    BY <2>4, <1>1
  <2> QED
    BY <2>1, <2>2, <2>3, <2>4
<1>3. P(CHOOSE k \in 1 .. 4 : P(k))
  BY <1>2
<1> QED
  BY <1>3 DEF FirstAvailable

\* Whatever the model answers, the guarded pick is an agent that has not run,
\* and it is the decision agent only when the policy agent has.
LEMMA GuardedIsLegal ==
    ASSUME NEW log, NEW pick \in Agent, Available(log) # {}
    PROVE  /\ Guarded(log, pick) \in Agent
           /\ ~Has(log, Guarded(log, pick))
           /\ Guarded(log, pick) = Decider => Has(log, Policy)
<1> DEFINE once == IF pick \in Available(log) THEN pick ELSE FirstAvailable(log)
<1>1. once \in Available(log)
  BY FallbackIsAvailable
<1>2. once \in Agent /\ ~Has(log, once)
  BY <1>1 DEF Available
<1>3. Guarded(log, pick) = IF once = Decider /\ ~Has(log, Policy) THEN Policy ELSE once
  BY DEF Guarded
<1>4. Policy \in Agent /\ Policy # Decider
  BY DEF Agent, Policy, Decider
<1> QED
  BY <1>2, <1>3, <1>4

\* The choice forced at the cap is legal too, while no decision has been made.
LEMMA ForcedIsLegal ==
    ASSUME NEW log, ~Has(log, Decider)
    PROVE  /\ Forced(log) \in Agent
           /\ ~Has(log, Forced(log))
           /\ Forced(log) = Decider => Has(log, Policy)
  BY DEF Forced, Available, Agent, Policy, Decider

\* A memory without repetition is not longer than there are agents.
LEMMA DistinctIsShort ==
    ASSUME NEW log \in Seq(Agent), Distinct(log)
    PROVE  Len(log) <= 4
<1> SUFFICES ASSUME Len(log) > 4 PROVE FALSE
  BY Len(log) \in Nat
<1>1. 1 \in DOMAIN log /\ 2 \in DOMAIN log /\ 3 \in DOMAIN log /\ 4 \in DOMAIN log /\ 5 \in DOMAIN log
  OBVIOUS
<1> DEFINE S == {log[1], log[2], log[3], log[4], log[5]}
<1>2. /\ log[1] \in Agent /\ log[2] \in Agent /\ log[3] \in Agent
      /\ log[4] \in Agent /\ log[5] \in Agent
  BY <1>1
<1>3. /\ log[1] # log[2] /\ log[1] # log[3] /\ log[1] # log[4] /\ log[1] # log[5]
      /\ log[2] # log[3] /\ log[2] # log[4] /\ log[2] # log[5]
      /\ log[3] # log[4] /\ log[3] # log[5] /\ log[4] # log[5]
  BY <1>1 DEF Distinct
<1> QED
  BY <1>2, <1>3 DEF Agent

LEMMA EvaluationThreads ==
    /\ Len(Evaluations) \in Nat
    /\ DOMAIN Evaluations = 1 .. Len(Evaluations)
    /\ \A k \in DOMAIN Evaluations : Evaluations[k] \in Thread
  BY TeamAssumption DEF Thread

LEMMA AgentNames ==
    /\ Policy \in Agent /\ Decider \in Agent /\ Policy # Decider
    /\ "idle" \notin Agent /\ "orchestrator" \notin Agent
  BY DEF Agent, Feature, Risk, Policy, Decider

\* The cap is never what ends an evaluation: before it no agent is left.
LEMMA CapIsSpare ==
    ASSUME NEW log \in Seq(Agent), Distinct(log)
    PROVE  Len(log) < MaxSteps - 1
<1>1. Len(Specialists) = 4
  BY DEF Specialists
<1> QED
  BY <1>1, DistinctIsShort, CapAssumption, TeamAssumption

LEMMA DistinctAppend ==
    ASSUME NEW log \in Seq(Agent), NEW a \in Agent, Distinct(log), ~Has(log, a)
    PROVE  Distinct(Append(log, a))
<1>1. /\ DOMAIN log = 1 .. Len(log)
      /\ Len(log) \in Nat
      /\ DOMAIN Append(log, a) = 1 .. Len(log) + 1
      /\ \A i \in 1 .. Len(log) : Append(log, a)[i] = log[i]
      /\ Append(log, a)[Len(log) + 1] = a
  OBVIOUS
<1> QED
  BY <1>1, SMT DEF Distinct, Has

-----------------------------------------------------------------------------

LEMMA InitTeam == Init => TeamInv
<1> SUFFICES ASSUME Init PROVE TeamInv
  OBVIOUS
<1>1. <<>> \in Seq(Agent) /\ 0 \in 0 .. Len(Evaluations)
  BY EvaluationThreads
<1>2. TypeOK
  BY <1>1 DEF TypeOK, Init, Open, Agent
<1>3. NoRepeats /\ Settled
  BY DEF Init, NoRepeats, Distinct, Settled
<1>4. LogIsThisRun /\ PickIsLegal
  BY AgentNames DEF Init, LogIsThisRun, PickIsLegal
<1>5. DecisionsAreKept /\ OneDecisionPerThread /\ GroundedDecision
  BY DEF Init, DecisionsAreKept, OneDecisionPerThread, GroundedDecision, Open
<1> QED
  BY <1>2, <1>3, <1>4, <1>5 DEF TeamInv

\* The verdicts and the memory as they were, what is said of decisions stays.
LEMMA SameDecisions ==
    ASSUME TeamInv, UNCHANGED <<invoked, verdicts>>
    PROVE  NoRepeats' /\ DecisionsAreKept' /\ OneDecisionPerThread' /\ GroundedDecision'
  BY DEF TeamInv, NoRepeats, DecisionsAreKept, OneDecisionPerThread, GroundedDecision

\* A new call resets the blackboard; its thread is unused or decided.
LEMMA BeginKeeps ==
    ASSUME TeamInv, Begin
    PROVE  TeamInv'
<1> USE DEF TeamInv
<1>1. call + 1 \in DOMAIN Evaluations /\ call \in Nat
  BY EvaluationThreads DEF Begin, TypeOK
<1>2. TypeOK'
  BY <1>1, EvaluationThreads DEF Begin, TypeOK
<1>3. NoneRaised /\ NoneRaised'
  BY DEF Begin, NoneRaised
<1>4. \A t \in Thread : invoked[t] = <<>> \/ Has(invoked[t], Decider)
  BY <1>3 DEF Settled, Begin
<1>5. Settled'
  BY <1>4 DEF Begin, Settled
<1>6. Evaluations[call + 1] \in Thread
  BY <1>1, EvaluationThreads
<1>8. LogIsThisRun'
  BY <1>1, <1>3, <1>4, <1>6 DEF Begin, LogIsThisRun, Now, Has
<1>9. PickIsLegal'
  BY AgentNames DEF Begin, PickIsLegal
<1> QED
  BY <1>2, <1>5, <1>8, <1>9, SameDecisions DEF Begin

\* A routing step only chooses, and its choice is legal.
LEMMA RouteKeeps ==
    ASSUME TeamInv, phase = "orchestrator", NEW a \in Agent, RouteTo(a),
           ~Has(invoked[Now], a), a = Decider => Has(invoked[Now], Policy)
    PROVE  TeamInv'
<1> USE DEF TeamInv
<1>1. TypeOK'
  BY DEF RouteTo, TypeOK
<1>2. Settled' /\ LogIsThisRun'
  BY AgentNames DEF RouteTo, Settled, LogIsThisRun, NoneRaised, Now
<1>3. PickIsLegal'
  BY DEF RouteTo, PickIsLegal, Now
<1> QED
  BY <1>1, <1>2, <1>3, SameDecisions DEF RouteTo

\* A specialist adds itself to the memory and its finding to the blackboard.
LEMMA WorkKeeps ==
    ASSUME TeamInv, NEW a \in Agent \ {Decider}, Work(a)
    PROVE  TeamInv'
<1> USE DEF TeamInv
<1> DEFINE log == invoked[Now]
<1>1. /\ call \in DOMAIN Evaluations /\ Now \in Thread
      /\ NoneRaised
      /\ ~Has(log, a)
      /\ Has(log, Policy) => Policy \in board \/ Has(log, Decider)
      /\ log \in Seq(Agent)
      /\ Now' = Now
  BY AgentNames, EvaluationThreads DEF LogIsThisRun, PickIsLegal, Work, TypeOK, Now
<1>2. invoked' = [invoked EXCEPT ![Now] = Append(log, a)]
  BY DEF Work
<1>3. Append(log, a) \in Seq(Agent) /\ invoked'[Now] = Append(log, a)
  BY <1>1, <1>2 DEF TypeOK
<1> HIDE DEF log
<1>4. TypeOK'
  BY <1>2, <1>3 DEF Work, TypeOK
<1>5. \A b \in Agent : Has(Append(log, a), b) <=> Has(log, b) \/ b = a
  BY <1>1, HasAppend
<1>6. NoRepeats'
  <2>1. Distinct(log)
    BY <1>1 DEF NoRepeats, log
  <2>2. Distinct(Append(log, a))
    BY <1>1, <2>1, DistinctAppend
  <2> QED
    BY <1>1, <1>2, <2>2 DEF NoRepeats, TypeOK
<1>7. Settled'
  BY <1>1, <1>2 DEF Work, Settled, NoneRaised, TypeOK
<1>8. LogIsThisRun'
  <2>1. Has(invoked'[Now], Policy) => Policy \in board' \/ Has(invoked'[Now], Decider)
    BY <1>1, <1>3, <1>5, AgentNames DEF Work
  <2>2. NoneRaised'
    BY <1>1 DEF Work, NoneRaised
  <2> QED
    BY <1>1, <2>1, <2>2 DEF LogIsThisRun, Work
<1>9. PickIsLegal'
  BY AgentNames DEF Work, PickIsLegal
<1>10. DecisionsAreKept'
  <2> SUFFICES ASSUME NEW k \in DOMAIN verdicts, verdicts[k].end = "decided"
               PROVE  Has(invoked'[Evaluations[k]], Decider)
    BY DEF Work, DecisionsAreKept
  <2>1. Has(invoked[Evaluations[k]], Decider) /\ Evaluations[k] \in Thread
    BY EvaluationThreads DEF DecisionsAreKept, TypeOK
  <2> QED
    BY <1>2, <1>3, <1>5, <2>1, AgentNames DEF TypeOK, log
<1>11. OneDecisionPerThread' /\ GroundedDecision'
  BY DEF Work, OneDecisionPerThread, GroundedDecision
<1> QED
  BY <1>4, <1>6, <1>7, <1>8, <1>9, <1>10, <1>11

\* A decision is the first of its thread, and made on this run's policy.
LEMMA DecideKeeps ==
    ASSUME TeamInv, Decide
    PROVE  TeamInv'
<1> USE DEF TeamInv
<1> DEFINE log == invoked[Now]
<1>1. /\ call \in DOMAIN Evaluations /\ Now \in Thread
      /\ NoneRaised
      /\ ~Has(log, Decider)
      /\ Policy \in board
      /\ log \in Seq(Agent)
      /\ Now = Evaluations[call]
  BY AgentNames, EvaluationThreads DEF LogIsThisRun, PickIsLegal, Decide, TypeOK, Now
<1>2. invoked' = [invoked EXCEPT ![Now] = Append(log, Decider)]
  BY DEF Decide
<1>3. Append(log, Decider) \in Seq(Agent) /\ invoked'[Now] = Append(log, Decider)
  BY <1>1, <1>2, AgentNames DEF TypeOK
<1> HIDE DEF log
<1>4. TypeOK'
  BY <1>1, <1>2, <1>3 DEF Decide, TypeOK
<1>5. Has(Append(log, Decider), Decider)
  BY <1>1, HasAppend, AgentNames
<1>6. NoRepeats'
  <2>1. Distinct(log)
    BY <1>1 DEF NoRepeats, log
  <2>2. Distinct(Append(log, Decider))
    BY <1>1, <2>1, DistinctAppend, AgentNames
  <2> QED
    BY <1>1, <1>2, <2>2 DEF NoRepeats, TypeOK
<1>7. Settled'
  <2> SUFFICES ASSUME NEW t \in Thread
               PROVE  invoked'[t] = <<>> \/ Has(invoked'[t], Decider)
    BY DEF Settled
  <2>1. CASE t = Now
    BY <2>1, <1>3, <1>5
  <2>2. CASE t # Now
    BY <2>2, <1>1, <1>2 DEF Settled, TypeOK
  <2> QED
    BY <2>1, <2>2
<1>8. LogIsThisRun' /\ PickIsLegal'
  BY AgentNames DEF Decide, LogIsThisRun, PickIsLegal
<1>9. /\ verdicts' = [verdicts EXCEPT ![call] = [end |-> "decided", slots |-> board]]
      /\ DOMAIN verdicts = DOMAIN Evaluations
  BY DEF Decide, TypeOK
<1>10. DecisionsAreKept'
  <2> SUFFICES ASSUME NEW k \in DOMAIN verdicts, verdicts'[k].end = "decided"
               PROVE  Has(invoked'[Evaluations[k]], Decider)
    BY <1>9 DEF DecisionsAreKept
  <2>1. CASE Evaluations[k] = Now
    BY <2>1, <1>3, <1>5
  <2>2. CASE Evaluations[k] # Now
    <3>1. verdicts'[k] = verdicts[k]
      BY <2>2, <1>1, <1>9
    <3>2. Evaluations[k] \in Thread
      BY <1>9, EvaluationThreads
    <3> QED
      BY <2>2, <3>1, <3>2, <1>2 DEF DecisionsAreKept, TypeOK
  <2> QED
    BY <2>1, <2>2
<1>11. OneDecisionPerThread'
  <2>1. \A k \in DOMAIN verdicts : Evaluations[k] = Now => verdicts[k].end # "decided"
    BY <1>1 DEF DecisionsAreKept, log
  <2> QED
    BY <1>1, <1>9, <2>1 DEF OneDecisionPerThread
<1>12. GroundedDecision'
  BY <1>1, <1>9 DEF GroundedDecision
<1> QED
  BY <1>4, <1>6, <1>7, <1>8, <1>10, <1>11, <1>12

\* After an exception no evaluation begins: its thread stays as it was left.
LEMMA RaiseKeeps ==
    ASSUME TeamInv, Raise
    PROVE  TeamInv'
<1> USE DEF TeamInv
<1>1. /\ call \in DOMAIN verdicts
      /\ verdicts' = [verdicts EXCEPT ![call] = [end |-> "raised", slots |-> board]]
  BY DEF Raise, LogIsThisRun, TypeOK
<1>2. TypeOK'
  BY <1>1 DEF Raise, TypeOK
<1>3. ~NoneRaised'
  BY <1>1 DEF NoneRaised
<1>4. Settled' /\ LogIsThisRun' /\ PickIsLegal'
  BY <1>3, AgentNames DEF Raise, Settled, LogIsThisRun, PickIsLegal
<1>5. NoRepeats' /\ DecisionsAreKept' /\ OneDecisionPerThread' /\ GroundedDecision'
  BY <1>1 DEF Raise, NoRepeats, DecisionsAreKept, OneDecisionPerThread, GroundedDecision
<1> QED
  BY <1>2, <1>4, <1>5

LEMMA NextTeam == TeamInv /\ [Next]_vars => TeamInv'
<1> SUFFICES ASSUME TeamInv, [Next]_vars PROVE TeamInv'
  OBVIOUS
<1>1. CASE Begin
  BY <1>1, BeginKeeps
<1>2. CASE RouteForced
  <2>1. Now \in Thread /\ invoked[Now] \in Seq(Agent) /\ Distinct(invoked[Now])
    BY <1>2, EvaluationThreads DEF RouteForced, TeamInv, TypeOK, LogIsThisRun, NoRepeats, Now
  <2>2. Available(invoked[Now]) = {Decider}
    <3>1. Len(invoked[Now]) \in Nat /\ MaxSteps \in Nat
      BY <2>1, TeamAssumption
    <3>2. Len(invoked[Now]) < MaxSteps - 1
      BY <2>1, CapIsSpare
    <3> QED
      BY <1>2, <3>1, <3>2 DEF RouteForced, HardStop
  <2>3. phase = "orchestrator" /\ ~Has(invoked[Now], Decider)
    BY <1>2, <2>2 DEF RouteForced, Available
  <2> QED
    BY <1>2, <2>3, ForcedIsLegal, RouteKeeps DEF RouteForced
<1>3. CASE RouteByModel
  <2>1. PICK pick \in Agent : RouteTo(Guarded(invoked[Now], pick))
    BY <1>3 DEF RouteByModel
  <2>2. phase = "orchestrator" /\ Available(invoked[Now]) # {}
    BY <1>3 DEF RouteByModel
  <2> QED
    BY <2>1, <2>2, GuardedIsLegal, RouteKeeps
<1>4. CASE FeatureAgent \/ RiskAgent \/ PolicyAgent
  BY <1>4, WorkKeeps
     DEF FeatureAgent, RiskAgent, PolicyAgent, Agent, Feature, Risk, Policy, Decider
<1>5. CASE Decide
  BY <1>5, DecideKeeps
<1>6. CASE Raise
  BY <1>6, RaiseKeeps
<1>7. CASE UNCHANGED vars
  BY <1>7 DEF vars, TeamInv, TypeOK, NoRepeats, Settled, NoneRaised, LogIsThisRun,
              PickIsLegal, DecisionsAreKept, OneDecisionPerThread, GroundedDecision, Now
<1> QED
  BY <1>1, <1>2, <1>3, <1>4, <1>5, <1>6, <1>7 DEF Next

\* The strengthened invariant of the graph, for any list of threads.
THEOREM TeamInvariant == Spec => []TeamInv
  BY InitTeam, NextTeam, PTL DEF Spec

\* No decision is made without policy guidance gathered in its own evaluation,
\* on a thread that is new or that an evaluation before has left its memory on.
THEOREM DecisionsAreGrounded == Spec => []GroundedDecision
<1>1. TeamInv => GroundedDecision
  BY DEF TeamInv
<1> QED
  BY <1>1, TeamInvariant, PTL

\* No thread is decided twice: the memory of the first decision leaves the second
\* evaluation no way to one.
THEOREM ThreadsAreDecidedOnce == Spec => []OneDecisionPerThread
<1>1. TeamInv => OneDecisionPerThread
  BY DEF TeamInv
<1> QED
  BY <1>1, TeamInvariant, PTL

-----------------------------------------------------------------------------
(* The single agent *)

\* An evaluation of the thread raised.
RaisedOn(t) == \E k \in DOMAIN Conversations : Conversations[k] = t /\ endings[k].end = "raised"

\* Nothing has ended yet of the calls to come and of the one under way.
YetToEnd ==
    \A k \in DOMAIN Conversations :
        k > turn \/ (k = turn /\ node # "idle") => endings[k].end = "open"

\* The calls without an answer on a thread, the one at the tools apart.
Carried(t) == unanswered[t] - (IF node = "tools" /\ t = Talking THEN 1 ELSE 0)

\* A thread carries such a call only at the cap or after an exception.
CallsAreExcused ==
    /\ node # "idle" => turn \in DOMAIN Conversations
    /\ node = "tools" => unanswered[Talking] > 0
    /\ \A t \in ChatThread : Carried(t) > 0 => spoken[t] >= MaxReasoningSteps \/ RaisedOn(t)

AgentInv == AgentTypeOK /\ YetToEnd /\ CallsAreExcused /\ ToolsAnswered

-----------------------------------------------------------------------------

LEMMA ConversationThreads ==
    /\ Len(Conversations) \in Nat
    /\ DOMAIN Conversations = 1 .. Len(Conversations)
    /\ \A k \in DOMAIN Conversations : Conversations[k] \in ChatThread
  BY AgentAssumption DEF ChatThread

LEMMA InitAgent == AgentInit => AgentInv
<1> SUFFICES ASSUME AgentInit PROVE AgentInv
  OBVIOUS
<1>1. AgentTypeOK
  BY ConversationThreads DEF AgentInit, AgentTypeOK, Ongoing, Ending
<1>2. YetToEnd /\ CallsAreExcused /\ ToolsAnswered
  BY DEF AgentInit, YetToEnd, CallsAreExcused, Carried, ToolsAnswered, Ongoing
<1> QED
  BY <1>1, <1>2 DEF AgentInv

\* A new evaluation leaves the threads as they are.
LEMMA EvaluateKeeps ==
    ASSUME AgentInv, Evaluate
    PROVE  AgentInv'
<1> USE DEF AgentInv
<1>1. turn \in Nat /\ turn' = turn + 1 /\ turn' \in DOMAIN Conversations
  BY ConversationThreads DEF Evaluate, AgentTypeOK
<1>2. AgentTypeOK'
  BY <1>1, ConversationThreads DEF Evaluate, AgentTypeOK
<1>3. YetToEnd'
  BY <1>1, ConversationThreads DEF Evaluate, YetToEnd
<1>4. CallsAreExcused'
  BY <1>1 DEF Evaluate, CallsAreExcused, Carried, RaisedOn
<1>5. ToolsAnswered'
  BY DEF Evaluate, ToolsAnswered, RaisedBefore
<1> QED
  BY <1>2, <1>3, <1>4, <1>5

LEMMA CallModelKeeps ==
    ASSUME AgentInv, CallModel
    PROVE  AgentInv'
<1> USE DEF AgentInv
<1> DEFINE left == unanswered[Talking] + IF wants' = "nothing" THEN 0 ELSE 1
           said == OneMore(spoken[Talking])
<1>1. /\ turn \in DOMAIN Conversations
      /\ Talking \in ChatThread
      /\ spoken[Talking] \in Nat
      /\ unanswered[Talking] \in Nat
      /\ MaxReasoningSteps \in Nat
  BY ConversationThreads, AgentAssumption DEF CallModel, CallsAreExcused, AgentTypeOK, Talking
<1>2. /\ spoken' = [spoken EXCEPT ![Talking] = said]
      /\ unanswered' = [unanswered EXCEPT ![Talking] = left]
      /\ UNCHANGED <<turn, endings>>
  BY <1>1 DEF CallModel
<1>3. said \in Nat /\ left \in Nat /\ left >= unanswered[Talking]
      /\ (spoken[Talking] >= MaxReasoningSteps => said >= MaxReasoningSteps)
      /\ (wants' = "nothing" => left = unanswered[Talking])
      /\ (wants' # "nothing" => left > 0)
  BY <1>1 DEF OneMore
<1>4. spoken'[Talking] = said /\ unanswered'[Talking] = left /\ Talking' = Talking
  BY <1>1, <1>2 DEF AgentTypeOK, Talking
<1>5. /\ node' = ShouldContinue(said, wants')
      /\ wants' \in {"nothing", "policy", "other"}
      /\ node = "agent"
  BY <1>4 DEF CallModel
<1> HIDE DEF said, left
<1>6. AgentTypeOK'
  <2>1. node' \in {"tools", "finalize"}
    BY <1>5 DEF ShouldContinue
  <2>2. turn' \in 0 .. Len(Conversations) /\ turn' > 0
    BY <1>1, <1>2, ConversationThreads
  <2>3. spoken' \in [ChatThread -> Nat] /\ unanswered' \in [ChatThread -> Nat]
    BY <1>2, <1>3 DEF AgentTypeOK
  <2> QED
    BY <1>2, <1>5, <2>1, <2>2, <2>3 DEF AgentTypeOK
<1>7. YetToEnd'
  BY <1>2, <1>5 DEF YetToEnd
<1>8. CallsAreExcused'
  <2>1. ASSUME NEW t \in ChatThread, Carried(t)' > 0
        PROVE  spoken'[t] >= MaxReasoningSteps \/ RaisedOn(t)'
    <3>1. CASE t # Talking
      <4>1. unanswered'[t] = unanswered[t] /\ spoken'[t] = spoken[t] /\ unanswered[t] \in Nat
        BY <3>1, <1>2 DEF AgentTypeOK
      <4>2. Carried(t) = unanswered[t] /\ Carried(t)' = unanswered[t]
        BY <3>1, <4>1, <1>4, <1>5 DEF Carried
      <4> QED
        BY <2>1, <4>1, <4>2, <1>2 DEF CallsAreExcused, RaisedOn
    <3>2. CASE t = Talking
      <4>1. Carried(t) = unanswered[Talking]
        BY <3>2, <1>1, <1>5 DEF Carried
      <4>2. CASE unanswered[Talking] > 0
        BY <3>2, <4>1, <4>2, <1>2, <1>3, <1>4, <1>1 DEF CallsAreExcused, RaisedOn
      <4>3. CASE unanswered[Talking] = 0 /\ said < MaxReasoningSteps
        <5>1. left = IF node' = "tools" THEN 1 ELSE 0
          BY <4>3, <1>1, <1>3, <1>5 DEF ShouldContinue, left
        <5>2. Carried(t)' = 0
          BY <3>2, <5>1, <1>4 DEF Carried
        <5> QED
          BY <2>1, <5>2
      <4>4. CASE said >= MaxReasoningSteps
        BY <3>2, <4>4, <1>4
      <4> QED
        BY <4>2, <4>3, <4>4, <1>1, <1>3
    <3> QED
      BY <3>1, <3>2
  <2>2. node' = "tools" => unanswered'[Talking'] > 0
    BY <1>3, <1>4, <1>5 DEF ShouldContinue
  <2> QED
    BY <1>1, <1>2, <2>1, <2>2 DEF CallsAreExcused
<1>9. ToolsAnswered'
  BY <1>2 DEF ToolsAnswered, RaisedBefore
<1> QED
  BY <1>6, <1>7, <1>8, <1>9

\* The message's calls are answered; what else the thread carries is excused.
LEMMA UseToolsKeeps ==
    ASSUME AgentInv, UseTools
    PROVE  AgentInv'
<1> USE DEF AgentInv
<1>1. /\ turn \in DOMAIN Conversations
      /\ Talking \in ChatThread
      /\ unanswered[Talking] \in Nat
      /\ unanswered[Talking] > 0
  BY ConversationThreads DEF UseTools, CallsAreExcused, AgentTypeOK, Talking
<1>2. AgentTypeOK'
  BY <1>1, ConversationThreads DEF UseTools, AgentTypeOK
<1>3. YetToEnd'
  BY DEF UseTools, YetToEnd
<1>4. CallsAreExcused'
  <2>1. ASSUME NEW t \in ChatThread
        PROVE  Carried(t)' = Carried(t)
    BY <1>1 DEF UseTools, AgentTypeOK, Carried, Talking
  <2> QED
    BY <1>1, <2>1 DEF UseTools, CallsAreExcused, RaisedOn
<1>5. ToolsAnswered'
  BY DEF UseTools, ToolsAnswered, RaisedBefore
<1> QED
  BY <1>2, <1>3, <1>4, <1>5

\* An evaluation that ends is judged as it stands.
LEMMA EndKeeps ==
    ASSUME AgentInv, NEW end \in {"decided", "raised"}, EndsAs(end), node # "idle",
           end = "decided" => node = "finalize"
    PROVE  AgentInv'
<1> USE DEF AgentInv
<1> DEFINE e == [end |-> end, spoken |-> spoken[Talking], unanswered |-> unanswered[Talking]]
<1>1. turn \in DOMAIN Conversations /\ Talking \in ChatThread /\ turn \in Nat
  BY ConversationThreads DEF CallsAreExcused, Talking
<1>2. e \in Ending
  BY <1>1 DEF AgentTypeOK, Ending
<1>3. /\ endings' = [endings EXCEPT ![turn] = e]
      /\ DOMAIN endings = DOMAIN Conversations
      /\ endings[turn].end = "open"
      /\ node' = "idle" /\ UNCHANGED <<turn, spoken, unanswered>>
  BY <1>1 DEF EndsAs, AgentTypeOK, YetToEnd
<1>4. AgentTypeOK'
  BY <1>2, <1>3 DEF EndsAs, AgentTypeOK
<1>5. YetToEnd'
  BY <1>1, <1>3, ConversationThreads DEF YetToEnd
<1>6. \A k \in DOMAIN Conversations : endings[k].end = "raised" => endings'[k].end = "raised"
  BY <1>1, <1>3
<1>7. \A t \in ChatThread : RaisedOn(t) => RaisedOn(t)'
  BY <1>6 DEF RaisedOn
<1>8. CallsAreExcused'
  <2>1. ASSUME NEW t \in ChatThread, Carried(t)' > 0
        PROVE  spoken'[t] >= MaxReasoningSteps \/ RaisedOn(t)'
    <3>1. CASE node = "tools" /\ t = Talking
      <4>1. endings'[turn].end = "raised" /\ Conversations[turn] = t
        BY <3>1, <1>1, <1>3 DEF Talking
      <4> QED
        BY <4>1, <1>1 DEF RaisedOn
    <3>2. CASE ~(node = "tools" /\ t = Talking)
      BY <3>2, <2>1, <1>3, <1>7 DEF CallsAreExcused, Carried
    <3> QED
      BY <3>1, <3>2
  <2> QED
    BY <1>3, <2>1 DEF CallsAreExcused
<1>9. ToolsAnswered'
  <2> SUFFICES ASSUME NEW n \in DOMAIN Conversations,
                      endings'[n].end = "decided", endings'[n].unanswered > 0
               PROVE  endings'[n].spoken >= MaxReasoningSteps \/ RaisedBefore(n)'
    BY <1>3 DEF ToolsAnswered
  <2>0. 1 .. n - 1 \subseteq DOMAIN Conversations
    BY ConversationThreads
  <2>1. RaisedBefore(n) => RaisedBefore(n)'
    BY <1>6, <2>0 DEF RaisedBefore
  <2>2. CASE n # turn
    BY <2>1, <2>2, <1>3 DEF ToolsAnswered
  <2>3. CASE n = turn
    <3>1. endings'[n] = e /\ node = "finalize"
      BY <2>3, <1>1, <1>3
    <3>2. Carried(Talking) > 0
      <4>1. Carried(Talking) = unanswered[Talking] - 0
        BY <3>1 DEF Carried
      <4>2. unanswered[Talking] > 0 /\ unanswered[Talking] \in Nat
        BY <3>1, <1>1 DEF AgentTypeOK
      <4> QED
        BY <4>1, <4>2
    <3>3. spoken[Talking] >= MaxReasoningSteps \/ RaisedOn(Talking)
      BY <3>2, <1>1 DEF CallsAreExcused
    <3>4. ASSUME RaisedOn(Talking) PROVE RaisedBefore(n)
      <4>1. PICK k \in DOMAIN Conversations : Conversations[k] = Talking /\ endings[k].end = "raised"
        BY <3>4 DEF RaisedOn
      <4>2. k < turn
        BY <4>1, <1>1, <3>1, ConversationThreads DEF YetToEnd
      <4>3. k \in 1 .. n - 1
        BY <4>2, <2>3, <1>1, ConversationThreads
      <4> QED
        BY <4>1, <4>3, <2>3 DEF RaisedBefore, Talking
    <3> QED
      BY <3>1, <3>3, <3>4, <2>1
  <2> QED
    BY <2>2, <2>3
<1> QED
  BY <1>4, <1>5, <1>8, <1>9

LEMMA NextAgent == AgentInv /\ [SearchNext]_searchVars => AgentInv'
<1> SUFFICES ASSUME AgentInv, [SearchNext]_searchVars PROVE AgentInv'
  OBVIOUS
<1>1. CASE Evaluate
  BY <1>1, EvaluateKeeps
<1>2. CASE CallModel
  BY <1>2, CallModelKeeps
<1>3. CASE AnswerTools
  BY <1>3, UseToolsKeeps DEF AnswerTools
<1>4. CASE Finalize
  BY <1>4, EndKeeps DEF Finalize
<1>5. CASE AgentRaises
  BY <1>5, EndKeeps DEF AgentRaises
<1>6. CASE UNCHANGED agentVars
  BY <1>6 DEF agentVars, AgentInv, AgentTypeOK, YetToEnd, CallsAreExcused, Carried, RaisedOn,
              ToolsAnswered, RaisedBefore, Talking
<1> QED
  BY <1>1, <1>2, <1>3, <1>4, <1>5, <1>6 DEF SearchNext, AgentNext, searchVars

\* A decision leaves a tool call without an answer only on a thread at the cap or
\* after an evaluation of the thread raised: on threads used however often,
\* whatever the model asks, whichever calls raise, and whatever an ingest does to
\* the collection meanwhile.
THEOREM CapIsEarned == SearchSpec => []ToolsAnswered
<1>1. SearchInit => AgentInv
  BY InitAgent DEF SearchInit
<1>2. AgentInv /\ [SearchNext]_searchVars => AgentInv'
  BY NextAgent
<1>3. AgentInv => ToolsAnswered
  BY DEF AgentInv
<1> QED
  BY <1>1, <1>2, <1>3, PTL DEF SearchSpec

-----------------------------------------------------------------------------
(* The knowledge base *)

\* Ingests are run one at a time: no two processes of it.
OneIngestOnly == \A i, j \in Ingests : i = j

OfOneVersion(chunks) == \A a, b \in chunks : a.file = b.file => a.doc = b.doc

\* The collection is finite, a set, and of one version of each file ...
LoadedOK ==
    /\ IsFiniteSet(Loaded)
    /\ \A c \in Loaded : collection[c] = 1
    /\ OfOneVersion(Loaded)

\* ... what the ingest reported of it is there ...
ReportOK ==
    report # NoReport =>
        Loaded \subseteq BatchOf(report.read) /\ Cardinality(Loaded) >= report.inserted

\* ... and an ingest that uploads adds to what itself has inserted, of one batch.
IngestOK(i) ==
    LET g == ingest[i]
    IN  /\ g = [at |-> g.at, read |-> g.read, queue |-> g.queue, inserted |-> g.inserted]
        /\ g.at \in IngestState
        /\ g.read \in Seq(UNION {Documents[f] : f \in FileSet})
        /\ Len(g.read) <= Len(Files)
        /\ g.at \in {"idle", "read", "delete", "create", "creating"} => g.inserted = 0
        /\ g.at \in {"delete", "create", "creating"} => g.queue = BatchOf(g.read)
        /\ g.at \in {"create", "creating", "upload"} => report = NoReport
        /\ g.at \in {"create", "creating"} => Loaded = {}
        /\ g.at = "upload" =>
              /\ g.queue \subseteq BatchOf(g.read) /\ Loaded \subseteq BatchOf(g.read)
              /\ g.queue \cap Loaded = {}
              /\ g.inserted \in Nat /\ Cardinality(Loaded) >= g.inserted

BaseInv ==
    /\ disk \in [FileSet -> UNION {Documents[f] : f \in FileSet}]
    /\ DOMAIN ingest = Ingests
    /\ LoadedOK
    /\ ReportOK
    /\ \A i \in Ingests : IngestOK(i)

-----------------------------------------------------------------------------

\* A batch holds one version of each file, since each file is read once.
LEMMA BatchOfOneVersion ==
    ASSUME NEW S, NEW read \in Seq(S), Len(read) <= Len(Files),
           NEW chunks, chunks \subseteq BatchOf(read)
    PROVE  OfOneVersion(chunks)
<1> SUFFICES ASSUME NEW a \in chunks, NEW b \in chunks, a.file = b.file
             PROVE  a.doc = b.doc
  BY DEF OfOneVersion
<1>1. PICK j \in DOMAIN read : a \in ChunksOf(Files[j], read[j])
  BY DEF BatchOf
<1>2. PICK k \in DOMAIN read : b \in ChunksOf(Files[k], read[k])
  BY DEF BatchOf
<1>3. a.file = Files[j] /\ a.doc = read[j].id
  BY <1>1 DEF ChunksOf
<1>4. b.file = Files[k] /\ b.doc = read[k].id
  BY <1>2 DEF ChunksOf
<1>5. DOMAIN read \subseteq DOMAIN Files
  BY BaseAssumption
<1> QED
  BY <1>1, <1>2, <1>3, <1>4, <1>5, BaseAssumption

\* A new chunk is in the bag once, beside the ones that were.
LEMMA BagGains ==
    ASSUME NEW B, NEW c, c \notin DOMAIN B, \A e \in DOMAIN B : B[e] = 1
    PROVE  /\ DOMAIN (B (+) SetToBag({c})) = DOMAIN B \cup {c}
           /\ \A e \in DOMAIN B \cup {c} : (B (+) SetToBag({c}))[e] = 1
<1> DEFINE B2 == B (+) SetToBag({c})
<1>1. DOMAIN SetToBag({c}) = {c} /\ SetToBag({c})[c] = 1
  BY DEF SetToBag
<1>2. DOMAIN B2 = DOMAIN B \cup {c}
  BY <1>1 DEF (+)
<1>3. \A e \in DOMAIN B2 : B2[e] = (IF e \in DOMAIN B THEN B[e] ELSE 0)
                                  + (IF e \in {c} THEN SetToBag({c})[e] ELSE 0)
  BY <1>1 DEF (+)
<1>4. \A e \in DOMAIN B2 : e \in DOMAIN B \/ e = c
  BY <1>2
<1> HIDE DEF B2
<1>5. \A e \in DOMAIN B2 : B2[e] = 1
  BY <1>1, <1>3, <1>4
<1> QED
  BY <1>2, <1>5 DEF B2

LEMMA InitBase == BaseInit => BaseInv
<1> SUFFICES ASSUME BaseInit PROVE BaseInv
  OBVIOUS
<1>1. Loaded = {}
  BY DEF BaseInit, Loaded, BagToSet, EmptyBag, SetToBag
<1>2. LoadedOK /\ ReportOK
  BY <1>1, FS_EmptySet DEF BaseInit, LoadedOK, ReportOK, OfOneVersion
<1>3. ASSUME NEW i \in Ingests PROVE IngestOK(i)
  <2>1. ingest[i] = Asleep
    BY DEF BaseInit
  <2>2. <<>> \in Seq(UNION {Documents[f] : f \in FileSet}) /\ Len(<<>>) <= Len(Files)
    BY BaseAssumption
  <2> QED
    BY <2>1, <2>2 DEF IngestOK, Asleep, IngestState
<1> QED
  BY <1>2, <1>3 DEF BaseInit, BaseInv

\* With the collection and its report as they were, one ingest's step is its own.
LEMMA QuietStep ==
    ASSUME OneIngestOnly, BaseInv, NEW i \in Ingests, NEW g, Goes(i, g),
           UNCHANGED <<disk, collection, report>>, IngestOK(i)'
    PROVE  BaseInv'
<1>1. \A j \in Ingests : IngestOK(j)'
  BY DEF OneIngestOnly
<1>2. LoadedOK' /\ ReportOK'
  BY DEF BaseInv, LoadedOK, ReportOK, Loaded
<1> QED
  BY <1>1, <1>2 DEF BaseInv, Goes

\* A step that leaves the collection alone leaves the ingest in hand with g.
LEMMA HandOver ==
    ASSUME BaseInv, NEW i \in Ingests, NEW g, Goes(i, g)
    PROVE  ingest'[i] = g /\ IngestOK(i)
  BY DEF BaseInv, Goes

\* An ingest that ended or died holds nothing, whatever it left behind.
LEMMA SleepKeeps ==
    ASSUME OneIngestOnly, BaseInv, NEW i \in Ingests, Goes(i, Asleep),
           UNCHANGED <<disk, collection, report>>
    PROVE  BaseInv'
<1>1. ingest'[i] = [at |-> "idle", read |-> <<>>, queue |-> {}, inserted |-> 0]
  BY HandOver DEF Asleep
<1>2. <<>> \in Seq(UNION {Documents[f] : f \in FileSet}) /\ Len(<<>>) <= Len(Files)
  BY BaseAssumption
<1>3. IngestOK(i)'
  BY <1>1, <1>2 DEF IngestOK, IngestState, FileSet
<1> QED
  BY <1>3, QuietStep

LEMMA BeginIngestKeeps ==
    ASSUME OneIngestOnly, BaseInv, NEW i \in Ingests, BeginIngest(i)
    PROVE  BaseInv'
<1>1. ingest'[i] = [at |-> "read", read |-> <<>>, queue |-> {}, inserted |-> 0]
  BY DEF BaseInv, BeginIngest, Goes, Asleep
<1>2. <<>> \in Seq(UNION {Documents[f] : f \in FileSet}) /\ Len(<<>>) <= Len(Files)
  BY BaseAssumption
<1>3. IngestOK(i)'
  BY <1>1, <1>2 DEF IngestOK, IngestState, FileSet
<1> QED
  BY <1>3, QuietStep DEF BeginIngest

LEMMA ReadFileKeeps ==
    ASSUME OneIngestOnly, BaseInv, NEW i \in Ingests, ReadFile(i)
    PROVE  BaseInv'
<1> DEFINE g == ingest[i]
           S == UNION {Documents[f] : f \in FileSet}
           d == disk[Files[Len(g.read) + 1]]
<1>1. CASE DocumentRaises(d)
  BY <1>1, SleepKeeps DEF ReadFile
<1>2. CASE ~DocumentRaises(d)
  <2>1. IngestOK(i) /\ i \in DOMAIN ingest
    BY DEF BaseInv
  <2>2. g.read \in Seq(S) /\ Len(g.read) < Len(Files) /\ g.at = "read" /\ g.inserted = 0
    BY <2>1 DEF IngestOK, ReadFile
  <2>3. d \in S
    <3>1. Len(g.read) + 1 \in DOMAIN Files
      BY <2>2, BaseAssumption
    <3>2. Files[Len(g.read) + 1] \in FileSet
      BY <3>1, BaseAssumption DEF FileSet
    <3> QED
      BY <3>2 DEF BaseInv
  <2>4. /\ Append(g.read, d) \in Seq(S)
        /\ Len(Append(g.read, d)) <= Len(Files)
    BY <2>2, <2>3, BaseAssumption
  <2>5. Goes(i, [g EXCEPT !.read = Append(g.read, d)])
    BY <1>2 DEF ReadFile
  <2>6. ingest'[i] = [at |-> "read", read |-> Append(g.read, d), queue |-> g.queue, inserted |-> 0]
    <3>1. g = [at |-> "read", read |-> g.read, queue |-> g.queue, inserted |-> 0]
      BY <2>1, <2>2 DEF IngestOK
    <3>2. ingest'[i] = [g EXCEPT !.read = Append(g.read, d)]
      BY <2>1, <2>5 DEF Goes
    <3> QED
      BY <3>1, <3>2
  <2>7. IngestOK(i)'
    BY <2>4, <2>6 DEF IngestOK, IngestState, FileSet
  <2> QED
    BY <2>5, <2>7, QuietStep DEF ReadFile
<1> QED
  BY <1>1, <1>2

LEMMA EmbedKeeps ==
    ASSUME OneIngestOnly, BaseInv, NEW i \in Ingests, Embed(i)
    PROVE  BaseInv'
<1> DEFINE g == ingest[i]
           batch == BatchOf(g.read)
<1>1. CASE batch = {}
  BY <1>1, SleepKeeps DEF Embed
<1>2. CASE batch # {}
  <2>1. IngestOK(i) /\ g.at = "read"
    BY DEF BaseInv, Embed
  <2>2. Goes(i, [g EXCEPT !.at = "delete", !.queue = batch])
    BY <1>2 DEF Embed
  <2>3. ingest'[i] = [at |-> "delete", read |-> g.read, queue |-> batch, inserted |-> 0]
    <3>1. g = [at |-> "read", read |-> g.read, queue |-> g.queue, inserted |-> 0]
      BY <2>1 DEF IngestOK
    <3>2. ingest'[i] = [g EXCEPT !.at = "delete", !.queue = batch]
      BY <2>2 DEF BaseInv, Goes
    <3>3. DOMAIN g = {"at", "read", "queue", "inserted"} /\ g.inserted = 0
      BY <3>1
    <3>4. ingest'[i] = [f \in DOMAIN g |->
              IF f = "queue" THEN batch ELSE IF f = "at" THEN "delete" ELSE g[f]]
      BY <3>2, <3>3
    <3> QED
      BY <3>3, <3>4
  <2>4. IngestOK(i)'
    BY <2>1, <2>3 DEF IngestOK, IngestState, FileSet
  <2> QED
    BY <2>2, <2>4, QuietStep DEF Embed
<1> QED
  BY <1>1, <1>2

\* After the delete there is nothing, and no report of it.
LEMMA DeleteKeeps ==
    ASSUME OneIngestOnly, BaseInv, NEW i \in Ingests, Delete(i)
    PROVE  BaseInv'
<1> DEFINE g == ingest[i]
<1>1. IngestOK(i) /\ g.at = "delete"
  BY DEF BaseInv, Delete
<1>2. ingest'[i] = [at |-> "create", read |-> g.read, queue |-> BatchOf(g.read), inserted |-> 0]
  BY <1>1, HandOver DEF IngestOK, Delete
<1>3. Loaded' = {} /\ report' = NoReport
  BY DEF Delete, Loaded, BagToSet, EmptyBag, SetToBag
<1>4. IngestOK(i)'
  BY <1>1, <1>2, <1>3 DEF IngestOK, IngestState, FileSet
<1>5. \A j \in Ingests : IngestOK(j)'
  BY <1>4 DEF OneIngestOnly
<1>6. LoadedOK' /\ ReportOK'
  BY <1>3, FS_EmptySet DEF LoadedOK, ReportOK, OfOneVersion
<1> QED
  BY <1>5, <1>6 DEF BaseInv, Delete, Goes

LEMMA CreateSchemaKeeps ==
    ASSUME OneIngestOnly, BaseInv, NEW i \in Ingests, CreateSchema(i)
    PROVE  BaseInv'
<1> DEFINE g == ingest[i]
<1>1. IngestOK(i) /\ g.at = "create"
  BY DEF BaseInv, CreateSchema
<1>2. PICK state \in {"upload", "creating"} : Goes(i, [g EXCEPT !.at = state])
  BY DEF CreateSchema
<1>3. ingest'[i] = [at |-> state, read |-> g.read, queue |-> BatchOf(g.read), inserted |-> 0]
  BY <1>1, <1>2, HandOver DEF IngestOK
<1>4. Loaded' = {} /\ report' = NoReport /\ Cardinality(Loaded') = 0
  BY <1>1, FS_EmptySet DEF IngestOK, CreateSchema, Loaded
<1>5. IngestOK(i)'
  BY <1>1, <1>2, <1>3, <1>4 DEF IngestOK, IngestState, FileSet
<1> QED
  BY <1>2, <1>5, QuietStep DEF CreateSchema

LEMMA CreateCollectionKeeps ==
    ASSUME OneIngestOnly, BaseInv, NEW i \in Ingests, CreateCollection(i)
    PROVE  BaseInv'
<1> DEFINE g == ingest[i]
<1>1. IngestOK(i) /\ g.at = "creating"
  BY DEF BaseInv, CreateCollection
<1>2. CASE exists
  BY <1>2, SleepKeeps DEF CreateCollection
<1>3. CASE ~exists
  <2>1. ingest'[i] = [at |-> "upload", read |-> g.read, queue |-> BatchOf(g.read), inserted |-> 0]
    BY <1>1, <1>3, HandOver DEF IngestOK, CreateCollection
  <2>2. Loaded' = {} /\ report' = NoReport /\ Cardinality(Loaded') = 0
    BY <1>1, FS_EmptySet DEF IngestOK, CreateCollection, Loaded
  <2>3. IngestOK(i)'
    BY <1>1, <2>1, <2>2 DEF IngestOK, IngestState, FileSet
  <2> QED
    BY <1>3, <2>3, QuietStep DEF CreateCollection
<1> QED
  BY <1>2, <1>3

\* An object of the batch that was not there is there once, and of the same
\* version as its file's others.
LEMMA StoreKeeps ==
    ASSUME OneIngestOnly, BaseInv, NEW i \in Ingests, ingest[i].at = "upload",
           NEW c \in ingest[i].queue, NEW n, n \in {ingest[i].inserted, ingest[i].inserted + 1},
           Goes(i, [ingest[i] EXCEPT !.queue = @ \ {c}, !.inserted = n]),
           collection' = collection (+) SetToBag({c}),
           UNCHANGED <<disk, report>>
    PROVE  BaseInv'
<1> DEFINE g == ingest[i]
<1>1. IngestOK(i) /\ LoadedOK
  BY DEF BaseInv
<1>2. /\ c \notin Loaded
      /\ c \in BatchOf(g.read)
      /\ report = NoReport
      /\ g.inserted \in Nat
      /\ Loaded \subseteq BatchOf(g.read)
      /\ Cardinality(Loaded) >= g.inserted
  BY <1>1 DEF IngestOK
<1>3. Loaded' = Loaded \cup {c} /\ \A e \in Loaded' : collection'[e] = 1
  <2>1. c \notin DOMAIN collection /\ \A e \in DOMAIN collection : collection[e] = 1
    BY <1>1, <1>2 DEF Loaded, BagToSet, LoadedOK
  <2>2. /\ DOMAIN (collection (+) SetToBag({c})) = DOMAIN collection \cup {c}
        /\ \A e \in DOMAIN collection \cup {c} : (collection (+) SetToBag({c}))[e] = 1
    BY <2>1, BagGains
  <2> QED
    BY <2>2 DEF Loaded, BagToSet
<1>4. IsFiniteSet(Loaded') /\ Cardinality(Loaded') = Cardinality(Loaded) + 1
  BY <1>1, <1>2, <1>3, FS_AddElement DEF LoadedOK
<1>5. Cardinality(Loaded) \in Nat
  BY <1>1, FS_CardinalityType DEF LoadedOK
<1>6. ingest'[i] = [at |-> "upload", read |-> g.read, queue |-> g.queue \ {c}, inserted |-> n]
  <2>1. g = [at |-> "upload", read |-> g.read, queue |-> g.queue, inserted |-> g.inserted]
    BY <1>1 DEF IngestOK
  <2>2. ingest'[i] = [g EXCEPT !.queue = g.queue \ {c}, !.inserted = n]
    BY DEF BaseInv, Goes
  <2> QED
    BY <2>1, <2>2
<1>7. n \in Nat /\ Cardinality(Loaded') >= n
  BY <1>2, <1>4, <1>5
<1>8. IngestOK(i)'
  BY <1>1, <1>2, <1>3, <1>6, <1>7 DEF IngestOK, IngestState, FileSet
<1>9. OfOneVersion(Loaded')
  <2>1. Loaded' \subseteq BatchOf(g.read)
    BY <1>2, <1>3
  <2> QED
    BY <1>1, <2>1, BatchOfOneVersion DEF IngestOK
<1>10. LoadedOK' /\ ReportOK'
  BY <1>2, <1>3, <1>4, <1>9 DEF LoadedOK, ReportOK
<1>11. \A j \in Ingests : IngestOK(j)'
  BY <1>8 DEF OneIngestOnly
<1> QED
  BY <1>10, <1>11 DEF BaseInv, Goes

LEMMA UploadKeeps ==
    ASSUME OneIngestOnly, BaseInv, NEW i \in Ingests, NEW c \in ingest[i].queue,
           Upload(i, c) \/ UploadFails(i, c)
    PROVE  BaseInv'
<1> DEFINE g == ingest[i]
<1>1. IngestOK(i)
  BY DEF BaseInv
<1>2. CASE Upload(i, c)
  <2> DEFINE n == g.inserted + 1
  <2>1. /\ g.at = "upload"
        /\ Goes(i, [g EXCEPT !.queue = @ \ {c}, !.inserted = n])
        /\ collection' = collection (+) SetToBag({c})
        /\ UNCHANGED <<disk, report>>
    BY <1>2 DEF Upload
  <2>2. n \in {g.inserted, g.inserted + 1}
    OBVIOUS
  <2> HIDE DEF n
  <2> QED
    BY <2>1, <2>2, StoreKeeps, Zenon
<1>3. CASE UploadFails(i, c)
  <2>1. [g EXCEPT !.queue = @ \ {c}] = [g EXCEPT !.queue = @ \ {c}, !.inserted = g.inserted]
    BY <1>1 DEF IngestOK
  <2>2. CASE collection' = collection (+) SetToBag({c})
    <3> DEFINE n == g.inserted
    <3>1. /\ g.at = "upload"
          /\ Goes(i, [g EXCEPT !.queue = @ \ {c}, !.inserted = n])
          /\ UNCHANGED <<disk, report>>
      BY <1>3, <2>1 DEF UploadFails
    <3>2. n \in {g.inserted, g.inserted + 1}
      OBVIOUS
    <3> HIDE DEF n
    <3> QED
      BY <2>2, <3>1, <3>2, StoreKeeps, Zenon
  <2>3. CASE UNCHANGED collection
    <3>1. ingest'[i] = [at |-> "upload", read |-> g.read, queue |-> g.queue \ {c},
                        inserted |-> g.inserted]
      <4>1. g = [at |-> "upload", read |-> g.read, queue |-> g.queue, inserted |-> g.inserted]
        BY <1>1, <1>3 DEF IngestOK, UploadFails
      <4>2. ingest'[i] = [g EXCEPT !.queue = g.queue \ {c}]
        BY <1>3 DEF BaseInv, UploadFails, Goes
      <4> QED
        BY <4>1, <4>2
    <3>2. IngestOK(i)'
      BY <1>1, <1>3, <2>3, <3>1 DEF IngestOK, IngestState, FileSet, UploadFails, Loaded
    <3> QED
      BY <1>3, <2>3, <3>2, QuietStep DEF UploadFails
  <2> QED
    BY <1>3, <2>2, <2>3 DEF UploadFails
<1> QED
  BY <1>2, <1>3

LEMMA FinishIngestKeeps ==
    ASSUME OneIngestOnly, BaseInv, NEW i \in Ingests, FinishIngest(i)
    PROVE  BaseInv'
<1>1. IngestOK(i) /\ ingest[i].at = "upload"
  BY DEF BaseInv, FinishIngest
<1>2. LoadedOK' /\ ReportOK'
  BY <1>1 DEF BaseInv, FinishIngest, LoadedOK, ReportOK, Loaded, IngestOK
<1>3. ingest'[i] = [at |-> "idle", read |-> <<>>, queue |-> {}, inserted |-> 0]
  BY HandOver DEF FinishIngest, Asleep
<1>4. <<>> \in Seq(UNION {Documents[f] : f \in FileSet}) /\ Len(<<>>) <= Len(Files)
  BY BaseAssumption
<1>5. IngestOK(i)'
  BY <1>3, <1>4 DEF IngestOK, IngestState, FileSet
<1>6. \A j \in Ingests : IngestOK(j)'
  BY <1>5 DEF OneIngestOnly
<1> QED
  BY <1>2, <1>6 DEF BaseInv, FinishIngest, Goes

\* Documents change under the ingest: what it has read is its own.
LEMMA EditKeeps ==
    ASSUME BaseInv, NEW f \in FileSet, Edit(f)
    PROVE  BaseInv'
<1>1. disk' \in [FileSet -> UNION {Documents[e] : e \in FileSet}]
  BY DEF BaseInv, Edit
<1>2. LoadedOK' /\ ReportOK'
  BY DEF BaseInv, Edit, LoadedOK, ReportOK, Loaded
<1>3. \A i \in Ingests : IngestOK(i)'
  BY DEF BaseInv, Edit, IngestOK, Loaded
<1> QED
  BY <1>1, <1>2, <1>3 DEF BaseInv, Edit

LEMMA NextBase ==
    ASSUME OneIngestOnly
    PROVE  BaseInv /\ [SearchNext]_searchVars => BaseInv'
<1> SUFFICES ASSUME BaseInv, [SearchNext]_searchVars PROVE BaseInv'
  OBVIOUS
<1>1. CASE \E f \in FileSet : Edit(f)
  BY <1>1, EditKeeps
<1>2. ASSUME NEW i \in Ingests, BeginIngest(i) \/ ReadFile(i) \/ Embed(i)
      PROVE  BaseInv'
  BY <1>2, BeginIngestKeeps, ReadFileKeeps, EmbedKeeps
<1>3. ASSUME NEW i \in Ingests, Delete(i) \/ CreateSchema(i) \/ CreateCollection(i) \/ FinishIngest(i)
      PROVE  BaseInv'
  BY <1>3, DeleteKeeps, CreateSchemaKeeps, CreateCollectionKeeps, FinishIngestKeeps
<1>4. ASSUME NEW i \in Ingests, IngestDies(i) PROVE BaseInv'
  BY <1>4, SleepKeeps DEF IngestDies
<1>5. ASSUME NEW i \in Ingests, NEW c \in ingest[i].queue, Upload(i, c) \/ UploadFails(i, c)
      PROVE  BaseInv'
  BY <1>5, UploadKeeps
<1>6. CASE UNCHANGED baseVars
  BY <1>6 DEF baseVars, BaseInv, LoadedOK, ReportOK, IngestOK, Loaded
<1> QED
  BY <1>1, <1>2, <1>3, <1>4, <1>5, <1>6 DEF SearchNext, BaseNext, searchVars

\* What a search can find is one edition: of each file one version, no chunk
\* twice, and all that the ingest reported - for any documents, edits, deaths and
\* failing objects, as long as ingests run one at a time.
THEOREM OneEdition ==
    ASSUME OneIngestOnly
    PROVE  SearchSpec => []CollectionIsAnEdition
<1>1. SearchInit => BaseInv
  BY InitBase DEF SearchInit
<1>2. BaseInv /\ [SearchNext]_searchVars => BaseInv'
  BY NextBase
<1>3. BaseInv => CollectionIsAnEdition
  BY DEF BaseInv, LoadedOK, ReportOK, OfOneVersion, CollectionIsAnEdition
<1> QED
  BY <1>1, <1>2, <1>3, PTL DEF SearchSpec

-----------------------------------------------------------------------------
(* The chunker.  It is all loops, so its proofs are inductions, and these  *)
(* take the set of the numbers, or sequences, something is true of.        *)

\* Every set of numbers has a least one.
LEMMA LeastNat ==
    ASSUME NEW T \in SUBSET Nat, T # {}
    PROVE  \E n \in T : \A m \in T : n <= m
<1>1. IsWellFoundedOn(OpToRel(<, Nat), Nat)
  BY NatLessThanWellFounded
<1>2. \A x, y \in Nat : x < y => <<x, y>> \in OpToRel(<, Nat)
  BY DEF OpToRel
<1>3. PICK n \in T : \A m \in T : ~ (<<m, n>> \in OpToRel(<, Nat))
  BY <1>1, WFMin, Zenon
<1>4. \A m \in T : ~ (m < n)
  BY <1>2, <1>3, Zenon
<1>5. QED
  BY <1>4

\* A set that holds zero, and with a number its successor, holds every number.
LEMMA Induction ==
    ASSUME NEW T, 0 \in T, \A n \in Nat : n \in T => n + 1 \in T
    PROVE  \A n \in Nat : n \in T
<1> SUFFICES ASSUME Nat \ T # {} PROVE FALSE
  OBVIOUS
<1>1. PICK n \in Nat \ T : \A m \in Nat \ T : n <= m
  BY LeastNat
<1>2. n # 0 /\ n - 1 \in Nat
  BY <1>1
<1>3. n - 1 \in T
  BY <1>1, <1>2
<1>4. QED
  BY <1>1, <1>2, <1>3

\* The same for sequences, which grow at the end.
LEMMA SeqInduction ==
    ASSUME NEW S, NEW T, <<>> \in T,
           \A s \in Seq(S), e \in S : s \in T => Append(s, e) \in T
    PROVE  \A s \in Seq(S) : s \in T
<1> DEFINE Good == {n \in Nat : \A s \in Seq(S) : Len(s) = n => s \in T}
<1>1. 0 \in Good
  <2>1. \A s \in Seq(S) : Len(s) = 0 => s = <<>>
    OBVIOUS
  <2>2. QED
    BY <2>1
<1>2. ASSUME NEW n \in Nat, n \in Good PROVE n + 1 \in Good
  <2> SUFFICES ASSUME NEW s \in Seq(S), Len(s) = n + 1 PROVE s \in T
    OBVIOUS
  <2> DEFINE front == SubSeq(s, 1, n)
             last == s[n + 1]
  <2>1. front \in Seq(S) /\ Len(front) = n /\ last \in S
    OBVIOUS
  <2>2. s = Append(front, last)
    OBVIOUS
  <2>3. front \in T
    BY <1>2, <2>1
  <2> HIDE DEF front, last
  <2>4. QED
    BY <2>1, <2>2, <2>3
<1> HIDE DEF Good
<1>3. \A n \in Nat : n \in Good
  BY <1>1, <1>2, Induction
<1>4. QED
  BY <1>3 DEF Good

-----------------------------------------------------------------------------
(* FlattenSeq, by its prefixes *)

\* The recursive function flatten of FlattenSeq.
FlattenStep(f, seqs, i) == IF i = 1 THEN seqs[i] ELSE f[i - 1] \o seqs[i]
FlattensTo(f, seqs, n) == f = [i \in 1 .. n |-> FlattenStep(f, seqs, i)]

\* What FlattenSeq chooses is there to be chosen.
LEMMA FlattenExists ==
    ASSUME NEW seqs
    PROVE  \A n \in Nat : \E f : FlattensTo(f, seqs, n)
<1> DEFINE Good == {n \in Nat : \E f : FlattensTo(f, seqs, n)}
<1>1. 0 \in Good
  <2>1. FlattensTo(<<>>, seqs, 0)
    BY DEF FlattensTo
  <2>2. QED
    BY <2>1
<1>2. ASSUME NEW n \in Nat, n \in Good PROVE n + 1 \in Good
  <2>1. PICK f : FlattensTo(f, seqs, n)
    BY <1>2
  <2>2. \A i \in 1 .. n : f[i] = FlattenStep(f, seqs, i)
    BY <2>1, Zenon DEF FlattensTo
  <2> DEFINE g == [i \in 1 .. n + 1 |-> IF i = n + 1 THEN FlattenStep(f, seqs, i) ELSE f[i]]
  <2>3. ASSUME NEW i \in 1 .. n + 1 PROVE g[i] = FlattenStep(g, seqs, i)
    <3>1. g[i] = FlattenStep(f, seqs, i)
      BY <2>2
    <3>2. i # 1 => g[i - 1] = f[i - 1]
      OBVIOUS
    <3> HIDE DEF g
    <3>3. QED
      BY <3>1, <3>2 DEF FlattenStep
  <2>4. FlattensTo(g, seqs, n + 1)
    <3>1. g = [i \in 1 .. n + 1 |-> g[i]]
      OBVIOUS
    <3> HIDE DEF g
    <3>2. QED
      BY <2>3, <3>1, Zenon DEF FlattensTo
  <2>5. QED
    BY <2>4
<1> HIDE DEF Good
<1>3. \A n \in Nat : n \in Good
  BY <1>1, <1>2, Induction
<1>4. QED
  BY <1>3 DEF Good

\* Prefix k of the flattened sequences is prefix k - 1 and the k-th of them.
FlattensBy(f, seqs) ==
    /\ f[0] = <<>>
    /\ \A k \in Nat : k < Len(seqs) => f[k + 1] = f[k] \o seqs[k + 1]

LEMMA FlattenSteps ==
    ASSUME NEW S, NEW seqs \in Seq(Seq(S))
    PROVE  \E f \in [0 .. Len(seqs) -> Seq(S)] :
               FlattensBy(f, seqs) /\ FlattenSeq(seqs) = f[Len(seqs)]
<1> DEFINE n == Len(seqs)
           flatten == CHOOSE f : FlattensTo(f, seqs, n)
           f == [k \in 0 .. n |-> IF k = 0 THEN <<>> ELSE flatten[k]]
           Typed == {k \in Nat : k <= n => f[k] \in Seq(S)}
<1>1. n \in Nat /\ \A i \in 1 .. n : seqs[i] \in Seq(S)
  OBVIOUS
<1>2. FlattensTo(flatten, seqs, n)
  BY <1>1, FlattenExists, Zenon
<1>3. FlattenSeq(seqs) = IF n = 0 THEN seqs ELSE flatten[n]
  BY Zenon DEF FlattenSeq, FlattensTo, FlattenStep
<1>4. n = 0 => seqs = <<>>
  OBVIOUS
<1> HIDE DEF n, flatten
<1>5. \A i \in 1 .. n : flatten[i] = FlattenStep(flatten, seqs, i)
  BY <1>2, Zenon DEF FlattensTo
<1>6. /\ f[0] = <<>>
      /\ \A k \in Nat : k <= n /\ k # 0 => f[k] = flatten[k]
      /\ FlattenSeq(seqs) = f[n]
  BY <1>1, <1>3, <1>4
<1>0. f = [k \in 0 .. n |-> f[k]]
  OBVIOUS
<1> HIDE DEF f
<1>7. ASSUME NEW k \in Nat, k < n, f[k] \in Seq(S)
      PROVE  f[k + 1] = f[k] \o seqs[k + 1]
  <2>1. f[k + 1] = FlattenStep(flatten, seqs, k + 1) /\ seqs[k + 1] \in Seq(S)
    BY <1>1, <1>5, <1>6, <1>7
  <2>2. CASE k = 0
    <3>1. f[k + 1] = seqs[k + 1] /\ f[k] = <<>>
      BY <1>6, <2>1, <2>2 DEF FlattenStep
    <3>2. <<>> \o seqs[k + 1] = seqs[k + 1]
      BY <2>1
    <3>3. QED
      BY <3>1, <3>2, Zenon
  <2>3. CASE k # 0
    <3>1. f[k] = flatten[k] /\ (k + 1) - 1 = k /\ k + 1 # 1
      BY <1>1, <1>6, <1>7, <2>3
    <3>2. QED
      BY <2>1, <3>1, Zenon DEF FlattenStep
  <2>4. QED
    BY <2>2, <2>3
<1>8. \A k \in Nat : k \in Typed
  <2>1. 0 \in Typed
    <3>1. <<>> \in Seq(S)
      OBVIOUS
    <3>2. f[0] \in Seq(S)
      BY <1>6, <3>1, Zenon
    <3>3. QED
      BY <3>2
  <2>2. ASSUME NEW k \in Nat, k \in Typed PROVE k + 1 \in Typed
    <3> SUFFICES ASSUME k + 1 <= n PROVE f[k + 1] \in Seq(S)
      OBVIOUS
    <3>1. f[k] \in Seq(S) /\ seqs[k + 1] \in Seq(S)
      BY <1>1, <2>2
    <3>2. k < n
      BY <1>1
    <3>3. f[k + 1] = f[k] \o seqs[k + 1]
      BY <1>7, <3>1, <3>2, Zenon
    <3>4. f[k] \o seqs[k + 1] \in Seq(S)
      BY <3>1
    <3>5. QED
      BY <3>3, <3>4, Zenon
  <2> HIDE DEF Typed
  <2>3. QED
    BY <2>1, <2>2, Induction
<1>9. \A k \in 0 .. n : f[k] \in Seq(S)
  BY <1>1, <1>8
<1>10. f \in [0 .. n -> Seq(S)]
  BY <1>0, <1>9, Zenon
<1>11. FlattensBy(f, seqs)
  <2>1. \A k \in Nat : k < n => f[k + 1] = f[k] \o seqs[k + 1]
    <3> SUFFICES ASSUME NEW k \in Nat, k < n PROVE f[k + 1] = f[k] \o seqs[k + 1]
      OBVIOUS
    <3>1. k \in 0 .. n
      BY <1>1
    <3>2. QED
      BY <1>7, <1>9, <3>1
  <2>2. QED
    BY <1>6, <2>1 DEF FlattensBy, n
<1>12. QED
  BY <1>6, <1>10, <1>11 DEF n

\* The prefixes are what they are however they were found.
\* The sequences of seqs come first in more.
StartsWith(more, seqs) ==
    /\ Len(seqs) \in Nat /\ Len(more) \in Nat /\ Len(seqs) <= Len(more)
    /\ \A i \in 1 .. Len(seqs) : more[i] = seqs[i]

LEMMA FlattenPrefix ==
    ASSUME NEW seqs, NEW f, NEW more, NEW g,
           FlattensBy(f, seqs), FlattensBy(g, more), StartsWith(more, seqs)
    PROVE  f[Len(seqs)] = g[Len(seqs)]
<1> DEFINE Good == {n \in Nat : n <= Len(seqs) => f[n] = g[n]}
<1>1. /\ Len(seqs) \in Nat /\ Len(more) \in Nat /\ Len(seqs) <= Len(more)
      /\ \A i \in 1 .. Len(seqs) : more[i] = seqs[i]
  BY DEF StartsWith
<1>2. 0 \in Good
  BY DEF FlattensBy
<1>3. ASSUME NEW n \in Nat, n \in Good PROVE n + 1 \in Good
  <2> SUFFICES ASSUME n + 1 <= Len(seqs) PROVE f[n + 1] = g[n + 1]
    OBVIOUS
  <2>0. n < Len(seqs) /\ n < Len(more)
    BY <1>1
  <2>1. f[n + 1] = f[n] \o seqs[n + 1] /\ g[n + 1] = g[n] \o more[n + 1]
    BY <2>0, Zenon DEF FlattensBy
  <2>2. f[n] = g[n] /\ more[n + 1] = seqs[n + 1]
    BY <1>1, <1>3
  <2>3. QED
    BY <2>1, <2>2, Zenon
<1> HIDE DEF Good
<1>4. \A n \in Nat : n \in Good
  BY <1>2, <1>3, Induction
<1>5. QED
  BY <1>1, <1>4 DEF Good

LEMMA FlattenType ==
    ASSUME NEW S, NEW seqs \in Seq(Seq(S))
    PROVE  FlattenSeq(seqs) \in Seq(S)
<1>1. PICK f \in [0 .. Len(seqs) -> Seq(S)] : FlattenSeq(seqs) = f[Len(seqs)]
  BY FlattenSteps
<1>2. Len(seqs) \in 0 .. Len(seqs)
  OBVIOUS
<1>3. QED
  BY <1>1, <1>2

LEMMA FlattenEmpty == FlattenSeq(<<>>) = <<>>
BY DEF FlattenSeq

LEMMA FlattenAppend ==
    ASSUME NEW S, NEW seqs \in Seq(Seq(S)), NEW s \in Seq(S)
    PROVE  FlattenSeq(Append(seqs, s)) = FlattenSeq(seqs) \o s
<1> DEFINE more == Append(seqs, s)
<1>1. /\ more \in Seq(Seq(S)) /\ Len(more) = Len(seqs) + 1 /\ Len(seqs) \in Nat
      /\ more[Len(seqs) + 1] = s /\ \A i \in 1 .. Len(seqs) : more[i] = seqs[i]
  OBVIOUS
<1>0. /\ Len(seqs) \in 0 .. Len(seqs) /\ Len(seqs) < Len(more) /\ Len(seqs) <= Len(more)
      /\ Len(more) \in Nat
  BY <1>1
<1> HIDE DEF more
<1>2. PICK f \in [0 .. Len(seqs) -> Seq(S)] :
          FlattensBy(f, seqs) /\ FlattenSeq(seqs) = f[Len(seqs)]
  BY FlattenSteps
<1>3. PICK g \in [0 .. Len(more) -> Seq(S)] :
          FlattensBy(g, more) /\ FlattenSeq(more) = g[Len(more)]
  BY <1>1, FlattenSteps
<1>4. f[Len(seqs)] = g[Len(seqs)]
  <2>1. FlattensBy(f, seqs) /\ FlattensBy(g, more)
    BY <1>2, <1>3
  <2>2. StartsWith(more, seqs)
    BY <1>0, <1>1 DEF StartsWith
  <2>3. QED
    BY <2>1, <2>2, FlattenPrefix, Zenon
<1>5. g[Len(seqs) + 1] = g[Len(seqs)] \o s
  BY <1>0, <1>1, <1>3, Zenon DEF FlattensBy
<1>6. QED
  BY <1>1, <1>2, <1>3, <1>4, <1>5, Zenon DEF more

LEMMA FlattenOne ==
    ASSUME NEW S, NEW s \in Seq(S)
    PROVE  FlattenSeq(<<s>>) = s
<1>1. <<s>> = Append(<<>>, s) /\ <<>> \in Seq(Seq(S))
  OBVIOUS
<1>2. FlattenSeq(Append(<<>>, s)) = FlattenSeq(<<>>) \o s
  BY <1>1, FlattenAppend
<1>3. <<>> \o s = s
  OBVIOUS
<1>4. QED
  BY <1>1, <1>2, <1>3, FlattenEmpty, Zenon

\* Sequences flattened apart and together.
LEMMA FlattenConcat ==
    ASSUME NEW S, NEW s \in Seq(Seq(S)), NEW t \in Seq(Seq(S))
    PROVE  FlattenSeq(s \o t) = FlattenSeq(s) \o FlattenSeq(t)
<1> DEFINE Good == {r \in Seq(Seq(S)) : FlattenSeq(s \o r) = FlattenSeq(s) \o FlattenSeq(r)}
<1>1. <<>> \in Good
  <2>1. s \o <<>> = s /\ <<>> \in Seq(Seq(S))
    OBVIOUS
  <2>2. FlattenSeq(s) \o <<>> = FlattenSeq(s)
    BY FlattenType
  <2>3. QED
    BY <2>1, <2>2, FlattenEmpty
<1>2. ASSUME NEW r \in Seq(Seq(S)), NEW e \in Seq(S), r \in Good PROVE Append(r, e) \in Good
  <2>1. /\ s \o Append(r, e) = Append(s \o r, e) /\ s \o r \in Seq(Seq(S))
        /\ Append(r, e) \in Seq(Seq(S))
    OBVIOUS
  <2>2. FlattenSeq(s \o Append(r, e)) = FlattenSeq(s \o r) \o e
    BY <2>1, FlattenAppend
  <2>3. FlattenSeq(Append(r, e)) = FlattenSeq(r) \o e
    BY FlattenAppend
  <2>4. FlattenSeq(s) \in Seq(S) /\ FlattenSeq(r) \in Seq(S)
    BY FlattenType
  <2>5. (FlattenSeq(s) \o FlattenSeq(r)) \o e = FlattenSeq(s) \o (FlattenSeq(r) \o e)
    BY <2>4
  <2>6. QED
    BY <1>2, <2>1, <2>2, <2>3, <2>5, Zenon
<1> HIDE DEF Good
<1>3. \A r \in Seq(Seq(S)) : r \in Good
  BY <1>1, <1>2, SeqInduction
<1>4. QED
  BY <1>3 DEF Good

-----------------------------------------------------------------------------
(* A paragraph cut every budget-th word *)

\* Where the k-th piece ends.
Cut(words, budget, k) == IF k * budget < Len(words) THEN k * budget ELSE Len(words)

\* Two stretches that meet are one.
LEMMA SplitAt ==
    ASSUME NEW S, NEW s \in Seq(S), NEW i \in 0 .. Len(s), NEW j \in i .. Len(s)
    PROVE  /\ SubSeq(s, 1, i) \o SubSeq(s, i + 1, j) = SubSeq(s, 1, j)
           /\ SubSeq(s, i + 1, j) \in Seq(S)
           /\ Len(SubSeq(s, i + 1, j)) = j - i
  OBVIOUS

\* As many pieces as it takes, and no more.
LEMMA Rounds ==
    ASSUME NEW l \in Nat, NEW b \in Nat \ {0}, NEW n, n = (l + b - 1) \div b
    PROVE  n \in Nat /\ l <= n * b /\ \A k \in Nat : k < n => k * b < l
<1>1. n \in Int /\ n * b <= l + b - 1 /\ l + b - 1 < n * b + b
  OBVIOUS
<1>2. n >= 0
  BY <1>1
<1>3. ASSUME NEW k \in Nat, k < n PROVE k * b < l
  <2>1. (n - 1) * b = n * b - b /\ n * b \in Int
    BY <1>1
  <2>2. PICK d \in Nat : n - 1 = k + d
    <3>1. n - 1 - k \in Nat /\ n - 1 = k + (n - 1 - k)
      BY <1>1, <1>3
    <3>2. QED
      BY <3>1
  <2>3. (k + d) * b = k * b + d * b /\ d * b >= 0 /\ k * b \in Int /\ d * b \in Int
    OBVIOUS
  <2>4. QED
    BY <1>1, <2>1, <2>2, <2>3
<1>4. QED
  BY <1>1, <1>2, <1>3

\* A paragraph's pieces fit and are the paragraph; one that fits is its one piece.
LEMMA PiecesFit ==
    ASSUME NEW S, NEW words \in Seq(S), NEW budget \in Nat \ {0}
    PROVE  /\ Pieces(words, budget) \in Seq(Seq(S))
           /\ \A k \in DOMAIN Pieces(words, budget) : Len(Pieces(words, budget)[k]) <= budget
           /\ FlattenSeq(Pieces(words, budget)) = words
           /\ Len(words) <= budget => Pieces(words, budget) = <<words>>
<1>1. Len(words) \in Nat
  OBVIOUS
<1>2. CASE Len(words) <= budget
  <2>1. Pieces(words, budget) = <<words>>
    BY <1>2 DEF Pieces
  <2>2. <<words>> \in Seq(Seq(S))
    OBVIOUS
  <2>5. FlattenSeq(<<words>>) = words
    BY FlattenOne
  <2>6. \A k \in DOMAIN <<words>> : Len(<<words>>[k]) <= budget
    BY <1>2
  <2>7. QED
    BY <2>1, <2>2, <2>5, <2>6, Zenon
<1>3. CASE ~(Len(words) <= budget)
  <2> DEFINE n == (Len(words) + budget - 1) \div budget
             p == [i \in 1 .. n |-> SubSeq(words, (i - 1) * budget + 1, Cut(words, budget, i))]
  <2>1. Pieces(words, budget) = p
    BY <1>1, <1>3 DEF Pieces, Cut
  <2>2. n \in Nat /\ Len(words) <= n * budget /\ \A k \in Nat : k < n => k * budget < Len(words)
    BY <1>1, Rounds
  <2>3. ASSUME NEW k \in Nat, k < n
        PROVE  /\ p[k + 1] = SubSeq(words, k * budget + 1, Cut(words, budget, k + 1))
               /\ k * budget \in 0 .. Len(words)
               /\ Cut(words, budget, k) = k * budget
               /\ Cut(words, budget, k + 1) \in k * budget .. Len(words)
               /\ Cut(words, budget, k + 1) - k * budget <= budget
    <3> HIDE DEF n
    <3>0. k + 1 \in 1 .. n
      BY <2>2, <2>3
    <3>1. p[k + 1] = SubSeq(words, ((k + 1) - 1) * budget + 1, Cut(words, budget, k + 1))
      BY <3>0, Zenon
    <3>2. ((k + 1) - 1) * budget = k * budget /\ (k + 1) * budget = k * budget + budget
      OBVIOUS
    <3>3. k * budget \in Nat /\ k * budget < Len(words)
      BY <2>2, <2>3
    <3> DEFINE x == k * budget
               y == (k + 1) * budget
    <3>4. /\ Cut(words, budget, k) = x
          /\ Cut(words, budget, k + 1) = IF y < Len(words) THEN y ELSE Len(words)
      BY <3>3 DEF Cut
    <3>5. y = x + budget /\ x \in Nat /\ x < Len(words)
      BY <3>2, <3>3
    <3> HIDE DEF x, y
    <3>6. /\ Cut(words, budget, k + 1) \in x .. Len(words)
          /\ Cut(words, budget, k + 1) - x <= budget /\ x \in 0 .. Len(words)
      BY <1>1, <3>4, <3>5
    <3>7. QED
      BY <3>1, <3>2, <3>4, <3>6, Zenon DEF x
  <2>4. p = [i \in 1 .. n |-> p[i]] /\ Len(p) = n
    <3> HIDE DEF n
    <3>1. p = [i \in 1 .. n |-> p[i]] /\ DOMAIN p = 1 .. n
      BY Zenon
    <3> HIDE DEF p
    <3>2. Len(p) = n
      BY <2>2, <3>1
    <3>3. QED
      BY <3>1, <3>2
  <2> HIDE DEF p, n
  <2>5. ASSUME NEW k \in Nat, k < n PROVE p[k + 1] \in Seq(S) /\ Len(p[k + 1]) <= budget
    <3> DEFINE x == k * budget
               y == Cut(words, budget, k + 1)
    <3>1. p[k + 1] = SubSeq(words, x + 1, y) /\ x \in 0 .. Len(words) /\ y \in x .. Len(words)
          /\ y - x <= budget
      BY <2>3, <2>5
    <3> HIDE DEF x, y
    <3>2. QED
      BY <3>1, SplitAt
  <2>6. ASSUME NEW i \in 1 .. n PROVE p[i] \in Seq(S) /\ Len(p[i]) <= budget
    <3>1. i - 1 \in Nat /\ i - 1 < n /\ (i - 1) + 1 = i
      BY <2>2
    <3>2. p[(i - 1) + 1] \in Seq(S) /\ Len(p[(i - 1) + 1]) <= budget
      BY <2>5, <3>1, Zenon
    <3>3. QED
      BY <3>1, <3>2, Zenon
  <2>7. p \in Seq(Seq(S)) /\ DOMAIN p = 1 .. n
    <3>1. p \in [1 .. n -> Seq(S)]
      BY <2>4, <2>6, Zenon
    <3>2. QED
      BY <2>2, <3>1
  <2>8. PICK f \in [0 .. Len(p) -> Seq(S)] : FlattensBy(f, p) /\ FlattenSeq(p) = f[Len(p)]
    BY <2>7, FlattenSteps
  <2> DEFINE Good == {k \in Nat : k <= n => f[k] = SubSeq(words, 1, Cut(words, budget, k))}
  <2>9. 0 \in Good
    <3>1. Cut(words, budget, 0) = 0
      BY <1>1 DEF Cut
    <3>2. SubSeq(words, 1, 0) = <<>>
      OBVIOUS
    <3>3. f[0] = <<>>
      BY <2>8, Zenon DEF FlattensBy
    <3>4. f[0] = SubSeq(words, 1, Cut(words, budget, 0))
      BY <3>1, <3>2, <3>3, Zenon
    <3>5. QED
      BY <3>4
  <2>10. ASSUME NEW k \in Nat, k \in Good PROVE k + 1 \in Good
    <3> SUFFICES ASSUME k + 1 <= n
                 PROVE  f[k + 1] = SubSeq(words, 1, Cut(words, budget, k + 1))
      OBVIOUS
    <3>1. k < n /\ k <= n
      BY <2>2
    <3>2. f[k] = SubSeq(words, 1, Cut(words, budget, k))
      BY <2>10, <3>1
    <3>3. f[k + 1] = f[k] \o p[k + 1]
      BY <2>4, <2>8, <3>1, Zenon DEF FlattensBy
    <3>4. /\ p[k + 1] = SubSeq(words, k * budget + 1, Cut(words, budget, k + 1))
          /\ k * budget \in 0 .. Len(words)
          /\ Cut(words, budget, k) = k * budget
          /\ Cut(words, budget, k + 1) \in k * budget .. Len(words)
      BY <2>3, <3>1
    <3> DEFINE x == k * budget
    <3>5. SubSeq(words, 1, x) \o SubSeq(words, x + 1, Cut(words, budget, k + 1))
            = SubSeq(words, 1, Cut(words, budget, k + 1))
      BY <3>4, SplitAt
    <3>6. QED
      BY <3>2, <3>3, <3>4, <3>5, Zenon
  <2> HIDE DEF Good
  <2>11. \A k \in Nat : k \in Good
    BY <2>9, <2>10, Induction
  <2>12. f[n] = SubSeq(words, 1, Cut(words, budget, n))
    BY <2>2, <2>11 DEF Good
  <2>13. Cut(words, budget, n) = Len(words)
    BY <1>1, <2>2 DEF Cut
  <2>14. SubSeq(words, 1, Len(words)) = words
    OBVIOUS
  <2>15. FlattenSeq(p) = words
    BY <2>4, <2>8, <2>12, <2>13, <2>14, Zenon
  <2>16. QED
    BY <1>3, <2>1, <2>6, <2>7, <2>15, Zenon
<1>4. QED
  BY <1>2, <1>3

-----------------------------------------------------------------------------
(* Paragraphs cut to size, and what holds the words of what *)

\* Every word of s is in t.
Within(s, t) == \A i \in DOMAIN s : \E j \in DOMAIN t : t[j] = s[i]

LEMMA WithinJoined ==
    ASSUME NEW S, NEW s \in Seq(S), NEW t \in Seq(S), NEW u, Within(u, s) \/ Within(u, t)
    PROVE  Within(u, s \o t)
<1>1. /\ \A j \in DOMAIN s : j \in DOMAIN (s \o t) /\ (s \o t)[j] = s[j]
      /\ \A j \in DOMAIN t : Len(s) + j \in DOMAIN (s \o t) /\ (s \o t)[Len(s) + j] = t[j]
  OBVIOUS
<1>2. CASE Within(u, s)
  BY <1>1, <1>2, Zenon DEF Within
<1>3. CASE Within(u, t)
  BY <1>1, <1>3, Zenon DEF Within
<1>4. QED
  BY <1>2, <1>3

LEMMA WithinItself == ASSUME NEW s PROVE Within(s, s)
BY DEF Within

\* What is flattened has the words of each part.
LEMMA FlattenHolds ==
    ASSUME NEW S
    PROVE  \A s \in Seq(Seq(S)) : \A j \in DOMAIN s : Within(s[j], FlattenSeq(s))
<1> DEFINE Good == {s \in Seq(Seq(S)) : \A j \in DOMAIN s : Within(s[j], FlattenSeq(s))}
<1>1. <<>> \in Good
  OBVIOUS
<1>2. ASSUME NEW s \in Seq(Seq(S)), NEW e \in Seq(S), s \in Good PROVE Append(s, e) \in Good
  <2> DEFINE t == Append(s, e)
  <2>1. /\ t \in Seq(Seq(S))
        /\ \A j \in DOMAIN t : (j \in DOMAIN s /\ t[j] = s[j]) \/ t[j] = e
    OBVIOUS
  <2>2. FlattenSeq(t) = FlattenSeq(s) \o e /\ FlattenSeq(s) \in Seq(S)
    BY FlattenAppend, FlattenType
  <2> HIDE DEF t
  <2>3. ASSUME NEW j \in DOMAIN t PROVE Within(t[j], FlattenSeq(t))
    <3>1. \A i \in DOMAIN s : Within(s[i], FlattenSeq(s))
      BY <1>2
    <3>2. Within(t[j], FlattenSeq(s)) \/ Within(t[j], e)
      BY <2>1, <3>1, WithinItself, Zenon
    <3>3. Within(t[j], FlattenSeq(s) \o e)
      BY <2>2, <3>2, WithinJoined
    <3>4. QED
      BY <2>2, <3>3, Zenon
  <2>4. t \in Good
    BY <2>1, <2>3
  <2>5. QED
    BY <2>4 DEF t
<1> HIDE DEF Good
<1>3. \A s \in Seq(Seq(S)) : s \in Good
  BY <1>1, <1>2, SeqInduction
<1>4. QED
  BY <1>3 DEF Good

\* A sequence one longer is an Append; a sequence joined has the elements of both.
Longer(t, s, e) ==
    /\ t = [p \in 1 .. Len(s) + 1 |-> t[p]]
    /\ \A p \in 1 .. Len(s) : t[p] = s[p]
    /\ t[Len(s) + 1] = e

LEMMA AppendIs ==
    ASSUME NEW S, NEW s \in Seq(S), NEW e \in S, NEW t, Longer(t, s, e)
    PROVE  t = Append(s, e)
<1>0. /\ t = [p \in 1 .. Len(s) + 1 |-> t[p]]
      /\ \A p \in 1 .. Len(s) : t[p] = s[p]
      /\ t[Len(s) + 1] = e
  BY Zenon DEF Longer
<1> DEFINE c == Append(s, e)
<1>1. /\ \A p \in 1 .. Len(s) : c[p] = s[p]
      /\ c[Len(s) + 1] = e /\ DOMAIN c = 1 .. Len(s) + 1 /\ Len(s) \in Nat
  OBVIOUS
<1>2. c = [p \in 1 .. Len(s) + 1 |-> c[p]]
  <2>1. c \in Seq(S) /\ Len(c) = Len(s) + 1
    OBVIOUS
  <2> HIDE DEF c
  <2>2. c = [p \in 1 .. Len(c) |-> c[p]]
    BY <2>1
  <2>3. QED
    BY <2>1, <2>2, Zenon
<1> HIDE DEF c
<1>3. \A p \in 1 .. Len(s) + 1 : p = Len(s) + 1 \/ p \in 1 .. Len(s)
  BY <1>1
<1>4. \A p \in 1 .. Len(s) + 1 : t[p] = c[p]
  BY <1>0, <1>1, <1>3, Zenon
<1>5. [p \in 1 .. Len(s) + 1 |-> t[p]] = [p \in 1 .. Len(s) + 1 |-> c[p]]
  BY <1>4, Zenon
<1>6. t = c
  BY <1>0, <1>2, <1>5, Zenon
<1>7. QED
  BY <1>6 DEF c

Joined(u, s, t) ==
    /\ \A i \in DOMAIN s : i \in DOMAIN u /\ u[i] = s[i]
    /\ \A i \in DOMAIN t : Len(s) + i \in DOMAIN u /\ u[Len(s) + i] = t[i]
    /\ \A i \in DOMAIN u :
           \/ i \in DOMAIN s /\ u[i] = s[i]
           \/ i - Len(s) \in DOMAIN t /\ u[i] = t[i - Len(s)]

LEMMA JoinedIs ==
    ASSUME NEW S, NEW s \in Seq(S), NEW t \in Seq(S)
    PROVE  Joined(s \o t, s, t)
BY DEF Joined

\* What _split_oversized_paragraphs flattens.
PiecesOf(paras, budget) == [p \in DOMAIN paras |-> Pieces(paras[p], budget)]

\* One paragraph more adds its pieces at the end.
LEMMA SplitGrows ==
    ASSUME NEW S, NEW budget \in Nat \ {0}, NEW paras \in Seq(Seq(S)), NEW e \in Seq(S)
    PROVE  /\ SplitOversized(paras, budget) \in Seq(Seq(S))
           /\ SplitOversized(Append(paras, e), budget)
                  = SplitOversized(paras, budget) \o Pieces(e, budget)
<1> DEFINE more == Append(paras, e)
<1>1. /\ Len(paras) \in Nat /\ DOMAIN paras = 1 .. Len(paras) /\ DOMAIN more = 1 .. Len(paras) + 1
      /\ \A p \in 1 .. Len(paras) : paras[p] \in Seq(S) /\ more[p] = paras[p]
      /\ more[Len(paras) + 1] = e
  OBVIOUS
<1> HIDE DEF more
<1> DEFINE a == PiecesOf(paras, budget)
           b == PiecesOf(more, budget)
           n == Len(paras)
<1>2. \A p \in DOMAIN paras : Pieces(paras[p], budget) \in Seq(Seq(S))
  BY <1>1, PiecesFit
<1>3. a \in Seq(Seq(Seq(S))) /\ Len(a) = n /\ DOMAIN a = 1 .. n
  BY <1>1, <1>2 DEF PiecesOf
<1>4. \A p \in 1 .. n : b[p] = a[p]
  BY <1>1 DEF PiecesOf
<1>5. b[n + 1] = Pieces(e, budget) /\ Pieces(e, budget) \in Seq(Seq(S)) /\ DOMAIN b = 1 .. n + 1
  <2>1. n + 1 \in DOMAIN more
    BY <1>1
  <2>2. QED
    BY <1>1, <2>1, PiecesFit DEF PiecesOf
<1>6. b = [p \in 1 .. n + 1 |-> b[p]]
  BY <1>1, Zenon DEF PiecesOf
<1> HIDE DEF a, b
<1>7. b = Append(a, Pieces(e, budget))
  <2>1. Longer(b, a, Pieces(e, budget))
    BY <1>3, <1>4, <1>5, <1>6, Zenon DEF Longer
  <2>2. QED
    BY <1>3, <1>5, <2>1, AppendIs
<1>8. FlattenSeq(b) = FlattenSeq(a) \o Pieces(e, budget) /\ FlattenSeq(a) \in Seq(Seq(S))
  BY <1>3, <1>5, <1>7, FlattenAppend, FlattenType
<1>9. SplitOversized(paras, budget) = FlattenSeq(a) /\ SplitOversized(more, budget) = FlattenSeq(b)
  BY Zenon DEF SplitOversized, PiecesOf, a, b
<1>10. QED
  BY <1>8, <1>9, Zenon DEF more

\* cut is paras, in parts that fit, and whole where it fits.
CutFits(paras, cut, budget) ==
    /\ \A i \in DOMAIN cut : Len(cut[i]) <= budget
    /\ FlattenSeq(cut) = FlattenSeq(paras)
    /\ \A p \in DOMAIN paras : Len(paras[p]) <= budget =>
           \E i \in DOMAIN cut : cut[i] = paras[p]

LEMMA SplitFits ==
    ASSUME NEW S, NEW budget \in Nat \ {0}
    PROVE  \A paras \in Seq(Seq(S)) :
               /\ SplitOversized(paras, budget) \in Seq(Seq(S))
               /\ CutFits(paras, SplitOversized(paras, budget), budget)
<1> DEFINE Fits(paras, cut) == CutFits(paras, cut, budget)
           Good == {paras \in Seq(Seq(S)) : Fits(paras, SplitOversized(paras, budget))}
<1>1. <<>> \in Good
  <2>1. [p \in DOMAIN <<>> |-> Pieces(<<>>[p], budget)] = <<>>
    OBVIOUS
  <2>2. SplitOversized(<<>>, budget) = <<>>
    BY <2>1, FlattenEmpty, Zenon DEF SplitOversized
  <2>3. Fits(<<>>, <<>>)
    BY DEF CutFits
  <2> HIDE DEF Fits
  <2>4. QED
    BY <2>2, <2>3
<1>2. ASSUME NEW paras \in Seq(Seq(S)), NEW e \in Seq(S), paras \in Good
      PROVE  Append(paras, e) \in Good
  <2> DEFINE more == Append(paras, e)
             cut == SplitOversized(paras, budget)
             pieces == Pieces(e, budget)
  <2>1. /\ pieces \in Seq(Seq(S)) /\ \A k \in DOMAIN pieces : Len(pieces[k]) <= budget
        /\ FlattenSeq(pieces) = e /\ (Len(e) <= budget => pieces = <<e>>)
    BY PiecesFit
  <2>2. cut \in Seq(Seq(S)) /\ SplitOversized(more, budget) = cut \o pieces
    BY SplitGrows
  <2>3. Fits(paras, cut)
    BY <1>2
  <2> USE DEF CutFits
  <2>4. FlattenSeq(more) = FlattenSeq(paras) \o e
    BY FlattenAppend
  <2>5. FlattenSeq(cut \o pieces) = FlattenSeq(cut) \o FlattenSeq(pieces)
    BY <2>1, <2>2, FlattenConcat
  <2>6. /\ more \in Seq(Seq(S))
        /\ \A p \in DOMAIN more : (p \in DOMAIN paras /\ more[p] = paras[p]) \/ more[p] = e
    OBVIOUS
  <2> HIDE DEF more, cut, pieces
  <2> DEFINE all == cut \o pieces
  <2>7. Joined(all, cut, pieces)
    BY <2>1, <2>2, JoinedIs
  <2> HIDE DEF all
  <2>8. \A i \in DOMAIN all : Len(all[i]) <= budget
    BY <2>1, <2>3, <2>7, Zenon DEF Joined
  <2>9. FlattenSeq(all) = FlattenSeq(more)
    BY <2>1, <2>3, <2>4, <2>5, Zenon DEF all
  <2>10. ASSUME NEW p \in DOMAIN more, Len(more[p]) <= budget
         PROVE  \E i \in DOMAIN all : all[i] = more[p]
    <3>1. CASE p \in DOMAIN paras /\ more[p] = paras[p]
      BY <2>3, <2>7, <2>10, <3>1, Zenon DEF Joined
    <3>2. CASE more[p] = e
      <4>1. pieces = <<e>>
        BY <2>1, <2>10, <3>2, Zenon
      <4>2. 1 \in DOMAIN pieces /\ pieces[1] = e
        BY <4>1
      <4>3. Len(cut) + 1 \in DOMAIN all /\ all[Len(cut) + 1] = pieces[1]
        BY <2>7, <4>2, Zenon DEF Joined
      <4>4. QED
        BY <3>2, <4>2, <4>3, Zenon
    <3>3. QED
      BY <2>6, <3>1, <3>2
  <2>11. Fits(more, SplitOversized(more, budget))
    <3>1. Fits(more, all)
      BY <2>8, <2>9, <2>10, Zenon
    <3>2. SplitOversized(more, budget) = all
      BY <2>2, Zenon DEF all
    <3> HIDE DEF Fits
    <3>3. QED
      BY <3>1, <3>2, Zenon
  <2> HIDE DEF Fits
  <2>12. QED
    BY <2>6, <2>11, Zenon DEF more
<1> HIDE DEF Good
<1>3. \A paras \in Seq(Seq(S)) : paras \in Good
  BY <1>1, <1>2, SeqInduction
<1>4. \A paras \in Seq(Seq(S)) : SplitOversized(paras, budget) \in Seq(Seq(S))
  <2>1. SUFFICES ASSUME NEW paras \in Seq(Seq(S)) PROVE SplitOversized(paras, budget) \in Seq(Seq(S))
    OBVIOUS
  <2>2. <<>> \in Seq(S)
    OBVIOUS
  <2>3. QED
    BY <2>2, SplitGrows
<1>5. QED
  BY <1>3, <1>4, Zenon DEF Good

-----------------------------------------------------------------------------
(* The fold over the paragraphs, by its prefixes *)

\* Start, step and end of Grouped, with the fold written out.
NoGroups == [closed |-> <<>>, current |-> <<>>]

PlaceOf(g, para, budget) ==
    IF Len(g.current) + Len(para) > budget /\ g.current # <<>>
    THEN [closed |-> Append(g.closed, g.current), current |-> para]
    ELSE [g EXCEPT !.current = @ \o para]

FoldStep(fold, paras, budget, s) ==
    IF s = {} THEN NoGroups ELSE PlaceOf(fold[s \ {Max(s)}], paras[Max(s)], budget)

FoldsTo(fold, paras, budget, D) == fold = [s \in SUBSET D |-> FoldStep(fold, paras, budget, s)]

LastGroups(end) == IF end.current = <<>> THEN end.closed ELSE Append(end.closed, end.current)

LEMMA GroupedFolds ==
    ASSUME NEW paras, NEW budget
    PROVE  Grouped(paras, budget)
             = LastGroups((CHOOSE fold : FoldsTo(fold, paras, budget, DOMAIN paras))[DOMAIN paras])
BY Zenon DEF Grouped, FoldLeft, MapThenFoldSet, FoldsTo, FoldStep, NoGroups, PlaceOf, LastGroups

\* The fold takes the paragraphs from the last to the first.
LEMMA MaxOfPrefix ==
    ASSUME NEW n \in Nat
    PROVE  /\ \A s \in SUBSET (1 .. n + 1) : n + 1 \in s => Max(s) = n + 1
           /\ (1 .. n + 1) \ {n + 1} = 1 .. n
<1>1. ASSUME NEW s \in SUBSET (1 .. n + 1), n + 1 \in s PROVE Max(s) = n + 1
  <2>1. n + 1 \in s /\ \A y \in s : n + 1 >= y
    BY <1>1
  <2>2. \A m \in s : (\A y \in s : m >= y) => m = n + 1
    BY <1>1
  <2>3. \E m \in s : \A y \in s : m >= y
    BY <2>1, Zenon
  <2>4. QED
    BY <2>2, <2>3, Zenon DEF Max
<1>2. QED
  BY <1>1

\* What the fold chooses is there to be chosen.
LEMMA FoldExists ==
    ASSUME NEW paras, NEW budget
    PROVE  \A n \in Nat : \E fold : FoldsTo(fold, paras, budget, 1 .. n)
<1> DEFINE Good == {n \in Nat : \E fold : FoldsTo(fold, paras, budget, 1 .. n)}
<1>1. 0 \in Good
  <2> DEFINE fold == [s \in SUBSET (1 .. 0) |-> NoGroups]
  <2>1. \A s \in SUBSET (1 .. 0) : s = {}
    OBVIOUS
  <2>2. \A s \in SUBSET (1 .. 0) : FoldStep(fold, paras, budget, s) = NoGroups
    BY <2>1, Zenon DEF FoldStep
  <2>3. FoldsTo(fold, paras, budget, 1 .. 0)
    BY <2>2, Zenon DEF FoldsTo
  <2>4. QED
    BY <2>3
<1>2. ASSUME NEW n \in Nat, n \in Good PROVE n + 1 \in Good
  <2>1. PICK fold : FoldsTo(fold, paras, budget, 1 .. n)
    BY <1>2
  <2>2. \A s \in SUBSET (1 .. n) : fold[s] = FoldStep(fold, paras, budget, s)
    BY <2>1, Zenon DEF FoldsTo
  <2> DEFINE more == [s \in SUBSET (1 .. n + 1) |->
                         IF n + 1 \in s THEN PlaceOf(fold[s \ {n + 1}], paras[n + 1], budget)
                         ELSE fold[s]]
  <2>3. ASSUME NEW s \in SUBSET (1 .. n + 1)
        PROVE  more[s] = FoldStep(more, paras, budget, s)
    <3>1. CASE n + 1 \in s
      <4>1. Max(s) = n + 1 /\ s # {}
        BY <3>1, MaxOfPrefix
      <4>2. s \ {n + 1} \in SUBSET (1 .. n + 1) /\ ~(n + 1 \in s \ {n + 1})
        OBVIOUS
      <4>3. more[s \ {n + 1}] = fold[s \ {n + 1}]
        BY <4>2, Zenon
      <4>4. more[s] = PlaceOf(fold[s \ {n + 1}], paras[n + 1], budget)
        BY <3>1, Zenon
      <4> HIDE DEF more
      <4>5. QED
        BY <4>1, <4>3, <4>4, Zenon DEF FoldStep
    <3>2. CASE ~(n + 1 \in s)
      <4>1. s \in SUBSET (1 .. n)
        BY <3>2
      <4>2. more[s] = fold[s]
        BY <3>2, Zenon
      <4>3. s \ {Max(s)} \in SUBSET (1 .. n + 1) /\ ~(n + 1 \in s \ {Max(s)})
        BY <3>2, Zenon
      <4>4. more[s \ {Max(s)}] = fold[s \ {Max(s)}]
        BY <4>3, Zenon
      <4> HIDE DEF more
      <4>5. QED
        BY <2>2, <4>1, <4>2, <4>4, Zenon DEF FoldStep
    <3>3. QED
      BY <3>1, <3>2, Zenon
  <2>4. more = [s \in SUBSET (1 .. n + 1) |-> more[s]]
    BY Zenon
  <2> HIDE DEF more
  <2>5. FoldsTo(more, paras, budget, 1 .. n + 1)
    BY <2>3, <2>4, Zenon DEF FoldsTo
  <2>6. QED
    BY <2>5
<1> HIDE DEF Good
<1>3. \A n \in Nat : n \in Good
  BY <1>1, <1>2, Induction
<1>4. QED
  BY <1>3 DEF Good

\* The groups after each paragraph.
GroupsBy(g, paras, budget) ==
    /\ g[0] = NoGroups
    /\ \A k \in Nat : k < Len(paras) => g[k + 1] = PlaceOf(g[k], paras[k + 1], budget)

\* The fold is the loop: it places one paragraph after the other.
LEMMA GroupSteps ==
    ASSUME NEW S, NEW paras \in Seq(S), NEW budget
    PROVE  \E g : GroupsBy(g, paras, budget) /\ Grouped(paras, budget) = LastGroups(g[Len(paras)])
<1> DEFINE n == Len(paras)
           fold == CHOOSE fold : FoldsTo(fold, paras, budget, 1 .. n)
           g == [k \in 0 .. n |-> fold[1 .. k]]
<1>1. n \in Nat /\ DOMAIN paras = 1 .. n
  OBVIOUS
<1> HIDE DEF n
<1>2. FoldsTo(fold, paras, budget, 1 .. n)
  BY <1>1, FoldExists, Zenon
<1>3. Grouped(paras, budget) = LastGroups(fold[1 .. n])
  BY <1>1, GroupedFolds, Zenon
<1> HIDE DEF fold
<1>4. \A s \in SUBSET (1 .. n) : fold[s] = FoldStep(fold, paras, budget, s)
  BY <1>2, Zenon DEF FoldsTo
<1>5. \A k \in 0 .. n : g[k] = fold[1 .. k]
  BY Zenon
<1> HIDE DEF g
<1>6. g[0] = NoGroups
  <2>1. 1 .. 0 = {} /\ 0 \in 0 .. n /\ {} \in SUBSET (1 .. n)
    BY <1>1
  <2>2. QED
    BY <1>4, <1>5, <2>1, Zenon DEF FoldStep
<1>7. ASSUME NEW k \in Nat, k < n PROVE g[k + 1] = PlaceOf(g[k], paras[k + 1], budget)
  <2>1. k \in 0 .. n /\ k + 1 \in 0 .. n /\ 1 .. k + 1 \in SUBSET (1 .. n) /\ k + 1 \in 1 .. k + 1
    BY <1>1, <1>7
  <2>2. Max(1 .. k + 1) = k + 1 /\ (1 .. k + 1) \ {k + 1} = 1 .. k /\ 1 .. k + 1 # {}
    BY <2>1, MaxOfPrefix
  <2>3. fold[1 .. k + 1] = PlaceOf(fold[1 .. k], paras[k + 1], budget)
    BY <1>4, <2>1, <2>2, Zenon DEF FoldStep
  <2>4. QED
    BY <1>5, <2>1, <2>3, Zenon
<1>8. g[n] = fold[1 .. n]
  BY <1>1, <1>5
<1>9. GroupsBy(g, paras, budget)
  BY <1>6, <1>7, Zenon DEF GroupsBy, n
<1>10. QED
  BY <1>3, <1>8, <1>9, Zenon DEF n

-----------------------------------------------------------------------------
(* The groups keep the words, in order and within the budget *)

\* A group, closed or under way, has all the words of s.
Held(g, s) == Within(s, g.current) \/ \E c \in DOMAIN g.closed : Within(s, g.closed[c])

\* The invariant of the loop, words being those of the paragraphs placed so far.
GroupsFit(S, g, words, budget) ==
    /\ g \in [closed : Seq(Seq(S)), current : Seq(S)]
    /\ \A c \in DOMAIN g.closed : Len(g.closed[c]) <= budget
    /\ Len(g.current) <= budget
    /\ FlattenSeq(g.closed) \o g.current = words

LEMMA JoinAssoc ==
    ASSUME NEW S, NEW s \in Seq(S), NEW t \in Seq(S), NEW u \in Seq(S)
    PROVE  s \o (t \o u) = (s \o t) \o u
OBVIOUS

\* Placing a paragraph that fits keeps it, and loses nothing that was held.
LEMMA PlaceFits ==
    ASSUME NEW S, NEW budget \in Nat, NEW g, NEW words, GroupsFit(S, g, words, budget),
           NEW para \in Seq(S), Len(para) <= budget
    PROVE  LET h == PlaceOf(g, para, budget)
           IN  /\ GroupsFit(S, h, words \o para, budget)
               /\ Held(h, para)
               /\ \A s : Held(g, s) => Held(h, s)
<1> DEFINE h == PlaceOf(g, para, budget)
<1>1. /\ g.closed \in Seq(Seq(S)) /\ g.current \in Seq(S)
      /\ g = [closed |-> g.closed, current |-> g.current]
      /\ \A c \in DOMAIN g.closed : Len(g.closed[c]) <= budget
      /\ Len(g.current) <= budget
      /\ FlattenSeq(g.closed) \o g.current = words
  BY DEF GroupsFit
<1>2. FlattenSeq(g.closed) \in Seq(S)
  BY <1>1, FlattenType
<1>3. CASE Len(g.current) + Len(para) > budget /\ g.current # <<>>
  <2> DEFINE more == Append(g.closed, g.current)
  <2>1. h = [closed |-> more, current |-> para]
    BY <1>3 DEF PlaceOf
  <2>2. /\ more \in Seq(Seq(S))
        /\ \A c \in DOMAIN g.closed : c \in DOMAIN more /\ more[c] = g.closed[c]
        /\ Len(g.closed) + 1 \in DOMAIN more /\ more[Len(g.closed) + 1] = g.current
        /\ \A c \in DOMAIN more : c \in DOMAIN g.closed \/ c = Len(g.closed) + 1
    BY <1>1
  <2>3. FlattenSeq(more) = words
    BY <1>1, FlattenAppend
  <2> HIDE DEF more
  <2>4. h.closed = more /\ h.current = para /\ h \in [closed : Seq(Seq(S)), current : Seq(S)]
    BY <2>1, <2>2
  <2> HIDE DEF h
  <2>5. GroupsFit(S, h, words \o para, budget)
    BY <1>1, <2>2, <2>3, <2>4, Zenon DEF GroupsFit
  <2>6. Held(h, para)
    BY <2>4, WithinItself, Zenon DEF Held
  <2>7. ASSUME NEW s, Held(g, s) PROVE Held(h, s)
    BY <2>2, <2>4, <2>7, Zenon DEF Held
  <2>8. QED
    BY <2>5, <2>6, <2>7, Zenon DEF h
<1>4. CASE ~(Len(g.current) + Len(para) > budget /\ g.current # <<>>)
  <2> DEFINE now == g.current \o para
  <2>1. h = [g EXCEPT !.current = now]
    BY <1>4, Zenon DEF PlaceOf
  <2>2. now \in Seq(S) /\ Len(now) <= budget
    <3>1. CASE g.current = <<>>
      BY <1>1, <3>1
    <3>2. CASE Len(g.current) + Len(para) <= budget
      BY <1>1, <3>2
    <3>3. Len(g.current) \in Nat /\ Len(para) \in Nat
      BY <1>1
    <3>4. QED
      BY <1>4, <3>1, <3>2, <3>3
  <2>3. FlattenSeq(g.closed) \o now = words \o para
    <3>1. FlattenSeq(g.closed) \o (g.current \o para) = (FlattenSeq(g.closed) \o g.current) \o para
      <4>1. g.current \in Seq(S) /\ FlattenSeq(g.closed) \in Seq(S)
        BY <1>1, <1>2, Zenon
      <4> DEFINE x == FlattenSeq(g.closed)
                 y == g.current
      <4>2. x \in Seq(S) /\ y \in Seq(S)
        BY <4>1
      <4> HIDE DEF x, y
      <4>3. x \o (y \o para) = (x \o y) \o para
        BY <4>2, JoinAssoc
      <4>4. QED
        BY <4>3 DEF x, y
    <3>2. QED
      BY <1>1, <3>1, Zenon
  <2>4. /\ Within(para, now)
        /\ \A s : Within(s, g.current) => Within(s, now)
    BY <1>1, WithinItself, WithinJoined
  <2> HIDE DEF now
  <2>5. h.closed = g.closed /\ h.current = now /\ h \in [closed : Seq(Seq(S)), current : Seq(S)]
    BY <1>1, <2>1, <2>2
  <2> HIDE DEF h
  <2>6. GroupsFit(S, h, words \o para, budget)
    BY <1>1, <2>2, <2>3, <2>5, Zenon DEF GroupsFit
  <2>7. Held(h, para)
    BY <2>4, <2>5, Zenon DEF Held
  <2>8. ASSUME NEW s, Held(g, s) PROVE Held(h, s)
    BY <2>4, <2>5, <2>8, Zenon DEF Held
  <2>9. QED
    BY <2>6, <2>7, <2>8, Zenon DEF h
<1>5. QED
  BY <1>3, <1>4, Zenon

\* Grouping cuts nothing: what fits the budget stays whole.
LEMMA GroupedFits ==
    ASSUME NEW S, NEW budget \in Nat, NEW paras \in Seq(Seq(S)),
           \A i \in DOMAIN paras : Len(paras[i]) <= budget
    PROVE  LET groups == Grouped(paras, budget)
           IN  /\ groups \in Seq(Seq(S))
               /\ \A c \in DOMAIN groups : Len(groups[c]) <= budget
               /\ FlattenSeq(groups) = FlattenSeq(paras)
               /\ \A i \in DOMAIN paras : paras[i] # <<>> =>
                      \E c \in DOMAIN groups : Within(paras[i], groups[c])
<1> DEFINE n == Len(paras)
<1>1. n \in Nat /\ DOMAIN paras = 1 .. n /\ \A i \in 1 .. n : paras[i] \in Seq(S)
  OBVIOUS
<1>2. PICK f \in [0 .. n -> Seq(S)] : FlattensBy(f, paras) /\ FlattenSeq(paras) = f[n]
  BY FlattenSteps
<1>3. PICK g : GroupsBy(g, paras, budget) /\ Grouped(paras, budget) = LastGroups(g[n])
  BY GroupSteps
<1> DEFINE Good == {k \in Nat : k <= n =>
                      /\ GroupsFit(S, g[k], f[k], budget)
                      /\ \A i \in 1 .. k : Held(g[k], paras[i])}
<1>4. 0 \in Good
  <2>1. f[0] = <<>> /\ g[0] = NoGroups
    BY <1>2, <1>3, Zenon DEF FlattensBy, GroupsBy
  <2>2. NoGroups \in [closed : Seq(Seq(S)), current : Seq(S)]
    BY DEF NoGroups
  <2>3. NoGroups.closed = <<>> /\ NoGroups.current = <<>>
    BY DEF NoGroups
  <2>4. <<>> \o <<>> = <<>> /\ Len(<<>>) <= budget /\ \A c \in DOMAIN <<>> : FALSE
    OBVIOUS
  <2>5. GroupsFit(S, NoGroups, <<>>, budget)
    BY <2>2, <2>3, <2>4, FlattenEmpty, Zenon DEF GroupsFit
  <2>6. GroupsFit(S, g[0], f[0], budget)
    BY <2>1, <2>5, Zenon
  <2>7. \A i \in 1 .. 0 : FALSE
    OBVIOUS
  <2>8. QED
    BY <2>6, <2>7
<1>5. ASSUME NEW k \in Nat, k \in Good PROVE k + 1 \in Good
  <2> SUFFICES ASSUME k + 1 <= n
               PROVE  /\ GroupsFit(S, g[k + 1], f[k + 1], budget)
                      /\ \A i \in 1 .. k + 1 : Held(g[k + 1], paras[i])
    OBVIOUS
  <2>1. k < n /\ k <= n /\ k + 1 \in 1 .. n
    BY <1>1
  <2>2. GroupsFit(S, g[k], f[k], budget) /\ \A i \in 1 .. k : Held(g[k], paras[i])
    BY <1>5, <2>1
  <2>3. f[k + 1] = f[k] \o paras[k + 1] /\ g[k + 1] = PlaceOf(g[k], paras[k + 1], budget)
    BY <1>2, <1>3, <2>1, Zenon DEF FlattensBy, GroupsBy
  <2>4. paras[k + 1] \in Seq(S) /\ Len(paras[k + 1]) <= budget
    BY <1>1, <2>1, Zenon
  <2> HIDE DEF n, Good
  <2>5. /\ GroupsFit(S, g[k + 1], f[k + 1], budget)
        /\ Held(g[k + 1], paras[k + 1])
        /\ \A s : Held(g[k], s) => Held(g[k + 1], s)
    BY <2>2, <2>3, <2>4, PlaceFits
  <2>6. \A i \in 1 .. k + 1 : i \in 1 .. k \/ i = k + 1
    OBVIOUS
  <2>7. QED
    BY <2>2, <2>5, <2>6, Zenon
<1> HIDE DEF Good
<1>6. \A k \in Nat : k \in Good
  BY <1>4, <1>5, Induction
<1> DEFINE end == g[n]
           groups == LastGroups(end)
<1>7. GroupsFit(S, end, FlattenSeq(paras), budget) /\ \A i \in DOMAIN paras : Held(end, paras[i])
  <2>1. n \in Good /\ n <= n
    BY <1>1, <1>6
  <2>2. GroupsFit(S, g[n], f[n], budget) /\ \A i \in 1 .. n : Held(g[n], paras[i])
    BY <2>1 DEF Good
  <2>3. QED
    BY <1>1, <1>2, <2>2, Zenon
<1> HIDE DEF end, n
<1>8. /\ end.closed \in Seq(Seq(S)) /\ end.current \in Seq(S)
      /\ \A c \in DOMAIN end.closed : Len(end.closed[c]) <= budget
      /\ Len(end.current) <= budget
      /\ FlattenSeq(end.closed) \o end.current = FlattenSeq(paras)
  BY <1>7 DEF GroupsFit
<1>9. ASSUME NEW i \in DOMAIN paras, paras[i] # <<>>
      PROVE  ~Within(paras[i], <<>>)
  <2>1. 1 \in DOMAIN paras[i] /\ \A j \in DOMAIN <<>> : FALSE
    BY <1>9
  <2>2. QED
    BY <2>1, Zenon DEF Within
<1>10. CASE end.current = <<>>
  <2>1. groups = end.closed
    BY <1>10, Zenon DEF LastGroups
  <2>2. FlattenSeq(end.closed) \o <<>> = FlattenSeq(end.closed)
    BY <1>8, FlattenType
  <2>3. FlattenSeq(groups) = FlattenSeq(paras)
    BY <1>8, <1>10, <2>1, <2>2, Zenon
  <2>4. ASSUME NEW i \in DOMAIN paras, paras[i] # <<>>
        PROVE  \E c \in DOMAIN groups : Within(paras[i], groups[c])
    BY <1>7, <1>9, <1>10, <2>1, <2>4, Zenon DEF Held
  <2>5. QED
    BY <1>3, <1>8, <2>1, <2>3, <2>4, Zenon DEF end
<1>11. CASE end.current # <<>>
  <2> DEFINE all == Append(end.closed, end.current)
  <2>1. groups = all
    BY <1>11, Zenon DEF LastGroups
  <2>2. /\ all \in Seq(Seq(S))
        /\ \A c \in DOMAIN end.closed : c \in DOMAIN all /\ all[c] = end.closed[c]
        /\ Len(end.closed) + 1 \in DOMAIN all /\ all[Len(end.closed) + 1] = end.current
        /\ \A c \in DOMAIN all : c \in DOMAIN end.closed \/ c = Len(end.closed) + 1
    BY <1>8
  <2>3. FlattenSeq(all) = FlattenSeq(paras)
    BY <1>8, FlattenAppend
  <2> HIDE DEF all
  <2>4. \A c \in DOMAIN all : Len(all[c]) <= budget
    BY <1>8, <2>2, Zenon
  <2>5. ASSUME NEW i \in DOMAIN paras
        PROVE  \E c \in DOMAIN all : Within(paras[i], all[c])
    BY <1>7, <2>2, Zenon DEF Held
  <2>6. QED
    BY <1>3, <2>1, <2>2, <2>3, <2>4, <2>5, Zenon DEF end
<1>12. QED
  BY <1>10, <1>11

-----------------------------------------------------------------------------
(* A section *)

\* A paragraph's words, and that a chunk that has them contains each.
LEMMA ParagraphWords ==
    ASSUME NEW sec \in [heading : Nat, paras : Seq(Nat \ {0})]
    PROVE  /\ sec.heading \in Nat
           /\ Paragraphs(sec) \in Seq(Seq(Nat \X Nat))
           /\ DOMAIN Paragraphs(sec) = DOMAIN sec.paras
           /\ \A p \in DOMAIN sec.paras :
                 /\ Len(Paragraphs(sec)[p]) = sec.paras[p] /\ Paragraphs(sec)[p] # <<>>
                 /\ \A chunk : DOMAIN chunk = 1 .. Len(chunk) /\ Within(Paragraphs(sec)[p], chunk) =>
                       \A i \in 1 .. sec.paras[p] : Contains(chunk, <<p, i>>)
<1> DEFINE n == Len(sec.paras)
           Words(p) == [i \in 1 .. sec.paras[p] |-> <<p, i>>]
<1>1. /\ sec.heading \in Nat /\ n \in Nat /\ DOMAIN sec.paras = 1 .. n
      /\ \A p \in 1 .. n : sec.paras[p] \in Nat \ {0}
  OBVIOUS
<1>2. ASSUME NEW p \in 1 .. n
      PROVE  /\ Words(p) \in Seq(Nat \X Nat) /\ Len(Words(p)) = sec.paras[p] /\ Words(p) # <<>>
             /\ DOMAIN Words(p) = 1 .. sec.paras[p]
             /\ \A i \in 1 .. sec.paras[p] : Words(p)[i] = <<p, i>>
  <2>1. sec.paras[p] \in Nat \ {0} /\ p \in Nat
    BY <1>1
  <2> DEFINE m == sec.paras[p]
             w == [i \in 1 .. m |-> <<p, i>>]
  <2>2. m \in Nat \ {0} /\ Words(p) = w
    BY <2>1, Zenon
  <2> HIDE DEF m
  <2>3. /\ w \in [1 .. m -> Nat \X Nat] /\ DOMAIN w = 1 .. m
        /\ \A i \in 1 .. m : w[i] = <<p, i>>
    BY <2>1, <2>2
  <2> HIDE DEF w
  <2>4. w \in Seq(Nat \X Nat) /\ Len(w) = m
    BY <2>2, <2>3
  <2>5. w # <<>>
    BY <2>2, <2>4
  <2> HIDE DEF Words
  <2>6. QED
    BY <2>2, <2>3, <2>4, <2>5, Zenon DEF m
<1>3. Paragraphs(sec) = [p \in 1 .. n |-> Words(p)]
  BY <1>1, Zenon DEF Paragraphs
<1> HIDE DEF n, Words
<1>4. /\ Paragraphs(sec) \in Seq(Seq(Nat \X Nat)) /\ DOMAIN Paragraphs(sec) = 1 .. n
      /\ \A p \in 1 .. n : Paragraphs(sec)[p] = Words(p)
  BY <1>1, <1>2, <1>3
<1>5. ASSUME NEW p \in 1 .. n, NEW chunk, DOMAIN chunk = 1 .. Len(chunk),
             Within(Words(p), chunk), NEW i \in 1 .. sec.paras[p]
      PROVE  Contains(chunk, <<p, i>>)
  BY <1>2, <1>5, Zenon DEF Within, Contains
<1>6. QED
  BY <1>1, <1>2, <1>4, <1>5, Zenon

\* Every section of a document that leaves room for a word besides its heading
\* becomes chunks within the limit that keep its words in order, and no paragraph
\* that fits is cut - whatever its length and the length of its paragraphs.
THEOREM SectionsFit ==
    ASSUME NEW sec \in [heading : Nat, paras : Seq(Nat \ {0})]
    PROVE  SectionFits(sec)
<1> DEFINE W == Nat \X Nat
           ps == Paragraphs(sec)
           chunks == ChunkSection(sec)
           budget == Budget(sec)
<1>1. SUFFICES ASSUME budget > 0
               PROVE  /\ \A c \in DOMAIN chunks : WordCount(sec, chunks[c]) <= ChunkMaxWords
                      /\ FlattenSeq(chunks) = Body(sec)
                      /\ \A p \in DOMAIN sec.paras : sec.paras[p] <= budget =>
                            \E c \in DOMAIN chunks :
                                \A i \in 1 .. sec.paras[p] : Contains(chunks[c], <<p, i>>)
  BY DEF SectionFits
<1>2. /\ sec.heading \in Nat /\ ps \in Seq(Seq(W)) /\ DOMAIN ps = DOMAIN sec.paras
      /\ \A p \in DOMAIN sec.paras :
            /\ Len(ps[p]) = sec.paras[p] /\ ps[p] # <<>>
            /\ \A chunk : DOMAIN chunk = 1 .. Len(chunk) /\ Within(ps[p], chunk) =>
                  \A i \in 1 .. sec.paras[p] : Contains(chunk, <<p, i>>)
  BY ParagraphWords
<1>3. Body(sec) = FlattenSeq(ps) /\ Body(sec) \in Seq(W)
  BY <1>2, FlattenType DEF Body
<1>4. Overhead(sec) \in Nat /\ budget = ChunkMaxWords - Overhead(sec) /\ budget \in Nat \ {0}
  BY <1>1, <1>2, ChunkAssumption DEF Overhead, Budget
<1> HIDE DEF W, ps, budget
<1>5. ASSUME chunks \in Seq(Seq(W)), \A c \in DOMAIN chunks : Len(chunks[c]) <= budget,
             \A p \in DOMAIN ps : Len(ps[p]) <= budget => \E c \in DOMAIN chunks : Within(ps[p], chunks[c])
      PROVE  /\ \A c \in DOMAIN chunks : WordCount(sec, chunks[c]) <= ChunkMaxWords
             /\ \A p \in DOMAIN sec.paras : sec.paras[p] <= budget =>
                   \E c \in DOMAIN chunks :
                       \A i \in 1 .. sec.paras[p] : Contains(chunks[c], <<p, i>>)
  <2> HIDE DEF chunks
  <2>1. \A c \in DOMAIN chunks : Len(chunks[c]) \in Nat /\ DOMAIN chunks[c] = 1 .. Len(chunks[c])
    BY <1>5
  <2>2. \A c \in DOMAIN chunks : WordCount(sec, chunks[c]) <= ChunkMaxWords
    BY <1>4, <1>5, <2>1, ChunkAssumption DEF WordCount
  <2>3. ASSUME NEW p \in DOMAIN sec.paras, sec.paras[p] <= budget
        PROVE  \E c \in DOMAIN chunks : \A i \in 1 .. sec.paras[p] : Contains(chunks[c], <<p, i>>)
    <3>1. PICK c \in DOMAIN chunks : Within(ps[p], chunks[c])
      BY <1>2, <1>5, <2>3, Zenon
    <3>2. QED
      BY <1>2, <2>1, <3>1, Zenon
  <2>4. QED
    BY <2>2, <2>3
<1>6. CASE WordCount(sec, Body(sec)) <= ChunkMaxWords
  <2>1. chunks = <<Body(sec)>>
    BY <1>6, Zenon DEF ChunkSection
  <2>2. /\ <<Body(sec)>> \in Seq(Seq(W)) /\ DOMAIN <<Body(sec)>> = {1} /\ <<Body(sec)>>[1] = Body(sec)
    BY <1>3
  <2>3. FlattenSeq(<<Body(sec)>>) = Body(sec)
    BY <1>3, FlattenOne
  <2>4. FlattenSeq(chunks) = Body(sec)
    BY <2>1, <2>3, Zenon
  <2>5. Len(Body(sec)) <= budget
    BY <1>3, <1>4, <1>6, ChunkAssumption DEF WordCount
  <2>6. \A p \in DOMAIN ps : Within(ps[p], Body(sec))
    BY <1>2, <1>3, FlattenHolds
  <2> HIDE DEF chunks
  <2>7. /\ chunks \in Seq(Seq(W)) /\ 1 \in DOMAIN chunks /\ chunks[1] = Body(sec)
        /\ \A c \in DOMAIN chunks : Len(chunks[c]) <= budget
    BY <2>1, <2>2, <2>5
  <2>8. \A p \in DOMAIN ps : \E c \in DOMAIN chunks : Within(ps[p], chunks[c])
    BY <2>6, <2>7, Zenon
  <2>9. QED
    BY <1>5, <2>4, <2>7, <2>8, Zenon DEF chunks
<1>7. CASE ~(WordCount(sec, Body(sec)) <= ChunkMaxWords)
  <2> DEFINE cut == SplitOversized(ps, budget)
  <2>1. chunks = Grouped(cut, budget)
    BY <1>7, Zenon DEF ChunkSection, ps, budget
  <2>2. /\ cut \in Seq(Seq(W)) /\ \A i \in DOMAIN cut : Len(cut[i]) <= budget
        /\ FlattenSeq(cut) = FlattenSeq(ps)
        /\ \A p \in DOMAIN ps : Len(ps[p]) <= budget => \E i \in DOMAIN cut : cut[i] = ps[p]
    <3>1. ps \in Seq(Seq(W)) /\ budget \in Nat \ {0}
      BY <1>2, <1>4, Zenon
    <3> HIDE DEF cut
    <3>2. SplitOversized(ps, budget) \in Seq(Seq(W)) /\ CutFits(ps, SplitOversized(ps, budget), budget)
      BY <3>1, SplitFits, Zenon
    <3>3. QED
      BY <3>2, Zenon DEF CutFits, cut
  <2> HIDE DEF cut
  <2>3. /\ chunks \in Seq(Seq(W)) /\ \A c \in DOMAIN chunks : Len(chunks[c]) <= budget
        /\ FlattenSeq(chunks) = FlattenSeq(cut)
        /\ \A i \in DOMAIN cut : cut[i] # <<>> =>
               \E c \in DOMAIN chunks : Within(cut[i], chunks[c])
    <3> HIDE DEF chunks
    <3>1. QED
      BY <1>4, <2>1, <2>2, GroupedFits
  <2> HIDE DEF chunks
  <2>4. \A p \in DOMAIN ps : Len(ps[p]) <= budget => \E c \in DOMAIN chunks : Within(ps[p], chunks[c])
    BY <1>2, <2>2, <2>3, Zenon
  <2>5. QED
    BY <1>3, <1>5, <2>2, <2>3, <2>4, Zenon DEF chunks
<1>8. QED
  BY <1>6, <1>7

\* So every section the documents of a knowledge base are written from fits, and
\* whatever is loaded was cut from such sections.
THEOREM LoadedChunksFit == SearchSpec => []ChunksFit
<1>1. ChunksFit
  BY SectionsFit, ChunkAssumption DEF ChunksFit, EverySectionFits
<1> QED
  BY <1>1, PTL
=============================================================================
