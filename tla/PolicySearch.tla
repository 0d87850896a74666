----------------------------- MODULE PolicySearch -----------------------------
(***************************************************************************)
(* The single agent beside an ingest of the policies it searches: while    *)
(* the collection is gone get_policy_context raises, and the evaluation    *)
(* with it.                                                                *)
(***************************************************************************)
EXTENDS KnowledgeBase, SingleAgent

searchVars == <<baseVars, agentVars>>

SearchInit == BaseInit /\ AgentInit

\* get_policy_context needs a collection; the other tools do not.
AnswerTools == (wants = "policy" => CanSearch) /\ UseTools

AgentNext == Evaluate \/ CallModel \/ AnswerTools \/ Finalize \/ AgentRaises

SearchNext ==
    \/ BaseNext /\ UNCHANGED agentVars
    \/ AgentNext /\ UNCHANGED baseVars

\* An evaluation under way runs on: a call of it returns or raises.
SearchFairness == WF_searchVars((CallModel \/ AnswerTools \/ Finalize \/ AgentRaises) /\ UNCHANGED baseVars)

SearchSpec == SearchInit /\ [][SearchNext]_searchVars /\ SearchFairness

-----------------------------------------------------------------------------

SearchTypeOK == BaseTypeOK /\ AgentTypeOK
=============================================================================
