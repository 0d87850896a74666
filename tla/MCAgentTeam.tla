----------------------------- MODULE MCAgentTeam -----------------------------
(***************************************************************************)
(* The instance of AgentTeam: a sample of eval_runner.py that holds one    *)
(* transaction twice with another in between; the cap is the one of        *)
(* config.py.                                                              *)
(***************************************************************************)
EXTENDS AgentTeam

CONSTANTS t1, t2

SampleWithRepeat == <<t1, t2, t1>>
=============================================================================
