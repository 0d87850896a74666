------------------------------ MODULE SingleAgent ------------------------------
(***************************************************************************)
(* The single agent (agents/single_agent): a model that asks for tools     *)
(* until it is done or the thread has MAX_REASONING_STEPS messages of it,  *)
(* then a decision.  The graph is compiled with a MemorySaver: a thread's  *)
(* messages outlive an evaluation in the process, also one that raised.    *)
(* What a tool finds is the model's business; that it raises is not.       *)
(***************************************************************************)
EXTENDS Naturals, Sequences

CONSTANTS
    Conversations,      \* the thread_id of each evaluate() call of the process
    MaxReasoningSteps   \* config.MAX_REASONING_STEPS

ChatThread == {Conversations[n] : n \in DOMAIN Conversations}

ASSUME AgentAssumption ==
    /\ Conversations \in Seq(ChatThread)
    /\ MaxReasoningSteps \in Nat

VARIABLES
    turn,       \* which evaluate() call is being served
    node,       \* the node of the graph that runs next
    spoken,     \* per thread: its AI messages
    wants,      \* what the model's last message calls: a policy search, other tools
    unanswered, \* per thread: AI messages whose tool calls have no answer
    endings     \* per call: how it ended, and what its thread held then

agentVars == <<turn, node, spoken, wants, unanswered, endings>>

Ongoing == [end |-> "open", spoken |-> 0, unanswered |-> 0]

AgentInit ==
    /\ turn = 0
    /\ node = "idle"
    /\ spoken = [t \in ChatThread |-> 0]
    /\ wants = "nothing"
    /\ unanswered = [t \in ChatThread |-> 0]
    /\ endings = [n \in DOMAIN Conversations |-> Ongoing]

Talking == Conversations[turn]

-----------------------------------------------------------------------------

\* evaluate: the transaction's messages are appended to the thread's.
Evaluate ==
    /\ node = "idle" /\ turn < Len(Conversations)
    /\ turn' = turn + 1
    /\ node' = "agent"
    /\ UNCHANGED <<spoken, wants, unanswered, endings>>

\* Mutated form: the cap is hit one message early.
ShouldContinue_Early(messages, calls) ==
    IF messages + 1 >= MaxReasoningSteps \/ calls = "nothing" THEN "finalize" ELSE "tools"

\* Mutated form: the model alone decides when it is done.
ShouldContinue_NoCap(messages, calls) == IF calls = "nothing" THEN "finalize" ELSE "tools"

\* _should_continue, on the thread's messages with the model's last.
ShouldContinue(messages, calls) ==
    IF messages >= MaxReasoningSteps \/ calls = "nothing" THEN "finalize" ELSE "tools"

\* Messages are told apart up to one more than the cap.
OneMore(count) == IF count > MaxReasoningSteps THEN count ELSE count + 1

\* _call_model: the model answers, with or without tool calls.
CallModel ==
    /\ node = "agent"
    /\ wants' \in {"nothing", "policy", "other"}
    /\ spoken' = [spoken EXCEPT ![Talking] = OneMore(@)]
    /\ unanswered' = [unanswered EXCEPT ![Talking] = @ + IF wants' = "nothing" THEN 0 ELSE 1]
    /\ node' = ShouldContinue(spoken'[Talking], wants')
    /\ UNCHANGED <<turn, endings>>

\* ToolNode: every call of the message is answered.
UseTools ==
    /\ node = "tools"
    /\ unanswered' = [unanswered EXCEPT ![Talking] = @ - 1]
    /\ node' = "agent"
    /\ UNCHANGED <<turn, spoken, wants, endings>>

EndsAs(end) ==
    /\ node' = "idle"
    /\ wants' = "nothing"
    /\ endings' = [endings EXCEPT ![turn] =
            [end |-> end, spoken |-> spoken[Talking], unanswered |-> unanswered[Talking]]]
    /\ UNCHANGED <<turn, spoken, unanswered>>

Finalize == node = "finalize" /\ EndsAs("decided")

\* The model, a tool or the structured answer raises out of invoke(); the
\* messages of the steps before stay with the thread.
AgentRaises == node \in {"agent", "tools", "finalize"} /\ EndsAs("raised")

-----------------------------------------------------------------------------

Ending == [end : {"open", "decided", "raised"}, spoken : Nat, unanswered : Nat]

AgentTypeOK ==
    /\ turn \in 0 .. Len(Conversations)
    /\ node \in {"idle", "agent", "tools", "finalize"}
    /\ node # "idle" => turn > 0
    /\ spoken \in [ChatThread -> Nat]
    /\ wants \in {"nothing", "policy", "other"}
    /\ unanswered \in [ChatThread -> Nat]
    /\ endings \in [DOMAIN Conversations -> Ending]

\* An earlier evaluation on the thread of the n-th raised.
RaisedBefore(n) ==
    \E k \in 1 .. n - 1 : Conversations[k] = Conversations[n] /\ endings[k].end = "raised"

\* "forces finalize ... even if the LLM still wants to call more tools" is the
\* exception a confused model earns: a decision leaves a tool call without an
\* answer only when its thread is at the cap, or still carries the call of an
\* evaluation that raised and was tried again - on threads used however often.
ToolsAnswered ==
    \A n \in DOMAIN endings :
        endings[n].end = "decided" /\ endings[n].unanswered > 0
            => endings[n].spoken >= MaxReasoningSteps \/ RaisedBefore(n)

\* "Without this, a confused or looping agent could run indefinitely": every
\* evaluation ends, whatever the model wants.
LoopEnds == node # "idle" ~> node = "idle"
=============================================================================
