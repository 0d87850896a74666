---------------------------- MODULE DecisionLedger ----------------------------
(***************************************************************************)
(* DECISIONS.FACT_DECISIONS and who writes it: the evaluation batch        *)
(* (observability/eval_runner.py), which has the agent team decide each    *)
(* sampled snapshot, inserts the decision with its governance tier, writes *)
(* its trace and annotates it with its score; and the human reviewers      *)
(* (governance/hitl_handler.py), who work on the queue of held decisions.  *)
(*                                                                         *)
(* A call to Snowflake can raise before or after it took effect.  An       *)
(* answer is sure when its confidence reaches the autonomy floor, and      *)
(* labelled when its pattern, a free string of the model, is one of the    *)
(* known ones; an amount is large over the cap of silent automation.       *)
(***************************************************************************)
EXTENDS Integers, Sequences, FiniteSets

CONSTANTS
    Snapshots,      \* the flagged rows of FACT_FEATURE_SNAPSHOTS
    Fraud,          \* those that are synthetic fraud
    Large,          \* those of a large amount
    Half,           \* half of EVAL_SAMPLE_SIZE
    Answers,        \* what the agent team may answer, among Result
    Reviewers,
    Outcomes,       \* the verdicts in use, among those of the schema's CHECK
    InboxLimit,     \* the limit a reviewer passes to pending_reviews
    MaxBatches,     \* bound: evaluation batches
    MaxDecisions    \* bound: rows of the table

Result == [decision : {"ALLOW", "BLOCK", "ESCALATE"}, sure : BOOLEAN, labelled : BOOLEAN]

ASSUME LedgerAssumption ==
    /\ IsFiniteSet(Snapshots)
    /\ Fraud \subseteq Snapshots /\ Large \subseteq Snapshots
    /\ Half \in Nat \ {0}
    /\ Answers \subseteq Result
    /\ Outcomes \subseteq {"CONFIRMED", "OVERRIDDEN", "ESCALATED"}
    /\ InboxLimit \in Nat
    /\ MaxBatches \in Nat /\ MaxDecisions \in Nat

Nobody == "nobody"
NoResult == [decision |-> "ESCALATE", sure |-> FALSE, labelled |-> FALSE]

DecisionRow ==
    [snapshot : Snapshots, result : Result,
     tier : {"AUTO_APPROVE", "NOTIFY_ONLY", "SUGGEST"},
     traced : BOOLEAN,
     correct : {"unscored", "null", "right", "wrong"},
     verdict : Outcomes \cup {"none"}, reviewer : Reviewers \cup {Nobody}]

VARIABLES
    decisions,  \* the table: a decision_id is a row's place in it
    pc,         \* where the evaluation batch is
    todo,       \* the sampled snapshots it has still to evaluate
    current,    \* the snapshot under evaluation, as a set
    result,     \* what the team decided on it
    results,    \* the decisions of this batch its summary counts
    batches,    \* how many batches were started
    inbox,      \* what each reviewer last read of the queue
    answers     \* history: the reviews each reviewer was told were recorded

batch == <<pc, todo, current, result, results, batches>>
review == <<inbox, answers>>
vars == <<decisions, batch, review>>

Ids == DOMAIN decisions
Last == Len(decisions)

Init ==
    /\ decisions = <<>>
    /\ pc = "idle"
    /\ todo = {} /\ current = {} /\ result = NoResult /\ results = {}
    /\ batches = 0
    /\ inbox = [r \in Reviewers |-> {}]
    /\ answers = [r \in Reviewers |-> {}]

-----------------------------------------------------------------------------
(* Governance. *)

\* assign_tier: the reasons to withhold autonomy come first.
Tier(res, s) ==
    IF res.decision = "ESCALATE" \/ ~res.sure THEN "SUGGEST"
    ELSE IF res.decision = "BLOCK" \/ s \in Large THEN "NOTIFY_ONLY"
    ELSE "AUTO_APPROVE"

\* validate_decision_record; the confidence is in range by DecisionOutput.
Valid(res) == res.labelled

\* outcome_correct: a deferral is neither right nor wrong.
Correct(res, s) ==
    IF res.decision = "ESCALATE" THEN "null"
    ELSE IF (res.decision = "BLOCK") = (s \in Fraud) THEN "right" ELSE "wrong"

NewRow(s, res) ==
    [snapshot |-> s, result |-> res, tier |-> Tier(res, s), traced |-> FALSE,
     correct |-> "unscored", verdict |-> "none", reviewer |-> Nobody]

-----------------------------------------------------------------------------
(* The evaluation batch. *)

Least(m, n) == IF m < n THEN m ELSE n

\* A stratum of the sample: half of it, or all there is.
Stratum(pool) == {S \in SUBSET pool : Cardinality(S) = Least(Half, Cardinality(pool))}

\* fetch_eval_sample; the order of the sample is random, so it is a set.
FetchSample ==
    /\ pc = "idle"
    /\ batches < MaxBatches
    /\ batches' = batches + 1
    /\ \E F \in Stratum(Fraud), L \in Stratum(Snapshots \ Fraud) : todo' = F \cup L
    /\ results' = {}
    /\ pc' = "evaluate"
    /\ UNCHANGED <<decisions, current, result, review>>

\* The orchestrator's answer for the next row.
Evaluate ==
    /\ pc = "evaluate"
    /\ \E s \in todo : todo' = todo \ {s} /\ current' = {s}
    /\ result' \in Answers
    /\ pc' = "persist"
    /\ UNCHANGED <<decisions, results, batches, review>>

Insert ==
    /\ Last < MaxDecisions
    /\ \E s \in current : decisions' = Append(decisions, NewRow(s, result))

\* persist_decision
Persist ==
    /\ pc = "persist"
    /\ Valid(result)
    /\ Insert
    /\ pc' = "trace"
    /\ UNCHANGED <<todo, current, result, results, batches, review>>

Annotate(d, row) == decisions' = [decisions EXCEPT ![d] = row]
Traced == Annotate(Last, [decisions[Last] EXCEPT !.traced = TRUE])
Scored ==
    \E s \in current : Annotate(Last, [decisions[Last] EXCEPT !.correct = Correct(result, s)])

\* Mutated form: the trace is written later, by somebody else.
WriteTrace_Deferred ==
    /\ pc = "trace"
    /\ pc' = "score"
    /\ UNCHANGED <<decisions, todo, current, result, results, batches, review>>

\* write_trace
WriteTrace ==
    /\ pc = "trace"
    /\ Traced
    /\ pc' = "score"
    /\ UNCHANGED <<todo, current, result, results, batches, review>>

\* judge_reasoning never raises; record_scores, and the row of the summary.
RecordScores ==
    /\ pc = "score"
    /\ Scored
    /\ results' = results \cup {Last}
    /\ pc' = IF todo = {} THEN "summary" ELSE "evaluate"
    /\ UNCHANGED <<todo, current, result, batches, review>>

\* The call the batch is at raises, before or after it took effect.
Raises ==
    \/ pc \in {"evaluate", "persist", "trace", "score"} /\ UNCHANGED decisions
    \/ pc = "persist" /\ Valid(result) /\ Insert
    \/ pc = "trace" /\ Traced
    \/ pc = "score" /\ Scored

\* "Stop cleanly": any exception ends the batch, and the summary is printed.
Abort ==
    /\ Raises
    /\ pc' = "summary"
    /\ UNCHANGED <<todo, current, result, results, batches, review>>

\* _print_summary, and the connections are closed.
Summary ==
    /\ pc = "summary"
    /\ pc' = "idle"
    /\ todo' = {} /\ current' = {} /\ result' = NoResult
    /\ UNCHANGED <<decisions, results, batches, review>>

\* The process is killed.
Die ==
    /\ pc # "idle"
    /\ pc' = "idle"
    /\ todo' = {} /\ current' = {} /\ result' = NoResult /\ results' = {}
    /\ UNCHANGED <<decisions, batches, review>>

-----------------------------------------------------------------------------
(* The review queue. *)

Pending == {d \in Ids : decisions[d].tier = "SUGGEST" /\ decisions[d].verdict = "none"}

\* pending_reviews: the oldest first, up to the limit.
PendingReviews(r) ==
    /\ inbox' = [inbox EXCEPT ![r] =
                    {d \in Pending : Cardinality({e \in Pending : e < d}) < InboxLimit}]
    /\ inbox'[r] # inbox[r]
    /\ UNCHANGED <<decisions, batch, answers>>

\* Mutated form: the UPDATE's WHERE clause names the id alone.
Matches_AnyRow(d) == d \in Ids

\* The UPDATE's WHERE clause.
Matches(d) == d \in Ids /\ decisions[d].verdict = "none"

Update(d, r, outcome) ==
    Annotate(d, [decisions[d] EXCEPT !.verdict = outcome, !.reviewer = r])

\* record_review: the row is updated and the reviewer told so, ...  The id is the
\* reviewer's: any decision without a verdict is accepted, queued or not.
RecordReview(r, d, outcome) ==
    /\ Matches(d)
    /\ Update(d, r, outcome)
    /\ inbox' = [inbox EXCEPT ![r] = @ \ {d}]
    /\ answers' = [answers EXCEPT ![r] = @ \cup {<<d, outcome>>}]
    /\ UNCHANGED batch

\* ... or it is updated and the call raises all the same, so that the reviewer
\* still has it to do, ...
RecordReviewRaises(r, d, outcome) ==
    /\ Matches(d)
    /\ Update(d, r, outcome)
    /\ UNCHANGED <<batch, review>>

\* ... or no row matches: ReviewConflict.
ReviewConflict(r, d) ==
    /\ ~Matches(d)
    /\ inbox' = [inbox EXCEPT ![r] = @ \ {d}]
    /\ UNCHANGED <<decisions, batch, answers>>

Next ==
    \/ FetchSample \/ Evaluate \/ Persist \/ WriteTrace \/ RecordScores
    \/ Abort \/ Summary \/ Die
    \/ \E r \in Reviewers :
          \/ PendingReviews(r)
          \/ \E d \in Ids :
                \/ \E o \in Outcomes : RecordReview(r, d, o) \/ RecordReviewRaises(r, d, o)
                \/ ReviewConflict(r, d)

Spec == Init /\ [][Next]_vars

-----------------------------------------------------------------------------
(* Properties. *)

\* Every variable has its type; only rows of the table are in an inbox or
\* counted in a summary.
TypeOK ==
    /\ decisions \in Seq(DecisionRow)
    /\ pc \in {"idle", "evaluate", "persist", "trace", "score", "summary"}
    /\ todo \subseteq Snapshots /\ current \subseteq Snapshots
    /\ result \in Result
    /\ results \subseteq Ids
    /\ batches \in 0 .. MaxBatches
    /\ inbox \in [Reviewers -> SUBSET Ids]
    /\ answers \in [Reviewers -> SUBSET (Ids \X Outcomes)]

\* "The database applies exactly one" (record_review): a review its reviewer was
\* told is recorded is the row's verdict, for ever and whoever else reviews.
RecordedReviewStands ==
    \A r \in Reviewers : \A a \in answers[r] :
        decisions[a[1]].verdict = a[2] /\ decisions[a[1]].reviewer = r

\* "Record a human verdict on a queued decision" (record_review), which nothing
\* checks: the id may be of any decision.
ReviewedWereHeld ==
    \A d \in Ids : decisions[d].verdict # "none" => decisions[d].tier = "SUGGEST"

Complete(d) == decisions[d].traced /\ decisions[d].correct # "unscored"

\* "All decisions, traces, and scores persisted" (_print_summary): what a summary
\* counts has its row, its trace and the score the row itself gives.
SummaryIsDurable ==
    \A d \in results :
        /\ Complete(d)
        /\ decisions[d].correct = Correct(decisions[d].result, decisions[d].snapshot)

\* ReviewConflict tells that "someone else already handled this".
ConflictMeansSomeoneElse ==
    \A r \in Reviewers, d \in Ids :
        d \in inbox[r] /\ ~Matches(d) => decisions[d].reviewer # r
=============================================================================
