------------------------ MODULE DecisionLedgerProofs ------------------------
(***************************************************************************)
(* Theorems about the decisions table, for any snapshots, answers of the   *)
(* team, reviewers and limits: what is in the table has its type, a review *)
(* that was acknowledged stands, and a batch's summary counts only rows    *)
(* that are durable.                                                       *)
(***************************************************************************)
EXTENDS DecisionLedger, SequenceTheorems, TLAPS

\* A batch that has a trace or a score to write has inserted a row.
RowToAnnotate == pc \in {"trace", "score"} => decisions # <<>>

LedgerInv ==
    /\ TypeOK
    /\ RowToAnnotate
    /\ RecordedReviewStands

\* What the batch does to the table: rows are added, and of the old ones nothing
\* is touched that a reviewer wrote.
BatchRows ==
    /\ decisions' \in Seq(DecisionRow)
    /\ Ids \subseteq Ids'
    /\ decisions # <<>> => decisions' # <<>>
    /\ \A d \in Ids :
          /\ decisions'[d].verdict = decisions[d].verdict
          /\ decisions'[d].reviewer = decisions[d].reviewer

-----------------------------------------------------------------------------
(* Rows. *)

LEMMA NewRowType ==
    ASSUME NEW s \in Snapshots, NEW res \in Result
    PROVE  NewRow(s, res) \in DecisionRow
BY DEF NewRow, DecisionRow, Tier, Result, Nobody

LEMMA CorrectType ==
    ASSUME NEW s, NEW res
    PROVE  Correct(res, s) \in {"null", "right", "wrong"}
BY DEF Correct

\* A row is appended: the others keep their places.
LEMMA AppendedRow ==
    ASSUME decisions \in Seq(DecisionRow), NEW row \in DecisionRow,
           decisions' = Append(decisions, row)
    PROVE  /\ decisions' \in Seq(DecisionRow)
           /\ Ids' = Ids \cup {Last + 1}
           /\ decisions' # <<>>
           /\ \A d \in Ids : decisions'[d] = decisions[d]
           /\ decisions'[Last + 1] = row
BY DEF Ids, Last

\* A row is annotated; a place that is not one of the table's changes nothing.
LEMMA AnnotatedRow ==
    ASSUME decisions \in Seq(DecisionRow), NEW d, NEW row,
           d \in Ids => row \in DecisionRow, Annotate(d, row)
    PROVE  /\ decisions' \in Seq(DecisionRow)
           /\ Ids' = Ids
           /\ decisions # <<>> => decisions' # <<>>
           /\ \A e \in Ids : decisions'[e] = IF e = d THEN row ELSE decisions[e]
<1>1. /\ Ids' = Ids
      /\ \A e \in Ids : decisions'[e] = IF e = d THEN row ELSE decisions[e]
  BY DEF Annotate, Ids
<1>2. decisions' \in Seq(DecisionRow)
  <2>1. CASE d \in Ids
    BY <2>1, ExceptSeq DEF Annotate, Ids
  <2>2. CASE d \notin Ids
    <3>1. decisions' = decisions
      BY <2>2 DEF Annotate, Ids
    <3> QED
      BY <3>1
  <2> QED
    BY <2>1, <2>2
<1>3. decisions # <<>> => decisions' # <<>>
  BY <1>1, <1>2 DEF Ids
<1> QED
  BY <1>1, <1>2, <1>3

\* Annotating a row with a trace or a score leaves the rest of it alone.
LEMMA AnnotationType ==
    ASSUME NEW old \in DecisionRow, NEW b \in BOOLEAN,
           NEW c \in {"unscored", "null", "right", "wrong"}
    PROVE  \A row \in {[old EXCEPT !.traced = b], [old EXCEPT !.correct = c]} :
              /\ row \in DecisionRow
              /\ row.verdict = old.verdict /\ row.reviewer = old.reviewer
<1> DEFINE Verdicts == Outcomes \cup {"none"}
           Names == Reviewers \cup {Nobody}
           Tiers == {"AUTO_APPROVE", "NOTIFY_ONLY", "SUGGEST"}
           Scores == {"unscored", "null", "right", "wrong"}
<1>1. DecisionRow = [snapshot : Snapshots, result : Result, tier : Tiers, traced : BOOLEAN,
                     correct : Scores, verdict : Verdicts, reviewer : Names]
  BY DEF DecisionRow
<1>2. b \in BOOLEAN /\ c \in Scores
  OBVIOUS
<1> HIDE DEF Verdicts, Names, Tiers, Scores
<1> QED
  BY <1>1, <1>2

LEMMA InsertRows ==
    ASSUME TypeOK, Insert
    PROVE  BatchRows /\ decisions' # <<>>
<1>1. PICK s \in current : decisions' = Append(decisions, NewRow(s, result))
  BY DEF Insert
<1>2. NewRow(s, result) \in DecisionRow
  BY NewRowType DEF TypeOK
<1> QED
  BY <1>1, <1>2, AppendedRow DEF BatchRows, TypeOK

LEMMA TracedRows ==
    ASSUME TypeOK, Traced
    PROVE  BatchRows
<1> DEFINE row == [decisions[Last] EXCEPT !.traced = TRUE]
<1>1. decisions \in Seq(DecisionRow) /\ Annotate(Last, row)
  BY DEF TypeOK, Traced
<1>2. Last \in Ids => decisions[Last] \in DecisionRow
  BY <1>1 DEF Ids
<1>3. Last \in Ids => /\ row \in DecisionRow
                      /\ row.verdict = decisions[Last].verdict
                      /\ row.reviewer = decisions[Last].reviewer
  BY <1>2, AnnotationType
<1> HIDE DEF row
<1> QED
  BY <1>1, <1>3, AnnotatedRow DEF BatchRows

LEMMA ScoredRows ==
    ASSUME TypeOK, Scored
    PROVE  BatchRows
<1>1. PICK s \in current :
         Annotate(Last, [decisions[Last] EXCEPT !.correct = Correct(result, s)])
  BY DEF Scored
<1> DEFINE c == Correct(result, s)
           row == [decisions[Last] EXCEPT !.correct = c]
<1>2. c \in {"unscored", "null", "right", "wrong"}
  BY CorrectType
<1>3. Last \in Ids => decisions[Last] \in DecisionRow
  BY DEF TypeOK, Ids
<1>4. Last \in Ids => /\ row \in DecisionRow
                      /\ row.verdict = decisions[Last].verdict
                      /\ row.reviewer = decisions[Last].reviewer
  <2> HIDE DEF c
  <2> QED
    BY <1>2, <1>3, AnnotationType
<1>5. decisions \in Seq(DecisionRow) /\ Annotate(Last, row)
  BY <1>1 DEF TypeOK
<1> HIDE DEF c, row
<1> QED
  BY <1>4, <1>5, AnnotatedRow DEF BatchRows

LEMMA UnchangedRows ==
    ASSUME TypeOK, UNCHANGED decisions
    PROVE  BatchRows
BY DEF BatchRows, TypeOK, Ids

LEMMA RaisesRows ==
    ASSUME TypeOK, Raises
    PROVE  BatchRows
BY InsertRows, TracedRows, ScoredRows, UnchangedRows DEF Raises

-----------------------------------------------------------------------------
(* Steps of the batch. *)

\* No step of the batch touches what the reviewers rely on.
LEMMA BatchKeepsReviews ==
    ASSUME LedgerInv, BatchRows, UNCHANGED review
    PROVE  RecordedReviewStands'
<1>1. inbox' = inbox /\ answers' = answers
  BY DEF review
<1>2. \A r \in Reviewers : inbox[r] \subseteq Ids /\ answers[r] \subseteq Ids \X Outcomes
  BY DEF LedgerInv, TypeOK
<1> QED
  BY <1>1, <1>2 DEF RecordedReviewStands, BatchRows, LedgerInv

\* The types of what is indexed by the table, which only grows.
LEMMA BatchKeepsTypes ==
    ASSUME TypeOK, BatchRows, UNCHANGED review
    PROVE  /\ decisions' \in Seq(DecisionRow)
           /\ results \subseteq Ids'
           /\ inbox' \in [Reviewers -> SUBSET Ids']
           /\ answers' \in [Reviewers -> SUBSET (Ids' \X Outcomes)]
BY DEF TypeOK, BatchRows, review

LEMMA BatchStep ==
    ASSUME LedgerInv,
           FetchSample \/ Evaluate \/ Persist \/ WriteTrace \/ RecordScores
             \/ Abort \/ Summary \/ Die
    PROVE  LedgerInv'
<1>1. CASE FetchSample
  <2>1. BatchRows /\ UNCHANGED review
    BY <1>1, UnchangedRows DEF FetchSample, LedgerInv
  <2>2. todo' \subseteq Snapshots
    BY <1>1, LedgerAssumption DEF FetchSample, Stratum
  <2>3. TypeOK'
    BY <1>1, <2>1, <2>2, BatchKeepsTypes, LedgerAssumption DEF FetchSample, TypeOK, LedgerInv
  <2> QED
    BY <1>1, <2>1, <2>3, BatchKeepsReviews DEF LedgerInv, RowToAnnotate, FetchSample
<1>2. CASE Evaluate
  <2>1. BatchRows /\ UNCHANGED review
    BY <1>2, UnchangedRows DEF Evaluate, LedgerInv
  <2>2. TypeOK'
    BY <1>2, <2>1, BatchKeepsTypes, LedgerAssumption DEF Evaluate, TypeOK, LedgerInv
  <2> QED
    BY <1>2, <2>1, <2>2, BatchKeepsReviews DEF LedgerInv, RowToAnnotate, Evaluate
<1>3. CASE Persist
  <2>1. BatchRows /\ UNCHANGED review /\ decisions' # <<>>
    BY <1>3, InsertRows DEF Persist, LedgerInv
  <2>2. TypeOK'
    BY <1>3, <2>1, BatchKeepsTypes DEF Persist, TypeOK, LedgerInv
  <2> QED
    BY <1>3, <2>1, <2>2, BatchKeepsReviews DEF LedgerInv, RowToAnnotate
<1>4. CASE WriteTrace
  <2>1. BatchRows /\ UNCHANGED review
    BY <1>4, TracedRows DEF WriteTrace, LedgerInv
  <2>2. TypeOK'
    BY <1>4, <2>1, BatchKeepsTypes DEF WriteTrace, TypeOK, LedgerInv
  <2>3. decisions' # <<>>
    BY <1>4, <2>1 DEF WriteTrace, BatchRows, LedgerInv, RowToAnnotate
  <2> QED
    BY <2>1, <2>2, <2>3, BatchKeepsReviews DEF LedgerInv, RowToAnnotate
<1>5. CASE RecordScores
  <2>1. BatchRows /\ UNCHANGED review
    BY <1>5, ScoredRows DEF RecordScores, LedgerInv
  <2>2. Last \in Ids /\ Ids \subseteq Ids'
    BY <1>5, <2>1 DEF RecordScores, LedgerInv, RowToAnnotate, TypeOK, Last, Ids, BatchRows
  <2>3. TypeOK'
    BY <1>5, <2>1, <2>2, BatchKeepsTypes DEF RecordScores, TypeOK, LedgerInv
  <2> QED
    BY <1>5, <2>1, <2>3, BatchKeepsReviews DEF LedgerInv, RowToAnnotate, RecordScores
<1>6. CASE Abort
  <2>1. BatchRows /\ UNCHANGED review
    BY <1>6, RaisesRows DEF Abort, LedgerInv
  <2>2. TypeOK'
    BY <1>6, <2>1, BatchKeepsTypes DEF Abort, TypeOK, LedgerInv
  <2> QED
    BY <1>6, <2>1, <2>2, BatchKeepsReviews DEF LedgerInv, RowToAnnotate, Abort
<1>7. CASE Summary
  <2>1. BatchRows /\ UNCHANGED review
    BY <1>7, UnchangedRows DEF Summary, LedgerInv
  <2>2. TypeOK'
    BY <1>7, <2>1, BatchKeepsTypes DEF Summary, TypeOK, LedgerInv, NoResult, Result
  <2> QED
    BY <1>7, <2>1, <2>2, BatchKeepsReviews DEF LedgerInv, RowToAnnotate, Summary
<1>8. CASE Die
  <2>1. BatchRows /\ UNCHANGED review
    BY <1>8, UnchangedRows DEF Die, LedgerInv
  <2>2. TypeOK'
    BY <1>8, <2>1, BatchKeepsTypes DEF Die, TypeOK, LedgerInv, NoResult, Result
  <2> QED
    BY <1>8, <2>1, <2>2, BatchKeepsReviews DEF LedgerInv, RowToAnnotate, Die
<1> QED
  BY <1>1, <1>2, <1>3, <1>4, <1>5, <1>6, <1>7, <1>8

-----------------------------------------------------------------------------
(* Steps of the reviewers. *)

\* The UPDATE gives a row without a verdict its verdict and its reviewer;
\* nobody was told of a review of that row.
LEMMA UpdatedRow ==
    ASSUME LedgerInv, NEW r \in Reviewers, NEW d \in Ids, NEW o \in Outcomes,
           Matches(d), Update(d, r, o)
    PROVE  /\ decisions' \in Seq(DecisionRow)
           /\ Ids' = Ids /\ d \in Ids
           /\ decisions # <<>> => decisions' # <<>>
           /\ decisions'[d].verdict = o /\ decisions'[d].reviewer = r
           /\ \A q \in Reviewers : \A a \in answers[q] :
                 decisions'[a[1]].verdict = a[2] /\ decisions'[a[1]].reviewer = q
<1> DEFINE row == [decisions[d] EXCEPT !.verdict = o, !.reviewer = r]
<1>1. d \in Ids /\ decisions[d] \in DecisionRow /\ decisions[d].verdict = "none"
  BY DEF Matches, LedgerInv, TypeOK, Ids
<1>2. /\ row \in DecisionRow
      /\ row.verdict = o /\ row.reviewer = r
  BY <1>1 DEF DecisionRow
<1>3. /\ decisions' \in Seq(DecisionRow)
      /\ Ids' = Ids
      /\ decisions # <<>> => decisions' # <<>>
      /\ \A e \in Ids : decisions'[e] = IF e = d THEN row ELSE decisions[e]
  BY <1>2, AnnotatedRow DEF Update, LedgerInv, TypeOK
<1>5. \A q \in Reviewers : \A a \in answers[q] :
         /\ a[1] \in Ids /\ a[2] # "none"
         /\ decisions[a[1]].verdict = a[2] /\ decisions[a[1]].reviewer = q
  BY LedgerAssumption DEF LedgerInv, TypeOK, RecordedReviewStands
<1>6. \A q \in Reviewers : \A a \in answers[q] :
         decisions'[a[1]].verdict = a[2] /\ decisions'[a[1]].reviewer = q
  BY <1>1, <1>3, <1>5
<1> QED
  BY <1>1, <1>2, <1>3, <1>6

LEMMA ReviewStep ==
    ASSUME LedgerInv, NEW r \in Reviewers,
           \/ PendingReviews(r)
           \/ \E d \in Ids :
                 \/ \E o \in Outcomes : RecordReview(r, d, o) \/ RecordReviewRaises(r, d, o)
                 \/ ReviewConflict(r, d)
    PROVE  LedgerInv'
<1>1. CASE PendingReviews(r)
  <2> DEFINE read == {d \in Pending : Cardinality({e \in Pending : e < d}) < InboxLimit}
  <2>1. /\ inbox' = [inbox EXCEPT ![r] = read]
        /\ UNCHANGED <<decisions, batch, answers>>
    BY <1>1 DEF PendingReviews
  <2>2. read \subseteq Ids
    BY DEF Pending
  <2>3. /\ inbox' \in [Reviewers -> SUBSET Ids]
        /\ \A q \in Reviewers : inbox'[q] = IF q = r THEN read ELSE inbox[q]
    BY <2>1, <2>2 DEF LedgerInv, TypeOK
  <2>4. TypeOK' /\ RowToAnnotate'
    BY <2>1, <2>3 DEF LedgerInv, TypeOK, RowToAnnotate, batch, Ids
  <2> QED
    BY <2>1, <2>4 DEF LedgerInv, RecordedReviewStands, Ids
<1>2. ASSUME NEW d \in Ids, NEW o \in Outcomes, RecordReview(r, d, o)
      PROVE  LedgerInv'
  <2>1. /\ Matches(d) /\ Update(d, r, o)
        /\ inbox' = [inbox EXCEPT ![r] = @ \ {d}]
        /\ answers' = [answers EXCEPT ![r] = @ \cup {<<d, o>>}]
        /\ UNCHANGED batch
    BY <1>2 DEF RecordReview
  <2>2. /\ decisions' \in Seq(DecisionRow)
        /\ Ids' = Ids /\ d \in Ids
        /\ decisions # <<>> => decisions' # <<>>
        /\ decisions'[d].verdict = o /\ decisions'[d].reviewer = r
        /\ \A q \in Reviewers : \A a \in answers[q] :
              decisions'[a[1]].verdict = a[2] /\ decisions'[a[1]].reviewer = q
    BY <2>1, UpdatedRow
  <2>3. /\ \A q \in Reviewers : inbox'[q] \subseteq inbox[q]
        /\ inbox' \in [Reviewers -> SUBSET Ids]
    BY <2>1 DEF LedgerInv, TypeOK
  <2>4. /\ \A q \in Reviewers : \A a \in answers'[q] :
              a \in answers[q] \/ (q = r /\ a = <<d, o>>)
        /\ answers' \in [Reviewers -> SUBSET (Ids \X Outcomes)]
    BY <2>1, <2>2 DEF LedgerInv, TypeOK
  <2>5. TypeOK' /\ RowToAnnotate'
    BY <2>1, <2>2, <2>3, <2>4 DEF LedgerInv, TypeOK, RowToAnnotate, batch
  <2>6. RecordedReviewStands'
    BY <2>2, <2>4 DEF RecordedReviewStands
  <2> QED
    BY <2>2, <2>5, <2>6 DEF LedgerInv
<1>3. ASSUME NEW d \in Ids, NEW o \in Outcomes, RecordReviewRaises(r, d, o)
      PROVE  LedgerInv'
  <2>1. /\ Matches(d) /\ Update(d, r, o)
        /\ UNCHANGED <<batch, review>>
    BY <1>3 DEF RecordReviewRaises
  <2>2. /\ decisions' \in Seq(DecisionRow)
        /\ Ids' = Ids
        /\ decisions # <<>> => decisions' # <<>>
        /\ \A q \in Reviewers : \A a \in answers[q] :
              decisions'[a[1]].verdict = a[2] /\ decisions'[a[1]].reviewer = q
    BY <2>1, UpdatedRow
  <2>3. TypeOK' /\ RowToAnnotate'
    BY <2>1, <2>2 DEF LedgerInv, TypeOK, RowToAnnotate, batch, review
  <2>4. RecordedReviewStands'
    BY <2>1, <2>2 DEF RecordedReviewStands, review
  <2> QED
    BY <2>2, <2>3, <2>4 DEF LedgerInv
<1>4. ASSUME NEW d \in Ids, ReviewConflict(r, d)
      PROVE  LedgerInv'
  <2>1. /\ inbox' = [inbox EXCEPT ![r] = @ \ {d}]
        /\ UNCHANGED <<decisions, batch, answers>>
    BY <1>4 DEF ReviewConflict
  <2>2. /\ \A q \in Reviewers : inbox'[q] \subseteq inbox[q]
        /\ inbox' \in [Reviewers -> SUBSET Ids]
    BY <2>1 DEF LedgerInv, TypeOK
  <2>3. TypeOK' /\ RowToAnnotate'
    BY <2>1, <2>2 DEF LedgerInv, TypeOK, RowToAnnotate, batch, Ids
  <2> QED
    BY <2>1, <2>3 DEF LedgerInv, RecordedReviewStands, Ids
<1> QED
  BY <1>1, <1>2, <1>3, <1>4

-----------------------------------------------------------------------------

LEMMA InitLedger == Init => LedgerInv
<1> SUFFICES ASSUME Init PROVE LedgerInv
  OBVIOUS
<1>1. Ids = {}
  BY DEF Init, Ids
<1>2. TypeOK
  BY <1>1, LedgerAssumption DEF TypeOK, Init, NoResult, Result
<1> QED
  BY <1>1, <1>2 DEF LedgerInv, Init, RowToAnnotate, RecordedReviewStands

\* The table, what the batch holds and what the reviewers hold keep their types
\* and a reviewer's acknowledged verdict stays the row's verdict.
THEOREM LedgerInvariant == Spec => []LedgerInv
<1>1. LedgerInv /\ [Next]_vars => LedgerInv'
  <2> SUFFICES ASSUME LedgerInv, [Next]_vars PROVE LedgerInv'
    OBVIOUS
  <2>1. CASE UNCHANGED vars
    BY <2>1 DEF vars, batch, review, LedgerInv, TypeOK, RowToAnnotate,
       RecordedReviewStands, Ids
  <2>2. CASE FetchSample \/ Evaluate \/ Persist \/ WriteTrace \/ RecordScores
               \/ Abort \/ Summary \/ Die
    BY <2>2, BatchStep
  <2>3. CASE \E r \in Reviewers :
               \/ PendingReviews(r)
               \/ \E d \in Ids :
                     \/ \E o \in Outcomes :
                           RecordReview(r, d, o) \/ RecordReviewRaises(r, d, o)
                     \/ ReviewConflict(r, d)
    BY <2>3, ReviewStep
  <2> QED
    BY <2>1, <2>2, <2>3 DEF Next
<1> QED
  BY <1>1, InitLedger, PTL DEF Spec

\* Every variable keeps its type; summaries and inboxes name rows of the table.
THEOREM LedgerTypeCorrect == Spec => []TypeOK
<1>1. LedgerInv => TypeOK
  BY DEF LedgerInv
<1> QED
  BY <1>1, LedgerInvariant, PTL

\* A review its reviewer was told is recorded stands (record_review).
THEOREM RecordedStands == Spec => []RecordedReviewStands
<1>1. LedgerInv => RecordedReviewStands
  BY DEF LedgerInv
<1> QED
  BY <1>1, LedgerInvariant, PTL

-----------------------------------------------------------------------------
(* What a summary counts. *)

\* The row under way is the table's last, of the snapshot and the answer the
\* batch holds, and it has its trace when its score is due.
RowUnderWay ==
    /\ pc \in {"persist", "trace", "score"} => \E s \in Snapshots : current = {s}
    /\ pc \in {"trace", "score"} =>
          decisions[Last].snapshot \in current /\ decisions[Last].result = result
    /\ pc = "score" => decisions[Last].traced

SummaryInv == SummaryIsDurable /\ RowUnderWay

ScoreOf(row) == Correct(row.result, row.snapshot)

\* What no step does to a row: its snapshot, answer and trace stay, and its
\* score is what it was or what the row itself gives.
KeptRow(old, new) ==
    /\ new.snapshot = old.snapshot /\ new.result = old.result
    /\ old.traced => new.traced
    /\ new.correct \in {old.correct, ScoreOf(old)}

KeptRows == \A d \in Ids : d \in Ids' /\ KeptRow(decisions[d], decisions'[d])

LEMMA KeptSummary ==
    ASSUME TypeOK, SummaryIsDurable, KeptRows, results' \subseteq results
    PROVE  SummaryIsDurable'
<1> SUFFICES ASSUME NEW d \in results'
             PROVE  Complete(d)' /\ decisions'[d].correct = ScoreOf(decisions'[d])
  BY DEF SummaryIsDurable, ScoreOf
<1>1. d \in results /\ d \in Ids
  BY DEF TypeOK
<1>2. /\ decisions[d].traced
      /\ decisions[d].correct # "unscored" /\ decisions[d].correct = ScoreOf(decisions[d])
  BY <1>1 DEF SummaryIsDurable, Complete, ScoreOf
<1>3. KeptRow(decisions[d], decisions'[d])
  BY <1>1 DEF KeptRows
<1> QED
  BY <1>2, <1>3 DEF KeptRow, ScoreOf, Complete

LEMMA SameRows ==
    ASSUME UNCHANGED decisions
    PROVE  KeptRows
BY DEF KeptRows, KeptRow, Ids

\* Row d is written again.
LEMMA RowWritten ==
    ASSUME TypeOK, NEW d \in Ids, NEW row \in DecisionRow, Annotate(d, row),
           KeptRow(decisions[d], row)
    PROVE  KeptRows /\ Ids' = Ids /\ Last' = Last /\ decisions'[d] = row
<1>1. /\ decisions' \in Seq(DecisionRow)
      /\ Ids' = Ids
      /\ \A e \in Ids : decisions'[e] = IF e = d THEN row ELSE decisions[e]
  BY AnnotatedRow DEF TypeOK
<1>2. Last' = Last
  BY <1>1 DEF Annotate, Ids, Last, TypeOK
<1>3. \A e \in Ids : KeptRow(decisions[e], decisions[e])
  BY DEF KeptRow
<1> QED
  BY <1>1, <1>2, <1>3 DEF KeptRows

LEMMA InsertKeeps ==
    ASSUME TypeOK, RowUnderWay, pc = "persist", Insert
    PROVE  /\ KeptRows
           /\ decisions'[Last'].snapshot \in current /\ decisions'[Last'].result = result
<1>1. PICK s \in current : decisions' = Append(decisions, NewRow(s, result))
  BY DEF Insert
<1>2. NewRow(s, result) \in DecisionRow
  BY NewRowType DEF TypeOK
<1>3. /\ decisions' \in Seq(DecisionRow)
      /\ Ids' = Ids \cup {Last + 1}
      /\ \A d \in Ids : decisions'[d] = decisions[d]
      /\ decisions'[Last + 1] = NewRow(s, result)
  BY <1>1, <1>2, AppendedRow DEF TypeOK
<1>4. Last' = Last + 1
  BY <1>1 DEF Last, TypeOK
<1>5. NewRow(s, result).snapshot = s /\ NewRow(s, result).result = result
  BY DEF NewRow
<1> QED
  BY <1>3, <1>4, <1>5 DEF KeptRows, KeptRow

LEMMA LastIsARow ==
    ASSUME LedgerInv, pc \in {"trace", "score"}
    PROVE  Last \in Ids /\ decisions[Last] \in DecisionRow
BY DEF LedgerInv, TypeOK, RowToAnnotate, Last, Ids

LEMMA TracedKeeps ==
    ASSUME LedgerInv, pc = "trace", Traced
    PROVE  /\ KeptRows /\ Last' = Last
           /\ decisions'[Last].snapshot = decisions[Last].snapshot
           /\ decisions'[Last].result = decisions[Last].result
           /\ decisions'[Last].traced
<1> DEFINE row == [decisions[Last] EXCEPT !.traced = TRUE]
<1>1. Last \in Ids /\ decisions[Last] \in DecisionRow
  BY LastIsARow
<1>2. row \in DecisionRow
  BY <1>1, AnnotationType
<1>3. /\ row.snapshot = decisions[Last].snapshot /\ row.result = decisions[Last].result
      /\ row.correct = decisions[Last].correct
      /\ row.traced
  BY <1>1 DEF DecisionRow
<1>4. Annotate(Last, row) /\ KeptRow(decisions[Last], row)
  BY <1>3 DEF Traced, KeptRow
<1> HIDE DEF row
<1> QED
  BY <1>1, <1>2, <1>3, <1>4, RowWritten DEF LedgerInv

LEMMA ScoredKeeps ==
    ASSUME LedgerInv, RowUnderWay, pc = "score", Scored
    PROVE  /\ KeptRows /\ Last' = Last /\ Last \in Ids
           /\ decisions'[Last].traced
           /\ decisions'[Last].correct = ScoreOf(decisions'[Last])
<1>1. PICK s \in current :
         Annotate(Last, [decisions[Last] EXCEPT !.correct = Correct(result, s)])
  BY DEF Scored
<1> DEFINE c == Correct(result, s)
           row == [decisions[Last] EXCEPT !.correct = c]
<1>2. Last \in Ids /\ decisions[Last] \in DecisionRow
  BY LastIsARow
<1>3. c \in {"unscored", "null", "right", "wrong"}
  BY CorrectType
<1>4. c = ScoreOf(decisions[Last])
  BY DEF RowUnderWay, ScoreOf
<1>5. Annotate(Last, row)
  BY <1>1
<1> HIDE DEF c
<1>6. row \in DecisionRow
  BY <1>2, <1>3, AnnotationType
<1>7. /\ row.snapshot = decisions[Last].snapshot /\ row.result = decisions[Last].result
      /\ row.correct = c /\ row.traced = decisions[Last].traced
  BY <1>2, <1>3 DEF DecisionRow
<1>8. KeptRow(decisions[Last], row)
  BY <1>4, <1>7 DEF KeptRow
<1> HIDE DEF row
<1>9. KeptRows /\ Last' = Last /\ decisions'[Last] = row
  BY <1>2, <1>5, <1>6, <1>8, RowWritten DEF LedgerInv
<1> QED
  BY <1>2, <1>4, <1>7, <1>9 DEF RowUnderWay, ScoreOf

LEMMA RaisesKeeps ==
    ASSUME LedgerInv, RowUnderWay, Raises
    PROVE  KeptRows
BY InsertKeeps, TracedKeeps, ScoredKeeps, SameRows DEF Raises, LedgerInv

LEMMA BatchKeepsSummary ==
    ASSUME LedgerInv, SummaryInv,
           FetchSample \/ Evaluate \/ Persist \/ WriteTrace \/ RecordScores
             \/ Abort \/ Summary \/ Die
    PROVE  SummaryInv'
<1> USE DEF LedgerInv, SummaryInv
<1>1. CASE FetchSample
  <2>1. KeptRows /\ RowUnderWay' /\ results' \subseteq results
    BY <1>1, SameRows DEF FetchSample, RowUnderWay
  <2> QED
    BY <2>1, KeptSummary
<1>2. CASE Evaluate
  <2>1. KeptRows /\ results' \subseteq results /\ pc' = "persist"
    BY <1>2, SameRows DEF Evaluate
  <2>2. \E s \in Snapshots : current' = {s}
    BY <1>2 DEF Evaluate, TypeOK
  <2> QED
    BY <2>1, <2>2, KeptSummary DEF RowUnderWay
<1>3. CASE Persist
  <2>1. /\ pc = "persist" /\ Insert /\ pc' = "trace"
        /\ UNCHANGED <<current, result, results>>
    BY <1>3 DEF Persist
  <2>2. /\ KeptRows
        /\ decisions'[Last'].snapshot \in current /\ decisions'[Last'].result = result
    BY <2>1, InsertKeeps
  <2> QED
    BY <2>1, <2>2, KeptSummary DEF RowUnderWay
<1>4. CASE WriteTrace
  <2>1. /\ pc = "trace" /\ Traced /\ pc' = "score"
        /\ UNCHANGED <<current, result, results>>
    BY <1>4 DEF WriteTrace
  <2>2. /\ KeptRows /\ Last' = Last
        /\ decisions'[Last].snapshot = decisions[Last].snapshot
        /\ decisions'[Last].result = decisions[Last].result
        /\ decisions'[Last].traced
    BY <2>1, TracedKeeps
  <2> QED
    BY <2>1, <2>2, KeptSummary DEF RowUnderWay
<1>5. CASE RecordScores
  <2>1. /\ pc = "score" /\ Scored /\ pc' \in {"summary", "evaluate"}
        /\ results' = results \cup {Last}
    BY <1>5 DEF RecordScores
  <2>2. /\ KeptRows /\ Last' = Last /\ Last \in Ids
        /\ decisions'[Last].traced
        /\ decisions'[Last].correct = ScoreOf(decisions'[Last])
    BY <2>1, ScoredKeeps
  <2>3. ASSUME NEW d \in results
        PROVE  Complete(d)' /\ decisions'[d].correct = ScoreOf(decisions'[d])
    <3>1. d \in Ids /\ KeptRow(decisions[d], decisions'[d])
      BY <2>2 DEF KeptRows, TypeOK
    <3>2. /\ decisions[d].traced
          /\ decisions[d].correct # "unscored" /\ decisions[d].correct = ScoreOf(decisions[d])
      BY DEF SummaryIsDurable, Complete, ScoreOf
    <3> QED
      BY <3>1, <3>2 DEF KeptRow, ScoreOf, Complete
  <2>4. ScoreOf(decisions'[Last]) # "unscored"
    BY CorrectType DEF ScoreOf
  <2> QED
    BY <2>1, <2>2, <2>3, <2>4 DEF SummaryIsDurable, Complete, ScoreOf, RowUnderWay
<1>6. CASE Abort
  <2>1. KeptRows /\ pc' = "summary" /\ results' \subseteq results
    BY <1>6, RaisesKeeps DEF Abort
  <2> QED
    BY <2>1, KeptSummary DEF RowUnderWay
<1>7. CASE Summary
  <2>1. KeptRows /\ pc' = "idle" /\ results' \subseteq results
    BY <1>7, SameRows DEF Summary
  <2> QED
    BY <2>1, KeptSummary DEF RowUnderWay
<1>8. CASE Die
  <2>1. KeptRows /\ pc' = "idle" /\ results' \subseteq results
    BY <1>8, SameRows DEF Die
  <2> QED
    BY <2>1, KeptSummary DEF RowUnderWay
<1> QED
  BY <1>1, <1>2, <1>3, <1>4, <1>5, <1>6, <1>7, <1>8

\* A reviewer writes a verdict and a name, and nothing else of a row.
LEMMA UpdateKeeps ==
    ASSUME LedgerInv, RowUnderWay, NEW d \in Ids, NEW r \in Reviewers, NEW o \in Outcomes,
           Update(d, r, o), UNCHANGED batch
    PROVE  KeptRows /\ RowUnderWay'
<1> DEFINE row == [decisions[d] EXCEPT !.verdict = o, !.reviewer = r]
<1>1. decisions[d] \in DecisionRow
  BY DEF LedgerInv, TypeOK, Ids
<1>2. /\ row \in DecisionRow
      /\ row.snapshot = decisions[d].snapshot /\ row.result = decisions[d].result
      /\ row.traced = decisions[d].traced /\ row.correct = decisions[d].correct
  BY <1>1 DEF DecisionRow
<1>3. Annotate(d, row) /\ KeptRow(decisions[d], row)
  BY <1>2 DEF Update, KeptRow
<1> HIDE DEF row
<1>4. KeptRows /\ Last' = Last
  BY <1>2, <1>3, RowWritten DEF LedgerInv
<1>5. pc \in {"trace", "score"} => KeptRow(decisions[Last], decisions'[Last])
  BY <1>4, LastIsARow DEF KeptRows
<1> QED
  BY <1>4, <1>5 DEF RowUnderWay, KeptRow, batch

LEMMA ReviewKeepsSummary ==
    ASSUME LedgerInv, SummaryInv, NEW r \in Reviewers,
           \/ PendingReviews(r)
           \/ \E d \in Ids :
                 \/ \E o \in Outcomes : RecordReview(r, d, o) \/ RecordReviewRaises(r, d, o)
                 \/ ReviewConflict(r, d)
    PROVE  SummaryInv'
<1>1. results' = results /\ UNCHANGED batch
  BY DEF PendingReviews, RecordReview, RecordReviewRaises, ReviewConflict, batch, review
<1>2. KeptRows /\ RowUnderWay'
  <2>1. CASE UNCHANGED decisions
    BY <1>1, <2>1, SameRows DEF RowUnderWay, SummaryInv, Last, batch
  <2>2. ASSUME NEW d \in Ids, NEW o \in Outcomes,
               RecordReview(r, d, o) \/ RecordReviewRaises(r, d, o)
        PROVE  KeptRows /\ RowUnderWay'
    <3>1. d \in Ids /\ Update(d, r, o)
      BY <2>2 DEF RecordReview, RecordReviewRaises, Matches
    <3> QED
      BY <1>1, <3>1, UpdateKeeps DEF SummaryInv
  <2> QED
    BY <2>1, <2>2 DEF PendingReviews, ReviewConflict
<1> QED
  BY <1>1, <1>2, KeptSummary DEF SummaryInv, LedgerInv

\* What a summary counts is durable: the row, its trace, and the score the row
\* itself gives, whatever raised, died or was reviewed meanwhile.
THEOREM SummaryDurable == Spec => []SummaryIsDurable
<1>1. Init => SummaryInv
  BY DEF Init, SummaryInv, SummaryIsDurable, RowUnderWay
<1>2. LedgerInv /\ SummaryInv /\ [Next]_vars => SummaryInv'
  <2> SUFFICES ASSUME LedgerInv, SummaryInv, [Next]_vars PROVE SummaryInv'
    OBVIOUS
  <2>1. CASE UNCHANGED vars
    <3>1. UNCHANGED <<decisions, pc, current, result, results>>
      BY <2>1 DEF vars, batch
    <3> QED
      BY <3>1 DEF SummaryInv, SummaryIsDurable, RowUnderWay, Complete, Last
  <2>2. CASE Next
    BY <2>2, BatchKeepsSummary, ReviewKeepsSummary DEF Next
  <2> QED
    BY <2>1, <2>2
<1>3. SummaryInv => SummaryIsDurable
  BY DEF SummaryInv
<1> QED
  BY <1>1, <1>2, <1>3, LedgerInvariant, PTL DEF Spec

=============================================================================
