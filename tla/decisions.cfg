SPECIFICATION Spec
CONSTANTS
    f1 = f1
    l1 = l1
    Snapshots <- AllSnapshots
    Fraud <- FraudSnapshots
    Large <- LargeSnapshots
    Half = 1
    Answers <- TeamAnswers
    Reviewers = {v1, v2}
    Outcomes = {"CONFIRMED", "OVERRIDDEN"}
    InboxLimit = 1
    MaxBatches = 2
    MaxDecisions = 2
CHECK_DEADLOCK FALSE
SYMMETRY ReviewerSymmetry
INVARIANTS RecordedReviewStands SummaryIsDurable
