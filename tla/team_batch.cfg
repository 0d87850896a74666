\* A batch of evaluations in which one transaction comes twice.
SPECIFICATION FairSpec
CONSTANTS
    t1 = t1
    t2 = t2
    Evaluations <- SampleWithRepeat
    MaxSteps = 6
INVARIANTS GroundedDecision OneDecisionPerThread
PROPERTIES EvaluationEnds
CHECK_DEADLOCK FALSE
