SPECIFICATION Spec
CONSTANTS
    Trigger = Trigger
    Malformed = Malformed
    NoGuard = NoGuard
    Numbers <- ThreeNumbers
    Plans <- SomePlans
    MaxPlanSteps = 3
CHECK_DEADLOCK FALSE
INVARIANTS FeasibleNeverDangles DataComesFromRuns SkipsHaveACause
