SPECIFICATION FairSpec
CONSTANTS
    t1 = t1
    t2 = t2
    p1 = p1
    p2 = p2
    None = None
    Procs <- TwoProcs
    Threads <- TwoThreads
    Home <- SplitHome
    Ops <- ScheduleOps
    Workflows = {w1}
    RunIds = {r1, r2}
    NumSteps = 1
    NotifySteps = {1}
    MaxTime = 2
    MaxCrashes = 1
    MaxKey = 2
CHECK_DEADLOCK FALSE
PROPERTIES NoDuplicateReport RunningSettles
