SPECIFICATION Spec
CONSTANTS
    t1 = t1
    t2 = t2
    p1 = p1
    p2 = p2
    None = None
    Procs <- OneProc
    Threads <- OneThread
    Home <- SharedHome
    Ops <- ApiOps
    Workflows = {w1}
    RunIds = {r1, r2}
    NumSteps = 1
    NotifySteps = {1}
    MaxTime = 0
    MaxCrashes = 1
    MaxKey = 2
CHECK_DEADLOCK FALSE
INVARIANTS ApprovalGate
