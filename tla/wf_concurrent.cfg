SPECIFICATION Spec
CONSTANTS
    t1 = t1
    t2 = t2
    p1 = p1
    p2 = p2
    None = None
    Procs <- OneProc
    Threads <- TwoThreads
    Home <- SharedHome
    Ops <- ApiOps
    Workflows = {w1}
    RunIds = {r1, r2, r3}
    NumSteps = 2
    NotifySteps = {2}
    MaxTime = 0
    MaxCrashes = 1
    MaxKey = 2
CHECK_DEADLOCK FALSE
SYMMETRY RunThreadSymmetry
INVARIANTS LogInOrder OutcomeMatchesLog EffectsMatchLog NoStrandedWorkflow StrandedRunIsBlank
    OnlyCheckedPlansRun GateButForTheWindow
PROPERTIES FinishedRunIsFinal
