SPECIFICATION Spec
CONSTANTS
    u1 = u1
    u2 = u2
    b1 = b1
    b2 = b2
    Users <- TwoUsers
    BurstIds <- OneBurst
    Modes <- BothModes
    MaxAt = 4
    BurstCount = 2
    Ahead = 1
    Span = 1
    Timeout = 1
    NumBackfill = 3
    BatchSize = 2
    MaxTime = 3
    MaxSingles = 1
    WindowLen = 2
    Delay = 3
    Threshold = 1
    MaxOffsets = 2
    MaxStops = 1
SYMMETRY UserSymmetry
CHECK_DEADLOCK FALSE
INVARIANTS OpenWindowsExact FlagIsEarned NoLiveRowIsLate BurstIsSeen BackfillIsWhole
