SPECIFICATION FairSpec
CONSTANTS
    Home = "home"
    Nowhere = "nowhere"
    MaxBatch = 2
    FlushEvery = 2
    FlushMaxRows = 3
    MaxStarts = 3
    Topics <- AllTopics
    Modes <- BothModes
INVARIANTS CommittedRowsKept  OnlineIsNewest NoFalseFlags JumpsAreFlagged
PROPERTIES HistoryCompletes
CHECK_DEADLOCK FALSE
