SPECIFICATION Spec
CONSTANTS
    Home = "home"
    Nowhere = "nowhere"
    MaxBatch = 2
    FlushEvery = 2
    FlushMaxRows = 3
    MaxStarts = 3
    Topics <- AllTopics
    Modes <- BothModes
INVARIANTS NoFalseFlagChain
CHECK_DEADLOCK FALSE
