\* Evaluations that search the policies while an ingest, which may die and start
\* again, replaces them.
CONSTANTS
    i1 = i1
    i2 = i2
    policy = policy
    case = case
    c1 = c1
    ChunkMaxWords = 8
    PrefixWords = 3
    Sections <- SmallSections
    Files <- TwoFiles
    Documents <- SmallDocuments
    Ingests <- OneIngest
    EditBound = 1
    Conversations <- UsedThread
    MaxReasoningSteps = 2
SPECIFICATION SearchSpec
INVARIANTS
    ChunksFit
    CollectionIsAnEdition
    ToolsAnswered
PROPERTY
    LoopEnds
