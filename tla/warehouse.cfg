\* The schema migrated by two overlapping runners while a loader fills it.
CONSTANTS
    m1 = m1
    m2 = m2
    t1 = t1
    t2 = t2
    Script <- RepositoryScript
    Runners <- TwoRunners
    Txns <- TwoTxns
    Files <- InOrderFiles
SPECIFICATION Spec
SYMMETRY RunnerSymmetry
INVARIANTS
    AppliedUpToN
    ReadersSeeEveryTable
    OneRowPerTransaction
    LatestIsKept
