CONSTANTS
    MaxBatches = 3
    MaxProcesses = 2
    MaxSessions = 2
    MaxCleans = 1
    MaxPending = 2

SPECIFICATION FairSpec

INVARIANTS
    TypeOK
    LinesFollowTheCommitLog
    MissingLinesAreExplained
    LogIsTheWholeHistory

PROPERTIES
    EveryBatchIsReported
