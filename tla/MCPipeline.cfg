CONSTANTS
    Runs = {"g1", "g2"}
    MaxBatches = 2
    BatchSize = 1
    SeedOf <- MCSeedOf
    BadRate <- MCBadRate
    RandomAt <- MCRandomAt
    Interval = 2
    Duration <- MCDuration
    Forever = Forever
    Delays = {0}
    StartedAt <- MCStartedAt
    MaxFilesPerTrigger = 2
    MaxCrashes = 1
    MaxCleans = 1

SPECIFICATION FairSpec

INVARIANTS
    TypeOK
    BooksMatchTheDirectory
    ArchivedFilesAreDone
    StaleFilesTakeARestart

PROPERTIES
    KeepsThePromise
    EveryFileIsDoneOrLost
