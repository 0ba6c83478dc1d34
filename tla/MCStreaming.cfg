CONSTANTS
    NULL = NULL
    Garbage = Garbage
    Texts <- MCTexts
    EmptyText = ""
    TrimLower <- MCTrimLower
    EVENT_TYPES <- MCEventTypes
    Purchase = "purchase"
    PriceLimit = 10
    QuantityLimit = 10
    RevenueLimit = 20
    LastInstant = 120
    TotalLimit = 40
    Rows = {1, 2, 3, 4, 5, 6, 7}
    Files <- MCFiles
    FileOf <- MCFileOf
    Line <- MCLine
    MaxFilesPerTrigger = 2
    MaxCrashes = 2

SPECIFICATION FairSpec

INVARIANTS
    TypeOK
    IInv
    MetricsMatchEvents
    EachIdStoredOnce
    AcknowledgedBatchesLanded
    QuarantineCopiesAreReplays
    StagingTablesAreDisposed
    AggregateIsOrderFree

PROPERTIES
    EventsAndMetricsMoveTogether
    ReplayAddsNothing
    KeepsThePromise
    EveryPublishedFileIsDone
