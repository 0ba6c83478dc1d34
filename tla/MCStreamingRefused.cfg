CONSTANTS
    NULL = NULL
    Garbage = Garbage
    Texts <- MCTexts
    EmptyText = ""
    TrimLower <- MCTrimLower
    EVENT_TYPES <- MCEventTypes
    Purchase = "purchase"
    PriceLimit = 10
    QuantityLimit = 10
    RevenueLimit = 20
    LastInstant = 120
    TotalLimit = 4
    Rows = {1, 2, 3, 4, 5, 6, 7, 8, 9}
    Files <- RefusedFiles
    FileOf <- RefusedFileOf
    Line <- RefusedLine
    MaxFilesPerTrigger = 2
    MaxCrashes = 2

SPECIFICATION Spec

INVARIANTS
    AcknowledgedBatchesLanded
    RaisingBatchesLeaveNothing
    MetricsMatchEvents
