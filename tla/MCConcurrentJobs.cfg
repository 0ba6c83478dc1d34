CONSTANTS
    NULL = NULL
    Garbage = Garbage
    Texts <- MCTexts
    EmptyText = ""
    TrimLower <- MCTrimLower
    EVENT_TYPES <- MCEventTypes
    Purchase = "purchase"
    PriceLimit = 10
    QuantityLimit = 10
    RevenueLimit = 20
    LastInstant = 120
    TotalLimit = 40
    Rows = {1, 2, 3, 4, 5}
    Files <- MCFiles
    FileOf <- MCFileOf
    Line <- MCLine
    MaxFilesPerTrigger = 2
    Jobs = {j1, j2}

SPECIFICATION Spec

SYMMETRY JobSymmetry

INVARIANTS
    TypeOK
    MetricsMatchEvents
    EachIdStoredOnce
    LossTakesAnOverlap
    LeftoverTablesTakeAnOverlap

PROPERTY KeepsThePromise
