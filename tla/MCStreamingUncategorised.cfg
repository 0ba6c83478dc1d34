CONSTANTS
    NULL = NULL
    Garbage = Garbage
    Texts <- MCTexts
    EmptyText = ""
    TrimLower <- MCTrimLower
    EVENT_TYPES <- MCEventTypes
    Purchase = "purchase"
    PriceLimit = 10
    QuantityLimit = 10
    RevenueLimit = 20
    LastInstant = 120
    TotalLimit = 40
    Rows = {1, 2, 3, 4, 5, 6, 7}
    Files <- MCFiles
    FileOf <- MCFileOf
    Line <- UncategorisedLine
    MaxFilesPerTrigger = 2
    MaxCrashes = 0

SPECIFICATION FairSpec

PROPERTIES
    UncategorisedEventsAreStored
