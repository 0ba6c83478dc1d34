CONSTANTS
    NULL = NULL
    Garbage = Garbage
    Texts <- MCTexts
    EmptyText = ""
    TrimLower <- MCTrimLower
    EVENT_TYPES <- MCEventTypes
    Purchase = "purchase"
    PriceLimit = 1000
    QuantityLimit = 8
    RevenueLimit = 2000
    CATEGORIES <- MCCategories
    Inputs <- MCInputs
    Now = 62

SPECIFICATION Spec

INVARIANTS
    TypeOK
    StoredRowsMeetTheDDL
    DefectsAreNamed
    CleanEventsAreStored
    RevenueExactlyForPurchases
    QuarantineKeepsTheCastTexts
