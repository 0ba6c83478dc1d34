CONSTANTS
    Runs = {"g1", "g2"}
    MaxBatches = 3
    BatchSize = 2
    SeedOf <- MCSeedOf
    BadRate <- MCSameRate
    RandomAt <- MCRandomAt
    Interval = 2
    Duration <- MCDuration
    Forever = Forever
    Delays = {0, 1, 5}
    StartedAt <- MCStartedAt

SPECIFICATION GeneratorSpec

CHECK_DEADLOCK FALSE

INVARIANTS
    SeedReproducesTheOutput
