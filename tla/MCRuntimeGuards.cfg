SPECIFICATION MCSpec
CONSTANTS
    Procs = {x1, x2, x3}
    Order <- MCOrder
    Patience = 1
    Circuits <- MCCircuits
    SlowCircuit = "SLOW_CALL"
    MinimumRequests = 1
    ThresholdPercent = 100
    StatisticalWindow = 1
    OpenDuration = 1
    HalfOpenProbes = 2
    HalfOpenSuccesses = 2
    Limit = 2
    RateWindow = 2
    MaxConcurrency = 2
    Toggled = TRUE
    MaxVersion = 2
SYMMETRY MCSymmetry
INVARIANTS MigrationsExclude WaitersHoldNothing
    CountsAreTrue
PROPERTIES OutageNotProlonged
CHECK_DEADLOCK FALSE
