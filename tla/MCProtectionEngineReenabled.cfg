SPECIFICATION LiveSpec
CONSTANTS
    Calls = {c1, c2}
    Circuits <- MCFailureCircuit
    SlowCircuit = "SLOW_CALL"
    MinimumRequests = 1
    ThresholdPercent = 100
    StatisticalWindow = 1
    OpenDuration = 1
    HalfOpenProbes = 1
    HalfOpenSuccesses = 1
    Limit = 2
    RateWindow = 2
    MaxConcurrency = 2
    Toggled = TRUE
    MaxVersion = 3
PROPERTIES HalfOpenIsLeft
