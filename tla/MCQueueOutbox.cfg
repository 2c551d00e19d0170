SPECIFICATION LiveSpec
CONSTANTS
    Dispatchers = {d1, d2}
    NumEvents <- MCNumEvents
    Batch <- MCBatch
    Lease <- MCLease
    MaxAttempts <- MCMaxAttempts
    MaxFaults <- MCMaxFaults
    Nobody = Nobody
INVARIANTS ClaimExclusive SettledWithCause
PROPERTIES SettledIsFinal EventuallySettled
