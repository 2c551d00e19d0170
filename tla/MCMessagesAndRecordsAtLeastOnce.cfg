SPECIFICATION MCSpec
CONSTANTS
    Plans = {p1}
    Executors = {w1, w2}
    Nodes = {d1, d2}
    NumRecords = 2
    None = None
    Lease = 1
    Workers = {w1, w2}
    Keys = {k1}
    Results = {r1}
    NoResult = NoResult
    Tokens = {t1, t2, t3}
    NoToken = None
    BusLease = 1
    Consumers <- MCConsumers
    Dispatches = {d1, d2}
    MaxAttempts = 3
    k1 = k1
    LogRecords = {t1, t2, t3}
    Stoppers = {w1, w2}
    Size = 1
SYMMETRY MCSymmetry
INVARIANTS AtLeastOnce
CHECK_DEADLOCK FALSE
