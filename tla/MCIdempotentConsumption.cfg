SPECIFICATION MCSpec
CONSTANTS
    Workers = {w1, w2}
    Keys = {k1}
    Results = {r1, r2}
    NoResult = NoResult
    Tokens = {t1, t2, t3, t4}
    NoToken = NoToken
    Lease <- MCLease
    k1 = k1
    BusWorkers = {w1}
    BusResults = {r1}
    BusTokens = {t1, t2}
    Dispatches = {d1, d2}
    ExportJobs = {j1, j2}
    ExportAttempts = 2
    Requesters = {q1, q2}
    Downloads = {x1}
    None = None
INVARIANTS LeaseExclusive DoneIsCompleted
PROPERTIES KeepsPromise WorkComesToRest
CHECK_DEADLOCK FALSE
