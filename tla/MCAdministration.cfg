SPECIFICATION MCSpec
CONSTANTS
    u1 = u1
    Users = {u1, u2}
    Tokens = {x1, x2}
    Approvals = {a1}
    Calls = {y1, y2}
    Requests <- MCRequests
    None = None
    TokenTtl = 1
    ApprovalTtl = 1
    MinLockTtl = 1
    MaxTime = 1
    Passwords = {1, 2}
    InitialPassword = 1
    HistoryLimit = 1
    MaxFailures = 2
    RecoveryCodes = 1
    MaxRequests = 3
    MaxDrawn = 3
    Names = {1, 2}
    SubjectFits = TRUE
    Lifetime = 2
    LockTtl = 1
SYMMETRY MCSymmetry
INVARIANTS
    EvidenceBuysItsChange 
    AdmittedInFull FactorsAreSpentOnce RecordsAreKept
    SignOnIsRepeatable
CHECK_DEADLOCK FALSE
