SPECIFICATION MCSpec
CONSTANTS
    Procs = {p1, p2}
    Keys = {k1, k2}
    NoKey = NoKey
    Free = Free
    Commands = 2
    TTL = 2
    Horizon = 4
    Calls = {p1, p2}
    None = None
    Plans = {"basic", "pro"}
    FirstPlan = "basic"
    Tenants = {k1, k2}
    Platform = Platform
    Budgets = {1, 2}
    Ups = 2
    Requests = {p1, p2, p3}
    Limit = 2
    Window = 2
    LockTtl = 1
    MaxTime = 3
    Ids = {u1, u2}
    Everyone = Everyone
    MaxUsers = 1
    Readers = {z1}
    InfoTTL = 1
    MaxChanges = 2
    RuleSets = {k1, k2}
    Patterns = {"a", "b"}
    MaxVersion = 5
SYMMETRY MCSymmetry
INVARIANTS LockGuardsCommands SucceededIsStated
    TrailTellsPermissions PoolsWithinBudget TenantsStayHome LimitHolds
    UsersAreKept PublishedAsSeen RulesAreServed
PROPERTIES TerminalStays
CHECK_DEADLOCK FALSE
