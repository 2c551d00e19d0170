SPECIFICATION MCSpec
CONSTANTS
    Roles = {i1, i2}
    Codes = {k1, k2}
    Menus = {m1, m2}
    Workers = {c1, c2}
    Lifetimes <- MCLifetimes
    Readers = {x1, x2}
    TTL = 2
    MaxLoad = 1
    None = None
    MaxTokens = 4
    MaxTime = 2
SYMMETRY MCSymmetry
INVARIANTS AnswerIsRecent RulesFollowRows EndedStaysEnded
CHECK_DEADLOCK FALSE
