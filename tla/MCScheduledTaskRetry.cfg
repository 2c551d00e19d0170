SPECIFICATION Spec
CONSTANTS
    Nodes = {n1, n2}
    Runs = {r1, r2, r3}
    NoRun = NoRun
    Keys = {}
    NoKey = NoKey
    Editors = {}
    Settings <- MCRetried
    Period = 2
    Timeout = 2
    Margin = 1
    Grace = 1
    Horizon = 6
    MaxVersion = 2
SYMMETRY MCSymmetry
INVARIANTS ForbidExcludes
CHECK_DEADLOCK FALSE
