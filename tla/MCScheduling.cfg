SPECIFICATION MCSpec
CONSTANTS
    Nodes = {n1, n2}
    Runs = {r1, r2}
    NoRun = NoRun
    Keys = {}
    NoKey = NoKey
    Editors = {}
    Settings <- MCNodesSettings
    Period = 2
    Timeout = 2
    Margin = 1
    Grace = 1
    Horizon = 5
    MaxVersion = 2
    OneNode = {m1}
    AKey = {k1}
    AnEditor = {e1}
SYMMETRY MCSymmetry
INVARIANTS
    LockGuardsRuns RunsOnce OverlapsByPolicy
CHECK_DEADLOCK FALSE
