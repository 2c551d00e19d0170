SPECIFICATION Spec
CONSTANTS
    Roles = {i1, i2}
    Codes = {k1, k2}
    Menus = {m1, m2}
    Calls = {c1, c2}
    Readers = {x1, x2}
    TTL = 2
    MaxLoad = 1
    None = None
SYMMETRY MCSymmetry
PROPERTIES ChangesInvalidate
CHECK_DEADLOCK FALSE
