SPECIFICATION Spec
CONSTANTS
    Names = {f1, f2}
    Users = {u1, u2}
    Callback = gdp
    MAX_FHS = 2
    RC_CAP = 1
    MaxCalls = 6
    MaxStructs = 3
    None = none
SYMMETRY Symmetry
INVARIANTS
    ReferencedNotFreed
