SPECIFICATION FairSpec
CONSTANTS
    Names = {f1, f2}
    Users = {u1}
    Callback = gdp
    MAX_FHS = 2
    RC_CAP = 1
    MaxCalls = 7
    MaxStructs = 2
    None = none
CHECK_DEADLOCK FALSE
PROPERTY
    EvictionsFinish
