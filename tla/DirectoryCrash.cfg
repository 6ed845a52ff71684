SPECIFICATION SpecLogs
CONSTANTS
    Files = {r, f1, f2}
    Root = r
    NoFile = NoFile
    Names = {a, b}
    NoName = NoName
    t1 = t1
    Threads = {t1}
    Ops <- MCOps
    Perms <- MCPerms
    MaxDepth = 3
    MaxFhs = 1024
    MaxUnsaved = 2
    MaxCalls = 4
    Flaky = TRUE
SYMMETRY MCSymmetry
INVARIANTS
    TypeOKLogs
    SavedFilesSurvive
PROPERTY OperationsKeepNamespace
