SPECIFICATION Spec
CONSTANTS
    Files = {r, f1, f2}
    Root = r
    NoFile = NoFile
    Names = {a, b}
    NoName = NoName
    t1 = t1
    t2 = t2
    Threads = {t1, t2}
    Ops <- MCOps
    Perms <- MCPerms
    MaxDepth = 2
    MaxFhs = 3
    Flaky = FALSE
SYMMETRY MCSymmetry
INVARIANTS
    TypeOK
    
    PresentNamesFound
    ListingComplete
    
    DiesOnlyUnseen
 
CHECK_DEADLOCK FALSE
