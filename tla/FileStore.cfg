SPECIFICATION FairSpec
CONSTANTS
    FileLen = 2
    BlockSize = 2
    Data = {1, 2}
    Perms <- MCPerms
    Modes = {"RW", "RO"}
    CacheModes = {TRUE, FALSE}
    Flaky = TRUE
    MaxRecords = 4
INVARIANTS
    TypeOK
PROPERTIES
    
    ClosedFileListed

