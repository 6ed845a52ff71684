SPECIFICATION FairSpec
CONSTANTS
    Writers = {w1}
    Readers = {r1}
    Evictors = {e1}
    Callback = gdp
    NoThread = none
    FileLen = 2
    BlockSize = 1
    CacheModes = {TRUE}
    FileKinds = {FALSE}
    InodeLock = TRUE
    MaxWrites = 2
    MaxReads = 1
    MaxEvicts = 2
INVARIANTS
    IndexExactUntilSkip
    ReopenRestoresFile
    CountsExact

    
