SPECIFICATION Spec
CONSTANTS
    Writers = {w1}
    Readers = {}
    Evictors = {e1}
    Callback = gdp
    NoThread = none
    FileLen = 2
    BlockSize = 1
    CacheModes = {TRUE}
    FileKinds = {FALSE}
    InodeLock = TRUE
    MaxWrites = 2
    MaxReads = 0
    MaxEvicts = 1
INVARIANTS
    IndexFindsMostRecent
