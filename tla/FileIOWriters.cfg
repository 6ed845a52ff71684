SPECIFICATION Spec
CONSTANTS
    Writers = {w1, w2}
    Readers = {r1}
    Evictors = {}
    Callback = gdp
    NoThread = none
    FileLen = 3
    BlockSize = 2
    CacheModes = {TRUE, FALSE}
    FileKinds = {TRUE, FALSE}
    InodeLock = FALSE
    MaxWrites = 2
    MaxReads = 2
    MaxEvicts = 0
SYMMETRY Symmetry
INVARIANTS
    TypeOK
    CacheExactUntilMisfilled
    ReadsRegular
