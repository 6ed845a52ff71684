SPECIFICATION Spec
CONSTANTS
    FT_ORDER = 2
    BYTE_INDEX_MAX = 9
    LastByte = 5
    Preload = 5
    MaxWrites = 8
    MaxReloads = 2
INVARIANTS
    WriteAssertions
    LookupNamesAWrite
    
    
