SPECIFICATION Spec
CONSTANTS
    FT_ORDER = 2
    BYTE_INDEX_MAX = 99
    Starts <- MCStarts
INVARIANTS
    
    TreeStaysBalanced
    LookupFindsLast
    ReadYieldsContents
