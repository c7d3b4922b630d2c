SPECIFICATION Spec
SYMMETRY Symmetric
CONSTANTS
    MaxPer = 2
    MaxBlocks = 2
    Rids = {0, 1}
    a = a
    b = b
    m = m
    n = n
    Fields = {a, b}
    Keys = {0, 1}
    Zero = 0
    Names = {m, n}
    None = None
    MaxEntries = 3
    Tables = {t, u}
    Schemas <- MCSchemas
    Limits = {0, 1, 9}
    MaxCalls = 3
    MaxTables = 2
INVARIANTS
    PassIsExact
    
    CatalogAgrees
CHECK_DEADLOCK FALSE
