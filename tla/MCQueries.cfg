SPECIFICATION SpecQueries
CONSTANTS
    MaxLeft = 2
    MaxSize = 4
    MaxPer = 2
    MaxAvail = 5
    Statements <- MCGiven
    Fields = {"a", "b"}
    Records <- MCRecords
    JoinField = "a"
    Zero = 0
    Sorted <- MCSorted
    Left <- MCLeft
    Right <- MCRight
    Names = {"a", "b", "c"}
    Ints = {"0", "1"}
    Strs = {"", "x"}
    ZeroInt = "0"
    Schemas <- MCSchemas
    Rows <- MCRows
    Predicates <- MCPredicates
    Targets <- MCTargets
INVARIANTS
    ProductIsExact
    ChunksFit
    
    ReadsAreComplete
    PairsMatch
    SelectionIsExact
CHECK_DEADLOCK FALSE
