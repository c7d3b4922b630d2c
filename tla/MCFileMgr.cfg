SPECIFICATION Spec
CONSTANTS
    t1 = t1
    t2 = t2
    d1 = d1
    d2 = d2
    Thread <- TwoThreads
    Data <- TwoData
    Zero = Zero
    Old = Old
    Blk <- Blocks
    MaxBlocks = 2
SYMMETRY Symmetry
PROPERTIES
    
    FailureStays
    WritersAreExact
    BlockStore
