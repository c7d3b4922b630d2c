SPECIFICATION Spec
CONSTANTS
    t1 = t1
    t2 = t2
    Thread <- TwoThreads
    BlockSize = 20
    Lens <- Words
    MaxRecs = 4
    MaxBlocks = 4
SYMMETRY ThreadSymmetry
INVARIANTS
    LogIsComplete
    FlushedStays
    LogIsReadable
PROPERTY
    NewestFirst
