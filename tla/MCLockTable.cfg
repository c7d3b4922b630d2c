SPECIFICATION Spec
CONSTANTS
    t1 = t1
    t2 = t2
    t3 = t3
    b1 = b1
    b2 = b2
    NoBlk = NoBlk
    Tx <- ThreeTx
    Blk <- TwoBlk
    RelockOutcomes <- Both
    MaxShared = 3
SYMMETRY Symmetry
INVARIANTS
    TypeOK
    MutualExclusion
    TableMatchesHolders
    NoLostWakeupShared
CHECK_DEADLOCK FALSE
