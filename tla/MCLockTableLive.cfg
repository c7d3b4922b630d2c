SPECIFICATION FairSpec
CONSTANTS
    t1 = t1
    t2 = t2
    t3 = t3
    b1 = b1
    b2 = b2
    NoBlk = NoBlk
    Tx <- TwoTx
    Blk <- TwoBlk
    RelockOutcomes <- Both
    MaxShared = 2
PROPERTIES
    UpgradeIsNotNotified
    OrphanedShareStays
    TwoPhaseLocking
    RequestTerminates
CHECK_DEADLOCK FALSE
