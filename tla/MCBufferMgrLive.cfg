SPECIFICATION FairSpec
CONSTANTS
    b1 = b1
    b2 = b2
    b3 = b3
    NoBlk = NoBlk
    Tx <- TwoTx
    Blk <- TwoBlk
    NumBufs = 1
    ReadMayFail = TRUE
    MaxPins = 2
PROPERTIES
    PinnedStays
    PinTerminates
CHECK_DEADLOCK FALSE
