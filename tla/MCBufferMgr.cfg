SPECIFICATION Spec
CONSTANTS
    b1 = b1
    b2 = b2
    b3 = b3
    NoBlk = NoBlk
    Tx <- TwoTx
    Blk <- ThreeBlk
    NumBufs = 2
    ReadMayFail = TRUE
    MaxPins = 2
SYMMETRY Symmetry
INVARIANTS
    PoolHoldsBlocks
    AccountsAgree
    ModificationsStayInCopies
    WaitIsHopeless
CHECK_DEADLOCK FALSE
