SPECIFICATION Spec
CONSTANTS
    t1 = t1
    t2 = t2
    b1 = b1
    Eof = Eof
    Tx <- TwoTx
    Blk <- OneBlock
    MaxRecs = 5
    MaxLength = 2
SYMMETRY Symmetry
INVARIANTS
    NumbersAgree
    NothingIsUndone
    

    
