SPECIFICATION Spec
CONSTANTS
    t1 = t1
    t2 = t2
    Thread <- OneThread
    BlockSize = 22
    Lens <- ShortWords
    MaxRecs = 5
    MaxBlocks = 5
PROPERTIES
    DurableLog
