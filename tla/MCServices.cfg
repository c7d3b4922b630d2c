SPECIFICATION Spec
CONSTANTS
    Threads = {t1, t2}
    Chunk = 2
    MaxSize = 3
    MaxText = 1
    Settings = {"tx_isolation", "page_encrypt", "sys_logs_level"}
    Values <- MCValues
INVARIANTS
    ReturnsAreWhole
    SavedFileIsWhole
CHECK_DEADLOCK FALSE
