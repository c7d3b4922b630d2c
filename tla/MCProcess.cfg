SPECIFICATION Spec
CONSTANTS
    Calls = {c1, c2}
    Quiet = {c2}
    NumFds = 8
    MaxOut = 1
INVARIANTS
    ReturnedOutput
PROPERTIES
    ExecuteEnds
CHECK_DEADLOCK FALSE
