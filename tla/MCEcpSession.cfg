SPECIFICATION Spec
CONSTANTS
    Conn = {i1, i2}
    Width = 32
    MaxFwd = 1024
    SendTries = 2
    MaxKey = 3
    MaxSKey = 2
    MaxGen = 2
    MaxOut = 5
    MaxReply = 3
SYMMETRY Symmetry
INVARIANTS
    NoLockout
PROPERTIES
    OpenedOnce
CHECK_DEADLOCK FALSE
