SPECIFICATION Spec
CONSTANTS
    Size = 4
    Width = 4
    MaxFwd = 1024
    SeqRange = 32
    SeqStart = 29
    AckRate = 2
    Flags <- MCFlags
    Timed = {2, 3}
    MaxSeq = 6
    MaxSlow = 5
    MaxFail = 1
INVARIANTS
    AcksHonest
PROPERTIES
    Implements
CHECK_DEADLOCK FALSE
