SPECIFICATION FairSpec
CONSTANTS
    Req <- MCReq
    MaxTimer = 2
    Half = 8
    MaxTimeout = 2
    PollTimeout = 2
    MaxDelay = 1
    MaxEvt = 2
    MaxLate = 5
INVARIANTS
    AlarmKept
    LatenessBounded
PROPERTIES
    Implements
    Served
