SPECIFICATION FairSpec
CONSTANTS
    None = None
    AtCmd = AtCmd
    Ppp = Ppp
    Relay = Relay
    Undef = Undef
    Data = Data
    QueueSize = 3
    MaxPcb = 2
INVARIANTS
    OneReader
    ModeAgrees
PROPERTIES
    RequestsReturn
CHECK_DEADLOCK FALSE
