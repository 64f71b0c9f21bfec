SPECIFICATION LinkSpec
CONSTANTS
    Buffer = {b1, b2}
    NoBuf = NoBuf
    Wrapped = {"touch"}
    Plain = {}
    Explicit = {}
    EvtSize = 2
    Header = {"none", "msg"}
    MaxOps = 1
    EspQSize = 2
    MaxEsp = 2
    MaxFe = 2
INVARIANTS
    EspKept
    FeKept
    AnswerFits
PROPERTIES
    FollowsEosNet
    MessagesArrive
CHECK_DEADLOCK FALSE
