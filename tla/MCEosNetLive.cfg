SPECIFICATION FairSpec
CONSTANTS
    Buffer = {b1, b2}
    NoBuf = NoBuf
    Wrapped = {"mic", "touch"}
    Plain = {}
    Explicit = {}
    EvtSize = 3
    Header = {"none", "msg"}
    MaxOps = 1
PROPERTIES
    CallsReturn
    QueuedIsSent
    RequestServed
