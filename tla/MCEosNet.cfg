SPECIFICATION Spec
CONSTANTS
    Buffer = {b1, b2}
    NoBuf = NoBuf
    Wrapped = {"mic", "touch"}
    Plain = {"timer"}
    Explicit = {"timer"}
    EvtSize = 4
    Header = {"none", "msg", "bad"}
    MaxOps = 2
SYMMETRY BufferPermutations
INVARIANTS
    TypeOK
    OneOwner
    SendsStarted
    NoMissedRequest
    BusOwned
    AcquireHonoured
    Reservations
    Accounted
