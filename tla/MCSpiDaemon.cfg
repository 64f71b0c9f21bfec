SPECIFICATION Spec
CONSTANTS
    BufqSize = 2
    EspQSize = 2
    Mtu = 2
    EspSize = {1, 2}
    AppSize = {1}
    MaxSent = 2
    MaxErr = 1
INVARIANTS
    ReadyWhenClocked
PROPERTIES
    Implements
    MessagesArrive
CHECK_DEADLOCK FALSE
