SPECIFICATION Spec
CONSTANTS
    Outb = {o1}
    Inb = {i1}
    MaxTimer = 2
    Tries = 2
    MaxLeak = 1
    NoConn = NoConn
    NoItem = NoItem
INVARIANTS
    RefsCounted
    NoUseAfterDestroy
    TableIsRegistered
    ResetOwnsConnection
    ClosedStaysOut
    HandlersPaired
