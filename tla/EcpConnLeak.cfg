SPECIFICATION Spec
CONSTANTS
    Outb = {o1, o2}
    Inb = {}
    MaxTimer = 1
    Tries = 2
    MaxLeak = 2
    NoConn = NoConn
    NoItem = NoItem
INVARIANT
    TimerHoldsOneReference
