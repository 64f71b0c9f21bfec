SPECIFICATION Spec
CONSTANTS
    Outb = {o1}
    Inb = {i1}
    MaxTimer = 1
    Tries = 2
    MaxLeak = 1
    NoConn = NoConn
    NoItem = NoItem
PROPERTIES
    DroppedIsDestroyed
    OpenSettles
