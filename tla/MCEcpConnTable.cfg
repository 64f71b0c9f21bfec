SPECIFICATION MCSpec
CONSTANTS
    Outb = {c1, c2}
    Inb = {i1, i2}
    Addr = {a1, a2}
    NoConn = NoConn
    MaxKey = 3
    MaxPeerKey = 3
SYMMETRY Symmetry
CONSTRAINT Bound
INVARIANTS
    NoDangling
    Found
CHECK_DEADLOCK FALSE
