SPECIFICATION Spec
CONSTANTS
    Conns = {c1}
    Users = {u1, u2}
    Runs = {r1, r2}
    QueueSize = 2
    MaxEvents = 4
    MaxEntries = 2
    Null = Null
SYMMETRY Symmetry
CHECK_DEADLOCK FALSE
INVARIANTS
    DeliveredInOrder
    LostByOverflowOnly
