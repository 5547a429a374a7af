SPECIFICATION Spec
CONSTANTS
    Conns = {c1, c2}
    Users = {u1, u2}
    Runs = {r1}
    QueueSize = 1
    MaxEvents = 2
    MaxEntries = 2
    Null = Null
SYMMETRY Symmetry
CHECK_DEADLOCK FALSE
INVARIANTS
    TypeOK
    OwnersOnly
    AckedIsRegistered
