SPECIFICATION Spec
CONSTANTS
    Conns = {c1}
    Users = {u1}
    Runs = {r1}
    QueueSize = 1
    MaxEvents = 1
    MaxEntries = 2
    Null = Null
CHECK_DEADLOCK FALSE
INVARIANT ClosedLeavesNothing
