SPECIFICATION FairSpec
CONSTANTS
    Triggers = {t1, t2}
    Sources = {s1}
    BackfillIds = {b1, b2}
    Handlers = {h1}
    Ends = {"SUCCESS"}
    Null = Null
CHECK_DEADLOCK FALSE
INVARIANTS
    TypeOK
    RowsAreLaunched
    StatusIsReported
PROPERTIES
    StatusSettles
