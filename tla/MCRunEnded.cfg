SPECIFICATION Spec
CONSTANTS
    Triggers = {t1}
    Sources = {s1}
    BackfillIds = {b1}
    Handlers = {h1, h2}
    Ends = {"SUCCESS"}
    Null = Null
SYMMETRY Symmetry
CHECK_DEADLOCK FALSE
PROPERTIES
    EndedStaysEnded
