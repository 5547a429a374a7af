SPECIFICATION Spec
CONSTANTS
    Triggers = {t1}
    Sources = {s1, s2}
    BackfillIds = {b1}
    Handlers = {h1, h2}
    Ends = {"FAILURE"}
    Null = Null
SYMMETRY Symmetry
CHECK_DEADLOCK FALSE
INVARIANTS
    PublishedWasCommitted
    SerialIsCurrent
    ToldIsPublished
PROPERTIES
    ToldIsChained
