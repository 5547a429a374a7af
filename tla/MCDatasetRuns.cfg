SPECIFICATION Spec
CONSTANTS
    Recipes = {r1}
    Definitions = {d1, d2}
    Requests = {p1}
    DatasetIds = {i1}
    BackfillIds = {b1}
    Workers = {w1, w2}
    Outputs = {x1, x2}
    Card = card
    MaxAttempts = 3
    Null = Null
SYMMETRY Symmetry
CHECK_DEADLOCK FALSE
INVARIANTS
    DoneIsComplete
    DoneIsCoherent
