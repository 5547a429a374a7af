SPECIFICATION Spec
CONSTANTS
    Recipes = {r1}
    Definitions = {d1, d2}
    Requests = {p1}
    DatasetIds = {i1}
    BackfillIds = {b1}
    Workers = {w1}
    Outputs = {x1}
    Card = card
    MaxAttempts = 1
    Null = Null
SYMMETRY Symmetry
CHECK_DEADLOCK FALSE
INVARIANT TombstoneHasNoData
