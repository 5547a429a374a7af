SPECIFICATION MCSpec
CONSTANTS
    s1 = s1
    d1 = d1
    d2 = d2
    d3 = d3
    k1 = k1
    k2 = k2
    k3 = k3
    tq = tq
    tl = tl
    tm = tm
    g1 = g1
    g2 = g2
    v1 = v1
    Limit = 2
    Period = 2
    MaxTime = 3
    Budget = 2
    FallbackTokens = 1
    LanceSources = {s1}
    Collected = {s1}
    Docs = {d1, d2, d3}
    Tokens <- MCTokens
    Chunkers = {k1, k2, k3}
    Taggers = {tq, tl, tm}
    KindOf <- MCKindOf
    LanceCasts <- MCTeams
    Makers = {g1, g2}
    Previews = {v1}
    Samples = 2
    Recipes <- MCRecipes
    Bucket <- MCBucket
    Ratio = 10
    Ids = {1, 2, 3, 4}
    Relations <- MCRelations
    Null = Null
CHECK_DEADLOCK FALSE
INVARIANTS
    LanceTypeOK
    OneGeneration
    GenerationsAreWhole
    TagsFollowTheRead
    RateLimit
    ErrorsAreFilteredOut
    SamplesAreAccountedFor
    ClustersAreComponents
PROPERTIES
    TaggersKeepRows
