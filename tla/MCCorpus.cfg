SPECIFICATION FairCorpus
CONSTANTS
    s1 = s1
    s2 = s2
    e1 = e1
    e2 = e2
    p1 = p1
    p2 = p2
    k1 = k1
    k2 = k2
    c1 = c1
    c2 = c2
    u1 = u1
    u2 = u2
    Sources = {s1, s2}
    Uploaded = {s2}
    Extracts = {e1, e2}
    Picks = {p1, p2}
    Hashes = {h1, h2}
    Casts <- MCCasts
    ChunkRuns = {k1, k2}
    Users = {u1, u2}
    Conns = {c1, c2}
    QueueSize = 1
    MaxCrashes = 1
    Null = Null
CHECK_DEADLOCK FALSE
INVARIANTS
    TypeOK
    SourceIsComplete
    OneCanonical
    LostOnlyToCleanup
    ToldIsTrue
    ToldOnce
    SubscribedWhileOpen
PROPERTIES
    ImplementsCanonicalChoice
    TransactionsEnd
