SPECIFICATION Spec
CONSTANTS
    u1 = u1
    t1 = t1
    t2 = t2
    None = None
    c1 = c1
    c2 = c2
    w1 = w1
    Ids = {1, 2, 3}
    CreatedAt <- TwoPerTick
    Users = {u1}
    Titles = {t1, t2}
    Limits = {1, 2}
    Creates = {c1, c2}
    Walks = {w1}
    MongoFaults = TRUE
    ListRefs = {1}
    Listings = {"lists", "tasks", "active", "search", "sessions"}
    MaxTime = 2
    Values <- Written
SYMMETRY Symmetry
INVARIANT TypeOK
INVARIANT UniqueTitles
INVARIANT NewestFirst
INVARIANT Complete
PROPERTY ImplementsTraversal
CHECK_DEADLOCK FALSE
