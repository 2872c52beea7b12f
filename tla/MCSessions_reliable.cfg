\* MongoDB answers and the process runs on; Redis may fail.  No symmetry: the
\* run checks liveness.
SPECIFICATION FairSpec
CONSTANTS
    Users = {u1}
    Admins = {}
    Agents <- BothAgents
    Sids = {s1, s2}
    Reqs = {r1, r2}
    None = None
    NoDoc = NoDoc
    AccessTTL = 1
    RefreshTTL = 2
    Keep = 2
    Second = 1
    MaxTime = 1
    Ops <- ReliableOps
    Redis <- RedisUp
    RedisFaults = TRUE
    MongoFaults = FALSE
    Crashes = FALSE
    DebugCalls = FALSE
    r1 = r1
    r2 = r2
    s1 = s1
    s2 = s2
    u1 = u1
INVARIANT RetiredStayDead
PROPERTY EndedNeverServed
PROPERTY EveryRequestAnswered
PROPERTY LogoutAllTakesEffect
\* The clock and the ids are bounded, so every run stops somewhere.
CHECK_DEADLOCK FALSE
