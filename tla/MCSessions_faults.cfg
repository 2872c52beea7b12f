\* Everything may fail: MongoDB, Redis, the process.
SPECIFICATION Spec
CONSTANTS
    Users = {u1}
    Admins = {}
    Agents <- OneAgent
    Sids = {s1, s2}
    Reqs = {r1, r2}
    None = None
    NoDoc = NoDoc
    AccessTTL = 1
    RefreshTTL = 2
    Keep = 2
    Second = 1
    MaxTime = 1
    Ops <- FaultOps
    Redis <- RedisUp
    RedisFaults = TRUE
    MongoFaults = TRUE
    Crashes = TRUE
    DebugCalls = TRUE
    r1 = r1
    r2 = r2
    s1 = s1
    s2 = s2
    u1 = u1
SYMMETRY ReqSymmetry
INVARIANT TypeOK
INVARIANT EndedStayDead
PROPERTY EndedNeverServed
PROPERTY ImplementsRegister
\* The clock and the ids are bounded, so every run stops somewhere.
CHECK_DEADLOCK FALSE
