\* Two refreshes with one token overlap.
SPECIFICATION Spec
CONSTANTS
    Users = {u1}
    Admins = {}
    Agents <- OneAgent
    Sids = {s1, s2, s3}
    Reqs = {r1, r2}
    None = None
    NoDoc = NoDoc
    AccessTTL = 1
    RefreshTTL = 2
    Keep = 2
    Second = 1
    MaxTime = 2
    Ops <- RefreshOps
    Redis <- RedisUp
    RedisFaults = FALSE
    MongoFaults = FALSE
    Crashes = FALSE
    DebugCalls = FALSE
    r1 = r1
    r2 = r2
    s1 = s1
    s2 = s2
    s3 = s3
    u1 = u1
SYMMETRY ReqSymmetry
INVARIANT SingleUse
\* The clock and the ids are bounded, so every run stops somewhere.
CHECK_DEADLOCK FALSE
