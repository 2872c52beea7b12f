\* Two revocations of one user overlap.
SPECIFICATION Spec
CONSTANTS
    Users = {u1}
    Admins = {}
    Agents <- OneAgent
    Sids = {s1, s2, s3}
    Reqs = {r1, r2, r3}
    None = None
    NoDoc = NoDoc
    AccessTTL = 3
    RefreshTTL = 3
    Keep = 4
    Second = 1
    MaxTime = 3
    Ops <- RevokeOps
    Redis <- RedisUp
    RedisFaults = FALSE
    MongoFaults = FALSE
    Crashes = FALSE
    DebugCalls = FALSE
    r1 = r1
    r2 = r2
    r3 = r3
    s1 = s1
    s2 = s2
    s3 = s3
    u1 = u1
SYMMETRY ReqSymmetry
PROPERTY RevokedTokenStaysRevoked
\* The clock and the ids are bounded, so every run stops somewhere.
CHECK_DEADLOCK FALSE
