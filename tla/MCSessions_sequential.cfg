\* One request at a time, two users, one of them an admin; MongoDB and Redis answer.
SPECIFICATION Spec
CONSTANTS
    Users = {u1, u2}
    Admins = {u1}
    Agents <- OneAgent
    Sids = {s1, s2, s3}
    Reqs = {r1}
    None = None
    NoDoc = NoDoc
    AccessTTL = 2
    RefreshTTL = 2
    Keep = 4
    Second = 2
    MaxTime = 3
    Ops <- SequentialOps
    Redis <- RedisMayBeAbsent
    RedisFaults = FALSE
    MongoFaults = FALSE
    Crashes = FALSE
    DebugCalls = FALSE
    r1 = r1
    s1 = s1
    s2 = s2
    s3 = s3
    u1 = u1
    u2 = u2
SYMMETRY SidSymmetry
INVARIANT SingleUse
INVARIANT BlacklistOutlivesToken
INVARIANT EndedLeaveNoHeir
PROPERTY RevokedTokenStaysRevoked
PROPERTY RevocationDecides
PROPERTY OnlyOwnerEndsSessions
\* The clock and the ids are bounded, so every run stops somewhere.
CHECK_DEADLOCK FALSE
