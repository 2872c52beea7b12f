SPECIFICATION Spec
CONSTANTS
    ip1 = ip1
    r1 = r1
    r2 = r2
    None = None
    Clients = {ip1}
    Reqs = {r1, r2}
    Limit = 2
    Window = 2
    Stall = 1
    Backends <- BothBackends
    RedisFaults = TRUE
    Restarts = TRUE
    MaxTime = 8
    MaxCount = 3
SYMMETRY ReqSymmetry
INVARIANT TypeOK
INVARIANT BurstBound
PROPERTY DeniedForCause
CHECK_DEADLOCK FALSE
