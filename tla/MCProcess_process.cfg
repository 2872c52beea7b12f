\* Two overlapping requests; a tick is five seconds.
SPECIFICATION FairSpec
CONSTANTS
    r1 = r1
    r2 = r2
    Reqs = {r1, r2}
    NumIndexes = 2
    ShutdownTimeout = 2
    DisconnectTimeout = 1
INVARIANT TypeOK
INVARIANT DrainedBeforeDisconnect
INVARIANT BoundedShutdown
INVARIANT DuplicatesWereLogged
PROPERTY SignalEndsProcess
