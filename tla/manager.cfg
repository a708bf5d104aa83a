CONSTANTS
    u1 = u1
    NoUser = NoUser
    Tunnels = {t1, t2, t3}
    Users = {u1}
    Started = {t1, t2}
    SamePort = {t1, t2}
    Anonymous = {t2}
    UserOf <- MCUserOf
    PortOf <- MCPortOf
    MaxTunnels = 0
    MaxPerUser = 1
    MaxCrashes = 1
SPECIFICATION MCSpec
INVARIANTS
    TypeOK
    IndexHasNoGhost
    DistinctPorts
    ClosedIsSaved
    ActiveIsWatched
    ClosedIsStopped
CHECK_DEADLOCK FALSE
