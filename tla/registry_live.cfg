CONSTANTS
    u1 = u1
    NoUser = NoUser
    NoTunnel = NoTunnel
    Requests = {r1, r2}
    Anonymous = {r2}
    Users = {u1}
    Owner <- MCOwner
    MaxPerUser = 1
    RedisEnabled = TRUE
    Admins = {a1}
    MaxInFlight = 2
    MaxFaults = 1
    MaxRestarts = 1
SPECIFICATION FairSpec
PROPERTIES
    KeepsLifecycle
    ExpiredTunnelRemoved
