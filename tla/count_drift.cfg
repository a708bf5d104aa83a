CONSTANTS
    u1 = u1
    NoUser = NoUser
    NoTunnel = NoTunnel
    Requests = {r1, r2, r3}
    Anonymous = {}
    Users = {u1}
    Owner <- MCOwner
    MaxPerUser = 1
    RedisEnabled = TRUE
    Admins = {a1}
    MaxInFlight = 2
    MaxFaults = 0
    MaxRestarts = 0
SPECIFICATION Spec
INVARIANT CountIsActiveTunnels
