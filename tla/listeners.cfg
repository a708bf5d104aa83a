CONSTANTS
    Conns = {c1, c2}
    MaxConnections = 1
    Kinds = {"server", "client", "handler", "http", "callback"}
    Commands = {f1, f2}
    NoCommand = NoCommand
    Providers = {"google"}
    MaxLogins = 2
SPECIFICATION MCSpec
INVARIANTS
    TypeOK
    EntryHasOwner
    SocketHasOwner
    CountReturns
    RegTypeOK
    TokenFitsAddress
    LoginFindsCommand
    SuccessHasCertificate
PROPERTIES
    TableIsClosed
    ClientIsQuiet
    SlotIsFreed
    StopEnds
    DecisionEndsWait
CHECK_DEADLOCK FALSE
