CONSTANTS
    MaxConns = 2
    MaxTries = 2
    MaxRetries = 1
SPECIFICATION FairSpec
INVARIANTS
    TypeOK
    InUseIsWatched
PROPERTIES
    KeepsLife
    DeadConnectionDropped
    StopEndsGoroutines
CHECK_DEADLOCK FALSE
