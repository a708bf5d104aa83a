CONSTANTS
    MaxConns = 2
    MaxTries = 1
    MaxRetries = 1
SPECIFICATION Spec
INVARIANT ReadersAreRegistered
CHECK_DEADLOCK FALSE
