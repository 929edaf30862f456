SPECIFICATION FreeSpec
CONSTANTS
    Networks = {0, 30, 31}
    MaxInterfaces = 3
INVARIANT
    NetworkAvailable
CHECK_DEADLOCK FALSE
