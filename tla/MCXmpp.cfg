SPECIFICATION SocketFairSpec
CONSTANTS
    PresenceTicks = 8
    MaxPieces = 16
INVARIANTS
    XmppTypeOK
    SocketTypeOK
    NothingDeletedTwice
    SendUsesLiveTask
    WatchdogArmed
    PresenceFresh
    StreamIntact
    UnsentWillWake
PROPERTIES
    SessionReplaced
    LossNoticed
