SPECIFICATION XmppSpec
CONSTANTS
    PresenceTicks = 8
INVARIANTS
    CheckedOncePerInterval
