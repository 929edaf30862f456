SPECIFICATION QueueFairSpec
CONSTANTS
    Producers = {p1, p2}
    Consumers = {c1, c2}
    Items = {x, y}
    Nobody = Nobody
    MaxLen = 2
INVARIANTS
    QueueTypeOK
    NoLostWakeup
PROPERTIES
    ImplementsQueue
