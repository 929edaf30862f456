SPECIFICATION PathFairSpec
CONSTANTS
    NoPeer = NoPeer
    NoTransport = NoTransport
    t1 = t1
    t2 = t2
    s1 = s1
    s2 = s2
    f1 = f1
    f2 = f2
    f3 = f3
    Uids = {1, 2}
    FullIds = {}
    Shorts = {s1, s2}
    Short <- SharedPrefix
    Transports = {t1}
    Overlays = {1}
    Entries = {}
    WellFormed = {}
    Cas <- NoCandidates
    Candidates = {}
    TapCandidates = {}
    Flapping <- OneWritable
    Relayed = {}
    TrimInputs = {}
    TapFrames = {f1, f2}
    IccFrames = {f3}
    Dest <- Destinations
    Mac <- IccOnly
    Truncated = {f2}
    MaxRecv = 0
INVARIANTS
    SignalsMatchQueue
    WorkerNeverBlocks
PROPERTIES
    EveryFrameHandled
    InvokesReturn
