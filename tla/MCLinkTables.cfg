SPECIFICATION FairSpec
CONSTANTS
    NoPeer = NoPeer
    NoTransport = NoTransport
    t1 = t1
    t2 = t2
    t3 = t3
    c1 = c1
    c2 = c2
    tap = tap
    s1 = s1
    s2 = s2
    s3 = s3
    w1 = w1
    w2 = w2
    bad = bad
    Uids = {1, 2, 3}
    FullIds = {2}
    Shorts = {s1, s2, s3}
    Short <- DistinctPrefixes
    Transports = {t1, t2, t3}
    Overlays = {1}
    Entries = {w1, w2, bad}
    WellFormed = {w1, w2}
    Cas <- NoCandidates
    Candidates = {}
    TapCandidates = {}
    Flapping = {}
    Relayed = {}
    TrimInputs = {}
INVARIANTS
    TypeOK
    NoDanglingShortUid
    RoutesComplete
    DeleteFindsRoute
    MapsAgree
    SignalsResolve
    DtlsIdentityAlive
PROPERTIES
    ImplementsLifecycle
