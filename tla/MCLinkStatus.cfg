SPECIFICATION FairSpec
CONSTANTS
    NoPeer = NoPeer
    NoTransport = NoTransport
    t1 = t1
    t2 = t2
    t3 = t3
    c1 = c1
    c2 = c2
    tap = tap
    s1 = s1
    s2 = s2
    s3 = s3
    w1 = w1
    w2 = w2
    bad = bad
    Uids = {1, 2}
    FullIds = {2}
    Shorts = {s1, s2}
    Short <- DistinctPrefixes
    Transports = {t1}
    Overlays = {1}
    Entries = {w1, w2, bad}
    WellFormed = {w1, w2}
    Cas <- SomeCandidates
    Candidates = {}
    TapCandidates = {}
    Flapping <- BothFlags
    Relayed = {t1}
    TrimInputs = {TRUE, FALSE}
INVARIANTS
    StatusTruthful
    ReportsAgree
PROPERTIES
    OnlineReported
