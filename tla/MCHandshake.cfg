SPECIFICATION HandshakeFairSpec
CONSTANTS
    MaxSessions <- OneTwo
    MaxLinks <- OneTwo
    MaxStanzas = 1
    MaxCallbacks = 1
INVARIANTS
    HandshakeTypeOK
    EndsAgree
PROPERTIES
    PeerFound
    HandshakeCompletes
