\* Two workers, lost replies, late and misdirected answers, reclaims, quarantine, worker deaths, a coordinator restart.
SPECIFICATION Spec
CONSTANTS
    p1 = p1
    p2 = p2
    Peer <- TwoPeers
    CorpusSize = 2
    ClaimSize = 1
    Genesis = 9
    MinSamples = 2
    ForeignOn = TRUE
    MaxSeeds = 1
    MaxBatches = 2
    MaxRestarts = 1
SYMMETRY PeerSymmetry
INVARIANTS
    TypeOK
    MintsAreBacked
    OnePlace
    NothingSlipsAway
PROPERTIES
    ImplementsPool
CHECK_DEADLOCK FALSE
