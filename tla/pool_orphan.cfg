\* A refused registration, or a restart, leaves a running worker unknown.
SPECIFICATION FairSpec
CONSTANTS
    p1 = p1
    p2 = p2
    Peer <- OnePeer
    CorpusSize = 2
    ClaimSize = 1
    Genesis = 9
    MinSamples = 2
    ForeignOn = FALSE
    MaxSeeds = 1
    MaxBatches = 1
    MaxRestarts = 1
PROPERTIES
    WorkersAreKnown
CHECK_DEADLOCK FALSE
