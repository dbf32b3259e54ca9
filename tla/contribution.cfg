\* Submissions merged into two shards: timeouts, a killed worker or a refused write, a restart.
SPECIFICATION ContribFairSpec
CONSTANTS
    p1 = p1
    x = x
    y = y
    Peer <- OnePeer
    CorpusSize = 2
    ClaimSize = 1
    Genesis = 9
    MinSamples = 2
    ForeignOn = FALSE
    MaxSeeds = 2
    MaxBatches = 2
    MaxRestarts = 1
    Call <- MCCall
    Key <- MCKey
    Shard <- TwoShards
    Hash <- MCHash
    SentenceKeys <- MCSentenceKeys
    MaxFaults = 1
INVARIANTS
    MergeTypeOK
    CreditIsEarned
    MergedIsStored
PROPERTIES
    ImplementsStore
    BatchesComeBack
    SubmissionsEnd
CHECK_DEADLOCK FALSE
