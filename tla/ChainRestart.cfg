\* Stopped and started any number of times, and killed once, between callbacks,
\* while a block registers or while the index is saved, or reset once.
CONSTANTS
    g = g
    a1 = a1
    a2 = a2
    b2 = b2
    none = none
    og = og
    oa1 = oa1
    oc = oc
    oa2 = oa2
    ob2 = ob2
    Blocks <- MCBlocks
    Genesis = g
    NoHash = none
    Prev <- MCPrev
    Work <- MCWork
    PowValues <- MCPowValues
    RoundPow <- MCRoundPow
    MaxChildren = 2
    MaxOrphans = 3
    RetargetPeriod = 2
    LegalBlocks = {g, a1, a2, b2}
    SoundAt <- MCSoundAt
    Outpoints = {og, oa1, oc, oa2, ob2}
    Txs <- MCTxs
    UintModulus = 64
    CatchupThreshold = 0
    BucketOrder <- MCBucketOrder
    MaxCrashes = 1
SPECIFICATION RestartSpec
INVARIANTS
    IndexBehindDisk
    SpendsSourcedAcrossKills
PROPERTIES
    CleanRestartKeepsAll
