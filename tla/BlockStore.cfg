\* Headers and blocks in every order, repeated, with failed saves, bad files
\* and switches between catchup and normal mode.
CONSTANTS
    g = g
    a1 = a1
    a2 = a2
    a3 = a3
    b2 = b2
    c3 = c3
    none = none
    og = og
    oa1 = oa1
    oc = oc
    oa3 = oa3
    oa3x = oa3x
    ob2 = ob2
    oc3 = oc3
    Blocks <- MCBlocks
    Genesis = g
    NoHash = none
    Prev <- MCPrev
    Work <- MCWork
    PowValues <- MCPowValues
    RoundPow <- MCRoundPow
    MaxChildren = 2
    MaxOrphans = 3
    RetargetPeriod = 2
    LegalBlocks = {g, a1, a2, a3, b2, c3}
    SoundAt <- MCSoundAt
    Outpoints <- MCOutpoints
    Txs <- MCTxs
    UintModulus = 64
    CatchupThreshold = 1
SPECIFICATION StoreSpec
INVARIANTS
    UtxoExact
    NoDoubleSpend
    ValidatedTipIsBest
    CatchupWrapsOnAbsorbed
