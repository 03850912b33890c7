\* Two idle peers, one header in an answer, one bad file.
CONSTANTS
    g = g
    a1 = a1
    a2 = a2
    b1 = b1
    none = none
    Blocks <- MCBlocks
    Genesis = g
    NoHash = none
    Prev <- MCPrev
    Work <- MCWork
    PowValues <- MCPowValues
    RoundPow <- MCRoundPow
    MaxChildren = 2
    MaxOrphans = 2
    RetargetPeriod = 2
    LegalBlocks <- MCBlocks
    SoundAt <- MCSoundAt
    Outpoints <- MCOutpoints
    Txs <- MCTxs
    UintModulus = 64
    CatchupThreshold = 1
    PeerChain <- MCPeerChain
    MaxHeaders = 1
    MaxIdle = 2
    MaxBadFiles = 1
SPECIFICATION DownloadSpec
INVARIANTS
    RequestsLowestGaps
PROPERTIES
    MainchainDownloaded
    
