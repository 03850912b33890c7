\* Every order of delivery of ten headers, each any number of times.
CONSTANTS
    g = g
    a1 = a1
    a2 = a2
    a3 = a3
    a4 = a4
    b1 = b1
    b2 = b2
    c1 = c1
    o1 = o1
    o2 = o2
    none = none
    Blocks <- MCBlocks
    Genesis = g
    NoHash = none
    Prev <- MCPrev
    Work <- MCWork
    PowValues <- MCPowValues
    RoundPow <- MCRoundPow
    MaxChildren = 2
    MaxOrphans = 3
    RetargetPeriod = 2
SPECIFICATION Spec
INVARIANTS
    TypeOK
    ChildLinks
    SlotPerChild
    AncestryComplete
    RetargetPeriodIndexed
    TipIsBest
    MainchainIsFirstChildPaths
    GenesisWalkReachesTip
    OrphanageExact
