\* Two slots, a third candidate, one broken connection.
CONSTANTS
    c1 = c1
    c2 = c2
    c3 = c3
    p1 = p1
    p2 = p2
    p3 = p3
    p4 = p4
    SlotCount = 2
    Candidates = {c1, c2, c3}
    First = c1
    Ids = {p1, p2, p3, p4}
    Null = Null
    MaxReadErrors = 1
SYMMETRY Symmetry
SPECIFICATION Spec
INVARIANTS
    SlotsPointToLivePeers
    NoStrayConnections
    LeaksAreReadErrors
    NoDuplicatePeers
PROPERTIES
    InnocentPeersStay
\* The node may stop.
CHECK_DEADLOCK FALSE
