\* One slot: everything that happens to it, until the end.
CONSTANTS
    c1 = c1
    c2 = c2
    c3 = c3
    p1 = p1
    p2 = p2
    p3 = p3
    p4 = p4
    SlotCount = 1
    Candidates = {c1, c2}
    First = c1
    Ids = {p1, p2, p3, p4}
    Null = Null
    MaxReadErrors = 1
SPECIFICATION Spec
PROPERTIES
    SilentPeersLeave
    TerminationCompletes
\* The node may stop.
CHECK_DEADLOCK FALSE
