\* Three entries, two peers, saves and restarts; five pings in eight ticks.
CONSTANTS
    ip1 = ip1
    ip2 = ip2
    ip3 = ip3
    Addresses = {ip1, ip2, ip3}
    Seeds <- MCSeeds
    Slots = {1, 2}
    NoPeer = NoPeer
    MaxCandidates = 3
    Tolerance = 1
    MaxTime = 8
    MaxPings = 5
SPECIFICATION MCSpec
INVARIANTS
    PingsTimedOnce
PROPERTIES
    AddressesStayPut
\* The clock stops at its bound.
CHECK_DEADLOCK FALSE
