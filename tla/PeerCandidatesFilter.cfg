\* Does the filter do what it prints?
CONSTANTS
    ip1 = ip1
    ip2 = ip2
    ip3 = ip3
    Addresses = {ip1, ip2, ip3}
    Seeds <- MCSeeds
    Slots = {1, 2}
    NoPeer = NoPeer
    MaxCandidates = 3
SPECIFICATION Spec
INVARIANTS
    FilterRemovesInvalid
