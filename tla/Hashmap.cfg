\* Keys entered in every order, changed, saved and loaded.
CONSTANTS
    g = g
    k1 = k1
    k2 = k2
    k3 = k3
    k4 = k4
    Keys <- MCKeys
    Values = {v0, v1}
    BucketCount = 2
    BucketOf <- MCBucketOf
    Genesis = g
    FreshGenesis = v0
SPECIFICATION Spec
INVARIANTS
    ChainsSound
PROPERTIES
    ImplementsIndexMap
