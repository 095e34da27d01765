SPECIFICATION Spec
CONSTANTS
    Tables = {t1, t2}
    t1 = t1
    t2 = t2
    k1 = k1
    k2 = k2
    k3 = k3
    k4 = k4
    k5 = k5
    k6 = k6
    None = None
    Keys = {k1, k2, k3, k4, k5, k6}
    Values = {0, 1}
    Default = 0
    HashOf <- MCHash
    Elements <- MCElements
    Writes <- MCWrites
    Loads <- MCLoads
    Ranges <- MCRanges
    Requests = {1, 6}
    prime_list <- MCPrimes
    powers_of_two <- MCPowers
    MaxShared = 2
SYMMETRY MCSymmetry
INVARIANT Consistent
PROPERTIES LosesOnlyTheErased ImplementsMap
