SPECIFICATION FairSpec
CONSTANTS
    n1 = n1
    n2 = n2
    a = a
    b = b
    k1 = k1
    k2 = k2
    k3 = k3
    v1 = v1
    None = None
    Nodes = {n1, n2}
    Objects = {a, b}
    Users = {k1, k2, v1}
    Views = {v1}
    Home <- MCHome
    Node <- MCAwayFromHome
    Target <- MCTarget
    Capacity <- MCScarce
INVARIANTS TypeOK LiveObjectStaysResident SharePageUnlessEvicted
PROPERTIES FailureIsPermanent EveryResolveReturns
