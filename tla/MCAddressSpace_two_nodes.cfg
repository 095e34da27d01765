SPECIFICATION Spec
CONSTANTS
    n1 = n1
    n2 = n2
    a = a
    b = b
    k1 = k1
    k2 = k2
    k3 = k3
    v1 = v1
    None = None
    Nodes = {n1, n2}
    Objects = {a}
    Users = {k1, v1}
    Views = {v1}
    Home <- MCHome
    Node <- MCViewAtHome
    Target <- MCTarget
    Capacity <- MCAmple
INVARIANT ReadsLastWrite
