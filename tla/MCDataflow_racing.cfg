SPECIFICATION Spec
CONSTANTS
    a = a
    b = b
    k1 = k1
    k2 = k2
    v1 = v1
    v2 = v2
    main = main
    other = other
    None = None
    Objects = {a}
    Requests = {k1, v1}
    Views = {v1}
    Callers = {main, other}
    Caller <- MCTwoCallers
    Accesses <- MCOneObject
    SelfBlocking = FALSE
INVARIANT ExclusiveAccess
