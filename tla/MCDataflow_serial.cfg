SPECIFICATION FairSpec
CONSTANTS
    a = a
    b = b
    k1 = k1
    k2 = k2
    v1 = v1
    v2 = v2
    main = main
    other = other
    None = None
    Objects = {a, b}
    Requests = {k1, k2, v1, v2}
    Views = {v1, v2}
    Callers = {main}
    Caller <- MCOneCaller
    Accesses <- MCAccesses
    SelfBlocking = FALSE
INVARIANTS TypeOK ExclusiveAccess RunsInScheduleOrder NoCircularWait NeverStuck PendingWorkFinished
PROPERTIES EveryRequestCompletes ShutdownCompletes ImplementsAccessQueue
