SPECIFICATION FairSpec
CONSTANTS
    Vpus = {p1, p2, p3}
    Tasks = {t1, t2, t3}
    MaxRuntime = 2
    MaxTicks = 3
    None = None
INVARIANTS TypeOK Balanced LostOnlyByThrow
PROPERTY EveryCallReturns
