CONSTANTS
    c1 = c1  c2 = c2  c3 = c3  c4 = c4 c5 = c5 f = f  s = s  m1 = m1  m2 = m2  x = x  y = y
    None = None
    Calls = {c1, c2, c3, c4, c5}
    Funcs = {f, s}
    Modules = {m1, m2}
    Keys = {x, y}
    Func <- MCFunc
    Key <- MCKey
    Module <- MCModule
    Scalar = {s}
    Enough = 2
SPECIFICATION FairSpec
INVARIANTS TypeOK CompiledOnce EstimateFromRun ScalarsNeverEstimated
PROPERTIES RunsAreRemembered EveryCallReturns
