CONSTANTS
    k1 = k1  k2 = k2  k3 = k3  k4 = k4  t1 = t1  t2 = t2
    None = None
    Kernels = {k1, k2, k3, k4}
    Threads = {t1, t2}
    Thread <- MCThread
    Statements <- MCStatements
    Throwing = {k1, k2}
SPECIFICATION Spec
INVARIANTS OwnCode NoneRefused
PROPERTY ModulesNeverChange
