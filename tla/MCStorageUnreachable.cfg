SPECIFICATION Spec
CONSTANTS
    p1 = p1
    t1 = t1
    t2 = t2
    None = None
    Processes = {p1}
    Threads = {t1, t2}
    ProcessOf <- OneProcess
    Buckets = {b1}
    Keys = {k1}
    Data = {d1, d2}
    Retries = 1
INVARIANTS
    UnreachableIs503
