SPECIFICATION Spec
CONSTANTS
    t1 = t1
    t2 = t2
    c1 = c1
    c2 = c2
    i1 = i1
    i2 = i2
    l1 = l1
    l2 = l2
    Threads = {t1, t2}
    CapTs = {c1, c2}
    IabTs = {i1, i2}
    Launchers = {l1, l2}
    Spare = {c2, i2}
    NWords = 2
    Calls <- MCCalls
    MaxCalls = 2
INVARIANTS
    TypeOK
    OperationsAtomic
    AmbientWithinInheritable
PROPERTIES
    CallsReturn
CHECK_DEADLOCK FALSE
