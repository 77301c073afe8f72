SPECIFICATION LSpec
CONSTANTS
    t1 = t1
    t2 = t2
    l1 = l1
    l2 = l2
    c1 = c1
    c2 = c2
    i1 = i1
    i2 = i2
    Threads = {c1, c2}
    Procs = {c1, c2, "parent"}
    Home <- MCHome
    MaxBits = 2
    CAP_SETPCAP = 0
    CAP_SETUID = 1
    CAP_SETGID = 1
    CAP_SYS_CHROOT = 1
    Uids = {0, 1}
    Gids = {0, 1}
    Roots = {0, 1}
    InitCreds <- MCInitCreds
    Calls <- NoCalls
    MaxCalls = 5
    AllocMayFail = TRUE
    Parents = {t1, t2}
    Launchers = {l1, l2}
    Iabs = {i1, i2}
    HasProgram = {l1}
    Plans <- OneSetting
    ResourcesMayFail = TRUE
    ChildrenMayDie = TRUE
INVARIANT RootTakesEffect
CHECK_DEADLOCK FALSE
