SPECIFICATION Spec
CONSTANTS
    t1 = t1
    t2 = t2
    Threads <- TwoThreads
    Procs <- OneProc
    Home <- HomeOfTwo
    MaxBits = 2
    CAP_SETPCAP = 0
    CAP_SETUID = 1
    CAP_SETGID = 1
    CAP_SYS_CHROOT = 1
    Uids = {0, 1}
    Gids = {0, 1}
    Roots = {0, 1}
    InitCreds <- RootCreds
    Calls <- RacingCalls
    MaxCalls = 2
    AllocMayFail = TRUE
SYMMETRY Interchangeable
INVARIANTS
    NoprivForever
PROPERTIES
    PureIsForever
CHECK_DEADLOCK FALSE
