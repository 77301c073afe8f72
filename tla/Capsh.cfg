SPECIFICATION ShSpec
CONSTANTS
    NULL = NULL
    Blks = 1
    WordBytes = 1
    ByteBits = 2
    CAP_BITS = 2
    Kernels = {2}
    Versions = {3}
    MaxBits = 2
    CAP_SETPCAP = 0
    CAP_SETUID = 1
    CAP_SETGID = 1
    CAP_SYS_CHROOT = 1
    Uids = {0, 1}
    Gids = {0, 1}
    Roots = {0, 1}
    Threads = {"capsh"}
    Procs = {"capsh"}
    Home <- MCHome
    InitCreds <- AnyCreds
    Calls = {}
    MaxCalls = 0
    AllocMayFail = TRUE
    Starts <- MCStarts
    Commands <- MCCommands
    Users <- MCUsers
    Programs <- MCPrograms
INVARIANTS
    TypeOK
    ModeTakesEffect
    CallsContained
    IabExact
    CommandContained
CHECK_DEADLOCK FALSE
