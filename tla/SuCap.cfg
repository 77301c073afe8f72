SPECIFICATION SuSpec
CONSTANTS
    MaxBits = 5
    CAP_SETPCAP = 0
    CAP_SETUID = 1
    CAP_SETGID = 2
    CAP_CHOWN = 3
    CAP_KILL = 4
    CAP_SYS_CHROOT = 4
    Uids = {0, 1, 2, 3}
    Gids = {0, 1}
    Roots = {0}
    Threads = {"su", "shell"}
    Procs = {"su", "shell"}
    Home <- MCHome
    InitCreds <- MCInit
    Calls = {}
    MaxCalls = 6
    AllocMayFail = TRUE
    GroupsOf <- MCGroupsOf
    Configs <- MCConfigs
    Arguments <- MCArguments
    MaxEdits = 1
    Passwd <- MCPasswd
    Asked = {"root", "bin", "bob", "ghost"}
    None = None
    TEMP_UID = 1
INVARIANTS ShellEntitled ShellAsConfigured MonitorSheds CleanedUp
PROPERTIES SuEnds
CHECK_DEADLOCK FALSE
