SPECIFICATION FairSpec
CONSTANTS
    main = main
    t2 = t2
    t3 = t3
    Threads = {main, t2, t3}
    Main = main
    Callers = {main, t2}
    MaxCalls = 2
    MaxForks = 0
    MaxForeign = 0
    ForeignKinds = {}
    BufEntries = 2
    LeaderExits = FALSE
    TidReuse = FALSE
    ProcessExits = FALSE
    Levels = {}
PROPERTIES CallReturns
CHECK_DEADLOCK FALSE
