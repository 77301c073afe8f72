SPECIFICATION FairSpec
CONSTANTS
    main = main
    t2 = t2
    t3 = t3
    Threads = {main, t2, t3}
    Main = main
    Callers = {main}
    MaxCalls = 2
    MaxForks = 1
    MaxForeign = 0
    ForeignKinds = {}
    BufEntries = 2
    LeaderExits = FALSE
    TidReuse = FALSE
    ProcessExits = FALSE
    Levels = {"ERROR"}
PROPERTIES CallReturns ImplementsAllThreads
