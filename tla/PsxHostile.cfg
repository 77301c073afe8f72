SPECIFICATION Spec
CONSTANTS
    main = main
    t2 = t2
    t3 = t3
    Threads = {main, t2, t3}
    Main = main
    Callers = {main, t2}
    MaxCalls = 2
    MaxForks = 0
    MaxForeign = 1
    ForeignKinds = {"other"}
    BufEntries = 2
    LeaderExits = TRUE
    TidReuse = TRUE
    ProcessExits = TRUE
    Levels = {}
INVARIANTS TypeOK Exclusive AllThreadsRan NoStraggler HandlerInPlace MismatchExact AnswerNotLost NoUseAfterFree
PROPERTIES BarrierHolds RunsOnce
CHECK_DEADLOCK FALSE
