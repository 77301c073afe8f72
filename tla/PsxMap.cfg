SPECIFICATION MapSpec
CONSTANTS
    Tids = {238, 492, 746, 258}
    Mix <- MCMix
    Sizes <- MCSizes
    Entries0 = 256
    MaxSweeps = 4
    Results = {1, 2}
INVARIANTS MapExact
CHECK_DEADLOCK FALSE
