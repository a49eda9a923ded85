SPECIFICATION FairSpec
CONSTANTS
    r1 = r1
    r2 = r2
    Resumers = {r1}
    Requests = {"stop", "delete", "forget", "attach"}
    MaxGen = 1
    MaxEpoch = 2
    MaxFaults = 0
    Crashes = TRUE
CHECK_DEADLOCK FALSE
INVARIANT EndedMeansStopped
PROPERTY FirstTerminalWins
PROPERTY EndingCompletes
