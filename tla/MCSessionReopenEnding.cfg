SPECIFICATION FairSpec
CONSTANTS
    r1 = r1
    r2 = r2
    Resumers = {r1}
    Requests = {"delete"}
    MaxGen = 1
    MaxEpoch = 2
    MaxFaults = 0
    Crashes = FALSE
CHECK_DEADLOCK FALSE
PROPERTY DeletedStartupCompletes
