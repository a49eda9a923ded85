SPECIFICATION Spec
CONSTANTS
    r1 = r1
    r2 = r2
    Resumers = {r1}
    Requests = {"stop", "delete", "forget", "attach"}
    MaxGen = 2
    MaxEpoch = 1
    MaxFaults = 1
    Crashes = FALSE
CHECK_DEADLOCK FALSE
INVARIANT TypeOK
INVARIANT EndedMeansStopped
INVARIANT PublishedIsDurable
PROPERTY FirstTerminalWins
PROPERTY ImplementsContract
INVARIANT ChildIsOwned
