SPECIFICATION FairSpec
CONSTANTS
    p = p
    q = q
    r = r
    None = None
    Paths = {p, q}
    Requests = {r}
    MaxGen = 3
INVARIANT TypeOK
INVARIANT OneRuntime
INVARIANT ReadyIsServed
INVARIANT QuitLeavesNothing
PROPERTY NoReplacement
PROPERTY AnswersFromHome
PROPERTY OperationsEnd
CHECK_DEADLOCK FALSE
