SPECIFICATION Spec
CONSTANTS
    p = p
    q = q
    r = r
    None = None
    Paths = {p, q}
    Requests = {r}
    MaxGen = 1
PROPERTY QuitTriesAgain
CHECK_DEADLOCK FALSE
