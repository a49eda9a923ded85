SPECIFICATION Spec
CONSTANTS
    r1 = r1
    r2 = r2
    Resumers = {r1, r2}
    Requests = {}
    MaxGen = 3
    MaxEpoch = 1
    MaxFaults = 1
    Crashes = FALSE
CHECK_DEADLOCK FALSE
PROPERTY OutcomeIsFinal
