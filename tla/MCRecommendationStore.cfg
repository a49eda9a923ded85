SPECIFICATION Spec
CONSTANTS
    a = a
    b = b
    c = c
    p = p
    q = q
    k = k
    None = None
    Families = {a, b, c}
    Parents = {p, q}
    Cards = {k}
    Members <- MCMembers
    Rank <- MCRank
    MaxTerminal = 2
CONSTRAINT FewTerminal
CHECK_DEADLOCK FALSE
INVARIANT TypeOK
INVARIANT GraphStaysValid
INVARIANT RecoveryNeverRefused
INVARIANT AcknowledgedIsApplied
INVARIANT OrphansCanReturn
PROPERTY CommittedCompletes
PROPERTY ImplementsContract
