SPECIFICATION FairSpec
CONSTANTS
    s1 = s1
    s2 = s2
    s3 = s3
    Sockets = {s1, s2}
    MaxRun = 2
    MaxInput = 3
    MaxOther = 1
    QueueCap = 2
    Slots = 1
INVARIANT TypeOK
INVARIANT QueueIsCounted
INVARIANT InputInOrder
INVARIANT SingleAttachmentOfRun
INVARIANT HeldBySocket
INVARIANT CommandsStayHome
PROPERTY ExitReachesSockets
CHECK_DEADLOCK FALSE
