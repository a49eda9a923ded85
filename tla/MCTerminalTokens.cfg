SPECIFICATION Spec
CONSTANTS
    s1 = s1
    s2 = s2
    s3 = s3
    Sockets = {s1, s2, s3}
    MaxRun = 2
    MaxInput = 0
    MaxOther = 0
    QueueCap = 1
    Slots = 1
SYMMETRY SocketSymmetry
INVARIANT SingleAttachment
CHECK_DEADLOCK FALSE
