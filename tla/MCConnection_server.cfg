SPECIFICATION FairSpec
CONSTANTS
    Fds = {1, 2}
    Workers = {t1, t2}
    Requests = {first, second}
    first = first
    second = second
    KindsOf <- AnyKind
    SentOn <- Sent
    Slow = {first}
    QueueMax = 1
    SockRoom = 2
    MaxAccepts = 1
    Fragile = {1}
    MaxBreaks = 1
    None = None
INVARIANTS
    RefsCounted
    PollSound
    WireWhole
    TakenOnce
    NobodyForgotten
    TransportInv
PROPERTIES
    SendReturns
