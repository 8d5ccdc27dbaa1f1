SPECIFICATION FairSpec
CONSTANTS
    p1 = p1
    a1 = a1
    b1 = b1
    Pod = {p1}
    NoPath = 0
    Path = {1, 2}
    PodOf <- MCPodOf
    NoAttachment = NoAttachment
    Attachment = {a1, b1}
    HostOf <- MCHostOf
    EventCap = 1
INVARIANTS NamespaceTypeOK NoMissedChange NoneLeftBehind WatchedWhereRead
PROPERTY StateCatchesUp
CHECK_DEADLOCK FALSE
