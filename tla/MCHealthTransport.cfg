SPECIFICATION MCSpec
CONSTANTS
    n1 = n1
    i1 = i1
    i2 = i2
    i3 = i3
    a1 = a1
    d1 = d1
    Node = {n1}
    Instance = {i1, i2, i3}
    Attachment = {a1}
    PathKey = {d1}
    HomeOf <- MCHomeOf
    Verdict = {TRUE}
    Capped = {i2, i3}
    Cut = {i2, i3}
    Endless = {i2, i3}
    Sweeps <- MCSweeps
    Behind <- MCBehind
    Shifting = {a1}
    NodeOf <- MCNodeOf
    TTL = 0
    MaxSeq = 2
    Stream = {st1, st2}
    NoStream = NoStream
    NoAgent = NoAgent
    InboxCap = 4
INVARIANTS TransportTypeOK ReportedAsSwept
PROPERTY ReportsArrive
CHECK_DEADLOCK FALSE
