SPECIFICATION Spec
CONSTANTS
    n1 = n1
    Node = {n1}
    Instance = {i1, i2}
    Attachment = {a1}
    PathKey = {}
    HomeOf <- MCHomeOf
    Verdict = {TRUE}
    Capped = {}
    Cut = {i1, i2}
    Endless = {}
    Sweeps <- MCSweeps
    Behind <- MCBehind
    Shifting = {}
    NodeOf <- MCNodeOf
    TTL = 0
    MaxSeq = 2
    Stream = {st1, st2}
    NoStream = NoStream
    NoAgent = NoAgent
    InboxCap = 3
PROPERTY SupersededIsDiscarded
