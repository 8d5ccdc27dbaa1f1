SPECIFICATION StoreSpec
CONSTANTS
    n1 = n1
    n2 = n2
    a1 = a1
    d1 = d1
    d2 = d2
    i1 = i1
    i2 = i2
    Node = {n1, n2}
    Instance = {i1, i2}
    Attachment = {a1}
    PathKey = {d1, d2}
    HomeOf <- MCHomeOf
    TTL = 0
    MaxSeq = 2
INVARIANTS StoreTypeOK TakeoverBounded FlaggedIsStale
PROPERTIES ImplementsLocalLease ImplementsPathLease
