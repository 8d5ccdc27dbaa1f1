SPECIFICATION Spec
CONSTANTS
    n1 = n1
    i1 = i1
    s1 = s1
    a1 = a1
    d1 = d1
    v4 = v4
    Node = {n1}
    Instance = {i1}
    Attachment = {a1}
    PathKey = {d1}
    HomeOf <- MCHomeOf
    TTL = 0
    MaxSeq = 1
    Service = {s1}
    NoService = NoService
    Selects <- MCSelects
    Family = {v4}
    FamilyOf <- MCFamilyOf
    AddressOf <- MCAddressOf
    PathKeyOf <- MCPathKeyOf
    ServiceState = {"managed"}
    PodState = {"ready", "none"}
    Observed = {a1}
    PathVerdict = {TRUE, FALSE}
    MaxEndpoints = 1
    EventCap = 1
INVARIANT WithdrawnOnItsOwn
