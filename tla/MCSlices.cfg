SPECIFICATION Spec
CONSTANTS
    n1 = n1
    i1 = i1
    s1 = s1
    a1 = a1
    a2 = a2
    a3 = a3
    v4 = v4
    v6 = v6
    Node = {n1}
    Instance = {i1}
    Attachment = {a1, a2, a3}
    PathKey = {a1, a2, a3}
    HomeOf <- MCHomeOf
    TTL = 0
    MaxSeq = 1
    Service = {s1}
    NoService = NoService
    Selects <- MCSelects
    Family = {v4, v6}
    FamilyOf <- MCFamilyOf
    AddressOf <- MCAddressOf
    PathKeyOf <- MCPathKeyOf
    ServiceState = {"managed", "unmanaged", "absent"}
    PodState = {"ready", "none"}
    Observed = {}
    PathVerdict = {TRUE, FALSE}
    MaxEndpoints = 1
    EventCap = 1
INVARIANTS Agreement ContestedWithheld
