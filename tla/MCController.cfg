SPECIFICATION BudgetSpec
CONSTANTS
    n1 = n1
    a1 = a1
    d1 = d1
    v4 = v4
    Node = {n1}
    Instance = {i1, i2}
    Attachment = {a1}
    PathKey = {d1}
    HomeOf <- MCHomeOf
    TTL = 0
    MaxSeq = 1
    Service = {s1, s2}
    NoService = NoService
    Selects <- MCSelects
    Family = {v4}
    FamilyOf <- MCFamilyOf
    AddressOf <- MCAddressOf
    PathKeyOf <- MCPathKeyOf
    ServiceState = {"managed"}
    PodState = {"ready", "unready"}
    Observed = {a1}
    PathVerdict = {TRUE}
    MaxEndpoints = 1
    EventCap = 1
    Budget = 3
INVARIANT ReadyIsVouchedFor
PROPERTY ImplementsPublication
SYMMETRY Symmetry
