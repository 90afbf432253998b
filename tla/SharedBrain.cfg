SPECIFICATION Spec
CONSTANTS
    Candidates = {c1}
    Replacements = {r1}
    Users = {u1, u2}
    HostEvents = {e1}
    BarrageEvents = {e2}
    MaxDeliveries = 2
    MaxRequests = 3
    Proposed = {p1}
    Legacy = {l1}
    Owners = {o1, o2}
    MaxOrders = 5
    None = None
INVARIANT StoresConsistent
PROPERTIES HeadNamesContents AppliesToWhatWasSeen PeopleDecide
CHECK_DEADLOCK FALSE
SYMMETRY Symmetry
