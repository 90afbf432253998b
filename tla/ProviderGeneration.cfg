SPECIFICATION ProviderSpec
CONSTANTS
    Requests = {r1, r2}
    RuntimeSessions = {s1, s2}
    Specs = {p1, p2}
    MaxGeneration = 4
    Null = Null
INVARIANTS ClientsFollowUse
PROPERTY RetiredGenerationsClose
CHECK_DEADLOCK FALSE
