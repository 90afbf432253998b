SPECIFICATION FairSpec
CONSTANTS
    None = None
    Inputs <- MCInputs
    Conns = {1, 2}
    Scenarios <- MCScenarios
    Writers <- MCWriters
    Events <- MCEvents
    Capacity = 2
    QueueCapacity = 2
    MaxStatus = 3
INVARIANTS
    IntakeConsistent
    TriggersKept
PROPERTIES
    InputsTakenOnce
    NeverGoesBack
    CatchesUp
CHECK_DEADLOCK FALSE
