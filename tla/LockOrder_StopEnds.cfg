SPECIFICATION Spec
CONSTANTS
    Claims = {claim}
    Commits = {commit1, commit2}
    Updates = {}
    Dispatches = {}
    Stop = stop
PROPERTY StopEnds
CHECK_DEADLOCK FALSE
