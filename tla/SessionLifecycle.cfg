SPECIFICATION FairSpec
CONSTANTS
    Sessions = {s1, s2}
    Tasks = {t1, t2}
    NumResources = 2
    None = None
INVARIANTS
    TasksAccounted
    ResourcesFollowSession
PROPERTIES
    StopsEnd
CHECK_DEADLOCK FALSE
