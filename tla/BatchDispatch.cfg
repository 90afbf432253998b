SPECIFICATION BatchSpec
CONSTANTS
    Calls = {1, 2, 3}
    Interval = 0
    Fallback = 1
    MaxBackoff = 2
    MaxStreak = 2
    MaxItems = 2
    LinesPerItem = 2
    Scenarios <- Cases
    Slots = 1
    RetryAfters <- NoneOrTwo
    Viewers = {1, 2}
    LaneSlots = 1
    LaneQueue = 1
    RequestPace = 1
INVARIANT HoldersAreCounted
INVARIANT EveryViewerAccounted
INVARIANT LogAgrees
PROPERTY OvertakenRunsOn
PROPERTY EverythingReturns
CHECK_DEADLOCK FALSE
