SPECIFICATION FairSpec
CONSTANTS
    Mic = Mic
    Sys = Sys
    m1 = m1
    m2 = m2
    m3 = m3
    s1 = s1
    s2 = s2
    t1 = t1
    NoTurn = NoTurn
    None = None
    MaxAttempts = 2
    MaxResent = 1
    Streams <- MCStreams
    Turn <- MCTurn
    Required <- MCRequired
INVARIANTS
    TurnsKept
PROPERTIES
    TurnHeardOnce
    HostIsHeard
CHECK_DEADLOCK FALSE
