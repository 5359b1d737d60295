CONSTANTS
    m1 = m1
    m2 = m2
    a = a
    b = b
    other = other
    Members <- MCMembers
    Events <- MCEvents
    Wanted <- MCWanted
    StartNew = TRUE
    AckWait = 2
    RetryDelay = 3
    MaxDeliver = 2
    Window = 2
    MaxLog = 2
    CountCap = 3
    MaxStops = 1
SPECIFICATION FairSpec
CHECK_DEADLOCK FALSE
INVARIANTS
    NoLostWakeup
PROPERTIES
    KeepsContract
    EventuallyFinished
