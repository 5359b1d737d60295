CONSTANTS
    m1 = m1
    m2 = m2
    billing = billing
    d1 = d1
    e = e
    Consumers = {billing}
    Members = {m1, m2}
    ConsumerOf <- MCGroup
    Msgs = {d1}
    Events = {e}
    EventOf <- MCOne
    Malformed = {}
    MaxDeliver = 0
    MaxCrashes = 1
SPECIFICATION InboxFairSpec
CHECK_DEADLOCK FALSE
INVARIANTS
    HandledOnce
    AckedIsHandled
PROPERTIES
    EventuallySettled
