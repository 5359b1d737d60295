CONSTANTS
    e1 = e1
    e2 = e2
    hill = hill
    dale = dale
    Elements = {e1, e2}
    Decisions <- MCDecisions
    Limit = 2
    Own <- MCOwn
    Assessed <- MCAssessed
SPECIFICATION Spec
CHECK_DEADLOCK FALSE
INVARIANTS
    RecordedAreLastIssued
