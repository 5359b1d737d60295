CONSTANTS
    alpha = alpha
    bravo = bravo
    red = red
    u1 = u1
    o1 = o1
    r1 = r1
    first = first
    next = next
    Exercises = {alpha, bravo}
    Factions = {red}
    Umpires = {u1}
    Members = {o1}
    Resolvers = {r1}
    Orders = {first, next}
    For <- MCFor
    Limit = 2
    Healthy = {alpha}
SPECIFICATION FairSpec
CHECK_DEADLOCK FALSE
INVARIANTS
    RecordedIsApplied
    ReportedInOrder
PROPERTIES
    RoundsAreDue
    RoundsContinue
