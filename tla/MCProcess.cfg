CONSTANTS
    Services = {"exercise", "intelligence", "command", "operations"}
    MaxRows = 1
    MaxBoots = 2
SPECIFICATION Spec
CHECK_DEADLOCK FALSE
INVARIANTS
    
    StandsOnVerified
    NothingSkipped
