CONSTANTS
    Scenarios = {"every", "group", "retry", "permanent", "drain", "outbox",
                 "request", "directives", "assessments", "theater", "theater-check"}
    Brokers = {"memory", "nats"}
    Interrupts = TRUE
    blue = blue
    red = red
    Factions <- MCFactions
    Served <- MCServed
    Takes <- MCTakes
    Nobody = Nobody
    Troubled = {"started"}
    MaxFaults = 1
SPECIFICATION TheaterSpec
CHECK_DEADLOCK FALSE
INVARIANTS
    NothingLeft
    ReleasedAfterDrain
    

    
