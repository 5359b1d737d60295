CONSTANTS
    Grace = TRUE
    MaxDrops = 2
SPECIFICATION SourceFairSpec
CHECK_DEADLOCK FALSE
INVARIANTS
    ReportedOnce
    
PROPERTIES
    ShutdownReturns
    EndsWhenGone
