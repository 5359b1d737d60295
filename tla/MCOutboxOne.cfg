CONSTANTS
    t1 = t1
    t2 = t2
    r1 = r1
    r2 = r2
    Txs <- MCTxs
    Relays <- MCOneRelay
    Corrupt = {}
    Drain = TRUE
    MaxSeq = 2
    MaxCrashes = 0
    MaxStops = 1
    MaxForgets = 1
SPECIFICATION FairSpec
CHECK_DEADLOCK FALSE
INVARIANTS
    
    DrainPublishesOwed
PROPERTIES
    KeepsPromise
