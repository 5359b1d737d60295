CONSTANTS
    t1 = t1
    t2 = t2
    r1 = r1
    r2 = r2
    Txs <- MCTxs
    Relays <- MCTwoRelays
    Corrupt = {2}
    Drain = TRUE
    MaxSeq = 3
    MaxCrashes = 1
    MaxStops = 0
    MaxForgets = 0
SPECIFICATION Spec
SYMMETRY TwoRelaySymmetry
CHECK_DEADLOCK FALSE
INVARIANTS
    OnlyCommittedLeave
    PublishedIsStored
    ExclusiveClaim
    SeqOrder
