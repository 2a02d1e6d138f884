SPECIFICATION LiveSpec
CONSTANTS
    p1 = p1
    p2 = p2
    p3 = p3
    a1 = a1
    a2 = a2
    None = None
    Players = {p1, p2, p3}
    Conns = {a1, a2}
    UsedBy <- Takeover
    MaxFrames = 2
    SnapshotEvery = 2
    MaxOpens = 3
    MaxMoves = 1
    Faults = {"push", "pause", "export"}
INVARIANTS  SeatsHeldByPresent  MarksTimed
 
\* A battle that has ended stops.
CHECK_DEADLOCK FALSE
