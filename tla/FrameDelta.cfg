SPECIFICATION Spec
CONSTANTS
    None = None
    a = a
    b = b
    x = x
    y = y
    s = s
    t1 = t1
    t2 = t2
    Players = {a, b}
    Clients = {a}
    Payloads = {x, y}
    Times = {t1, t2}
    Snapshots = {s}
    Hashes = {x, y}
    Contents <- TwoContents
    KeyEvery = 3
    Datagrams = {2}
    MaxFrames = 4
    MaxConns = 3
    Faults = {"loss", "push", "encode", "reorder"}
INVARIANTS DeltaInv RecoveryBound
PROPERTIES CleanStreamsFit AbstractSpec
\* Frames and connections are bounded.
CHECK_DEADLOCK FALSE
