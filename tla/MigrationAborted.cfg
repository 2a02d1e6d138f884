SPECIFICATION Spec
CONSTANTS
    None = None
    Nodes = {n1, n2}
    Players = {p1}
    MaxFrames = 2
    MaxMoves = 1
    MaxCrashes = 0
    Faults = {"deliver"}
INVARIANTS AbortedMoveResumes
\* A battle that has ended stops.
CHECK_DEADLOCK FALSE
