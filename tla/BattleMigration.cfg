SPECIFICATION LiveSpec
CONSTANTS
    None = None
    Nodes = {n1, n2}
    Players = {p1}
    MaxFrames = 1
    MaxMoves = 2
    MaxCrashes = 1
    Faults = {"export", "loss", "deliver", "answer", "drain", "quarantine", "activate", "ledger"}
 
PROPERTIES MoveCarriesState 
\* A battle that has ended stops.
CHECK_DEADLOCK FALSE
