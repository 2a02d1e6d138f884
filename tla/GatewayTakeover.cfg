SPECIFICATION Spec
CONSTANTS
    p1 = p1
    p2 = p2
    gwA = gwA
    gwB = gwB
    a1 = a1
    a2 = a2
    b1 = b1
    None = None
    Players = {p1, p2}
    Instances = {gwA, gwB}
    Conns = {a1, a2, b1}
    Home <- TwoGateways
    ConnID <- DistinctIDs
    UsableBy <- SharedConn
    MaxLogins = 2
    Requests = {"login", "resume", "logout"}
    Faults = {"loss", "redis"}
INVARIANTS RefsSound TokensExact IndexInv ConnIdentified
 
\* Logins are bounded: once they are used up and nobody is left, nothing is enabled.
CHECK_DEADLOCK FALSE
