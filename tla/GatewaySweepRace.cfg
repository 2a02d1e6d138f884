SPECIFICATION Spec
CONSTANTS
    p1 = p1
    p2 = p2
    gwA = gwA
    gwB = gwB
    a1 = a1
    a2 = a2
    b1 = b1
    None = None
    Players = {p1}
    Instances = {gwA}
    Conns = {a1}
    Home <- OnlyConn
    ConnID <- OnlyID
    UsableBy <- EveryPlayer
    MaxLogins = 1
    Requests = {"login", "heartbeat"}
    Faults = {"lapse"}
PROPERTIES SweepSparesLive
\* Logins are bounded: once they are used up and nobody is left, nothing is enabled.
CHECK_DEADLOCK FALSE
