SPECIFICATION Spec
CONSTANTS
    None = None
    MaxChanges = 3
    MaxLogins = 3
    StopTries = 3
    Faults = {"redis", "mongo", "ambiguous", "expiry", "idle", "crash", "shutdown"}
INVARIANTS VersionsOrderData OrderInv
PROPERTIES LoginTakesNewest CopiesNeverRegress
\* Changes and logins are bounded, and a node that is down stays down: nothing may be
\* left to do.
CHECK_DEADLOCK FALSE
