SPECIFICATION LiveGrantSpec
CONSTANTS
    None = None
    MaxChanges = 2
    MaxLogins = 2
    StopTries = 2
    Faults = {"mongo", "ambiguous", "expiry"}
    Requests = {r1, r2}
    Keys = {k}
    Params = {h1, h2}
    MaxAsks = 2
INVARIANTS OfflineLeaseBacked AuditInv GrantsKept
PROPERTIES StopTerminates
\* Changes, logins and requests are bounded: nothing may be left to do.
CHECK_DEADLOCK FALSE
