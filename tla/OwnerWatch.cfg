SPECIFICATION Spec
CONSTANTS
    None = None
    Battles = {b}
    Nodes = {n, m}
    Callers = {c, d}
    MaxVer = 2
    MaxGen = 2
    MaxSubs = 2
    Faults = {"start", "end", "age"}
SYMMETRY Symmetric
INVARIANTS  KnownOfGeneration  
PROPERTIES NeverBack
\* Records, watches and subscriptions are bounded.
CHECK_DEADLOCK FALSE
