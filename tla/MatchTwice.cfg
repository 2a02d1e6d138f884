SPECIFICATION Spec
CONSTANTS
  low = a
  Players = {a}
  Parties = {}
  Instances = {i1}
  Level <- Levels
  MaxGap = 3
  MaxSide = 1
  Batches = {}
  MaxRequeue = 0
  Faults = {}
  MaxFaults = 0
  MaxCalls = 4
INVARIANTS OneLiveTicket
CHECK_DEADLOCK FALSE
