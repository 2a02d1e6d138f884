SPECIFICATION LiveSpec
CONSTANTS
  low = a
  Players = {a, b}
  Parties = {g}
  Instances = {i1, i2}
  Level <- Levels
  MaxGap = 3
  MaxSide = 3
  Batches <- SmallBatches
  MaxRequeue = 1
  Faults = {"redis", "crash"}
  MaxFaults = 1
  MaxCalls = 2
INVARIANTS TypeOK FairMatches BatchesMatched  LineageBounded LinksReal DeadTicketUnmapped
 
CHECK_DEADLOCK FALSE
