SPECIFICATION FairSpec
CONSTANTS
  op1 = op1
  op2 = op2
  Ops = {op1, op2}
  Cap = 3
  LaggingCache = FALSE
  MaxEdits = 0
  MaxPodChanges = 1
  MaxLost = 0
  MaxCrashes = 0
PROPERTIES
  BackoffDoubles
  EventuallyReported
