SPECIFICATION FairSpec
CONSTANTS
  op1 = op1
  op2 = op2
  Ops = {op1}
  Cap = 4
  LaggingCache = TRUE
  MaxEdits = 1
  MaxPodChanges = 2
  MaxLost = 1
  MaxCrashes = 1
INVARIANTS
  TypeOK
  RecordedStartOnce
  RepetitionsExplained
PROPERTIES
  ImplementsLifecycle
  EventuallyStarted
