SPECIFICATION Spec
CONSTANTS
  Configs <- AllConfigs
  Workloads <- Observed
  Errors <- OneError
  Warnings <- Warned
  Exposed = TRUE
  LookupsFail <- Unanswered
  WritesFail = TRUE
  MaxAge <- Ages
INVARIANTS
  TypeOK
  PeriodicallyReconciled
  ReadyMeansReconciled
PROPERTIES
  ConditionsKept
  WarningUpToDate
  ReadyReplicasCount
  DelayWithinBounds
  DelayGrows
  FailureReachesMaximum
