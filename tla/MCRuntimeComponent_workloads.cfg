SPECIFICATION Spec
CONSTANTS
  Absent = Absent
  Specs <- WorkloadSpecs
  Kinds = {"Deployment", "StatefulSet", "KnativeService"}
  WatchedKinds = {"Deployment", "StatefulSet", "KnativeService"}
  OpenShift = FALSE
  KnativeInstalled = TRUE
  Periodic = TRUE
  FaultyCalls = {"fence", "status", "delete", "apply", "swallowed"}
  MaxEdits = 2
  MaxFaults = 1
  MaxDrift = 0
  MaxCrashes = 1
INVARIANTS
  TypeOK
  OneWorkload
  NoRollback
PROPERTIES
  KnativeAfterCleanup
  ImplementsTracking
