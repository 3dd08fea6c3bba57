SPECIFICATION Spec
CONSTANTS
  Absent = Absent
  Specs <- PlainSpecs
  Kinds = {"ServiceAccount", "Service", "KnativeService"}
  WatchedKinds = {"Service", "KnativeService"}
  OpenShift = TRUE
  KnativeInstalled = TRUE
  Periodic = TRUE
  FaultyCalls = {"read", "fence", "status", "apply", "delete", "check", "swallowed", "match"}
  MaxEdits = 2
  MaxFaults = 1
  MaxDrift = 1
  MaxCrashes = 0
INVARIANTS
  SettledAsDeclared
