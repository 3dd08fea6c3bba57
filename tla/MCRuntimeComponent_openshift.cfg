SPECIFICATION FairSpec
CONSTANTS
  Absent = Absent
  Specs <- RouteSpecs
  Kinds = {"Route", "BindingSecret", "KnativeService"}
  WatchedKinds = {"Route", "KnativeService"}
  OpenShift = TRUE
  KnativeInstalled = TRUE
  Periodic = TRUE
  FaultyCalls = {"apply", "delete", "check", "swallowed", "match"}
  MaxEdits = 1
  MaxFaults = 1
  MaxDrift = 1
  MaxCrashes = 0
PROPERTIES
  Converges
