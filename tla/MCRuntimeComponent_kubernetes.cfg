CHECK_DEADLOCK FALSE
SPECIFICATION FairSpec
CONSTANTS
  Absent = Absent
  Specs <- IngressSpecs
  Kinds = {"ServiceAccount", "Deployment", "Ingress", "ServiceMonitor"}
  WatchedKinds = {"Deployment", "Ingress"}
  OpenShift = FALSE
  KnativeInstalled = FALSE
  Periodic = TRUE
  FaultyCalls = {"read", "fence", "status", "apply", "check", "swallowed"}
  MaxEdits = 1
  MaxFaults = 1
  MaxDrift = 0
  MaxCrashes = 0
PROPERTIES
  Converges
  RefusalReported
