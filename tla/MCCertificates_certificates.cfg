SPECIFICATION Spec
CONSTANTS
  Nil = Nil
  Modes = {"managed", "plain", "knative"}
  MaxChanges = 2
  MaxFaults = 1
INVARIANT TypeOK
PROPERTIES
  PodsGetRenewedSecret
  EventuallyCurrent
