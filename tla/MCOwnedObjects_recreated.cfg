SPECIFICATION Spec
CONSTANTS
  Nil = Nil
  Tracks <- RouteTrack
  Specs <- MCSpecs
  Clusters <- MCClusters
  MaxFaults = 0
PROPERTY RouteRecreatedOnce
