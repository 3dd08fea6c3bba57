SPECIFICATION Spec
CONSTANTS
  Nil = Nil
  Tracks <- LinkedTracks
  Specs <- MCSpecs
  Clusters <- MCClusters
  MaxFaults = 1
PROPERTY EventuallyInStep
