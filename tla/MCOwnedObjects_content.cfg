SPECIFICATION Spec
CONSTANTS
  Nil = Nil
  Tracks <- AllTracks
  Specs <- MCSpecs
  Clusters <- MCClusters
  MaxFaults = 1
INVARIANTS
  TypeOK
  RecordedUnlessLost
  RejectionsExplained
PROPERTIES
  NothingLeftBehind
  OthersKept
  OwnersRespected
  Idempotent
