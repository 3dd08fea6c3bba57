SPECIFICATION Spec
CONSTANTS
  Nil = Nil
  Workers = {w1, w2}
  ConfigMaps <- MCConfigMaps
  MaxEdits = 1
  MaxFaults = 1
INVARIANT TypeOK
PROPERTIES
  UsesWhatItRead
  MigrationFaithful
  EventuallyMigrated
