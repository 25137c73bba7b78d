SPECIFICATION Spec
CONSTANTS
  LastDay = 2
  Types = {t}
  Bronze <- MCBronze
  Raw <- MCRaw
  Workers = 1
  Pids = {1, 2}
  MaxTrouble = 2
  NoFile = NoFile
  t = t
INVARIANTS
  TypeOK
  ClaimedDayIsBuilt
PROPERTIES
  CompletedDayIsLeft
  PoolIsQueue
  PoolEnds
  RangeCompletes
