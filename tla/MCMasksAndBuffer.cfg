CONSTANTS
  Tags = {t1}
  NoTag = NoTag
  OffDelayTags = {t1}
  Limits <- HighAndCritical
  ChatterLimit = 2
  BatchSize = 1
  FloodThreshold = 2
  MaxAutoShelve = 2
  BufferedTags = {b1, b2}
  Values = {v1}
  Readers = {r1, r2}
  Absent = Absent
  Closed = Closed
  Maps = {0, 1, 2, 3, 4, 5}
  FirstMap = 0
  NoMap = NoMap
  PoolSize = 1
SPECIFICATION QuestionSpec
INVARIANTS
  TypeOK
  PendingImpliesViolating
  NoOrphanMask
  ShelvedHasRelease
  CriticalNotFloodShelved
  MapsHaveOneOwner
  MapsBounded
PROPERTY ImplementsStore
