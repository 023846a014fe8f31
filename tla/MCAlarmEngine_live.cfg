CONSTANTS
  Tags = {t1}
  NoTag = NoTag
  OffDelayTags = {t1}
  Limits <- HighOnly
  ChatterLimit = 2
  BatchSize = 1
  FloodThreshold = 2
  MaxAutoShelve = 1
SPECIFICATION LiveSpec
PROPERTIES
  FloodEnds
  TimedShelveEnds
  ViolationAnnounced
  ReturnNoticed
