CONSTANTS
  Tags = {t1}
  NoTag = NoTag
  OffDelayTags = {}
  Limits <- CriticalOnly
  ChatterLimit = 3
  BatchSize = 1
  FloodThreshold = 2
  MaxAutoShelve = 2
SPECIFICATION MaskSpec
PROPERTY ReleasedAsItWas
