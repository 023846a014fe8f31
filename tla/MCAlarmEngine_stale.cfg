CONSTANTS
  Tags = {t1, t2}
  NoTag = NoTag
  OffDelayTags = {}
  Limits <- HighOnly
  ChatterLimit = 3
  BatchSize = 1
  FloodThreshold = 2
  MaxAutoShelve = 1
SPECIFICATION StaleSpec
INVARIANT AcknowledgedByOperator
