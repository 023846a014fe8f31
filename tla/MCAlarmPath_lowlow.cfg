CONSTANTS
  Tags = {t1}
  NoTag = NoTag
  OffDelayTags = {}
  Limits <- LowAndLowLow
  ChatterLimit = 3
  BatchSize = 1
  FloodThreshold = 2
  MaxAutoShelve = 1
  PlantTags = {t1}
  SpTag <- NoSetPoints
  NoSp = NoSp
  EngLow = 0
  EngHigh = 6
  MaxRaw = 6
  Threshold <- SampledLimits
  Deadband = 0
  RocLimit = 6
  Gaps = {1}
  DeviationLimit = 6
  None = None
  First = t1
  Samples <- LowSide
  Configured = {"Low", "LowLow"}
SPECIFICATION SampledSpec
PROPERTY LowLowShown
