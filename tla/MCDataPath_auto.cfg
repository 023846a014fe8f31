CONSTANTS
  PlantTags <- BothTags
  SpTag <- PvAndSp
  NoSp = NoSp
  EngLow = 0
  EngHigh = 8
  MaxRaw = 15
  Threshold <- FourLimits
  Deadband = 1
  RocLimit = 2
  Gaps = {0, 1, 25}
  DeviationLimit = 2
  None = None
  Register <- Registers
SPECIFICATION OperateSpec
PROPERTY AutoModeSendsSetPoint
