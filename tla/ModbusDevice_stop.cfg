CONSTANTS
  MaxFail = 3
  MaxAttempts = 2
  MaxWrites = 0
SPECIFICATION FairDeviceSpec
PROPERTY StopStopsPolling
