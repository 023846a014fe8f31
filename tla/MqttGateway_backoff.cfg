\* The delays of the code, in milliseconds.
CONSTANTS
  Topics = {p1}
  BaseMs = 5000
  MaxMs = 60000
  MaxInt = 2147483647
  HeartbeatSecs = 30
  MaxTries = 20
  MaxWills = 1
SPECIFICATION FairGatewaySpec
INVARIANT DelayInBounds
