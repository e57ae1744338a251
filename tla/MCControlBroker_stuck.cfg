SPECIFICATION FairSpec
CONSTANTS
  c1 = c1
  c2 = c2
  Sessions = {c1, c2}
  Streams = {"stdout"}
  Regimes <- OnePipe
  MaxConnections = 1
  WireCapacity = 1
  StdinCapacity = 1
  MaxOutput = 1
  MaxInput = 2
PROPERTY DisconnectEndsCommand
CHECK_DEADLOCK FALSE
