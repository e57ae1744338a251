SPECIFICATION FairSpec
CONSTANTS
  c1 = c1
  c2 = c2
  Sessions = {c1, c2}
  Streams = {"stdout", "stderr", "tty"}
  Regimes <- PipesAndTerminals
  MaxConnections = 1
  WireCapacity = 1
  StdinCapacity = 1
  MaxOutput = 2
  MaxInput = 2
INVARIANTS Admission SuccessIsTruthful SuccessIsComplete
PROPERTIES ImplementsRemoteCommand KillsOnlyAbandoned AbandonedCommandEnds TokenComesBack
CHECK_DEADLOCK FALSE
