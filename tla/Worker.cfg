SPECIFICATION FairSpec
CONSTANTS
  MaxConns = 4
  MaxTrouble = 1
  MaxFailures = 1
  MaxDataSize = 2
  RegisterSize = 4
  MayShutDown = {"client"}
INVARIANT FewConnections
INVARIANT FramesRejoin
PROPERTY ConnectedInTheEnd
PROPERTY ClosedLeavesNothing
CHECK_DEADLOCK FALSE
