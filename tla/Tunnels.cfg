SPECIFICATION FairSpec
CONSTANTS
  a = a
  b = b
  Code = Code
  Nodes = {a, b}
  PeerOf <- EachOther
  Listeners <- SomeListeners
  MaxTunnels = 2
  MaxData = 1
INVARIANT StreamsApart
 
PROPERTY CallsDecide
CHECK_DEADLOCK FALSE
 
