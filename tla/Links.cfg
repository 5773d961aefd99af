SPECIFICATION FairSpec
CONSTANTS
  a = a
  b = b
  c = c
  NoNode = NoNode
  Nodes = {a, b, c}
  Cables <- Triangle
  Costs <- SomeDear
  MaxVersion <- OneMoreRound
  Fragile <- OneCable
  MaxFailures = 1
 
INVARIANT RoutesAreCheapest
INVARIANT ForwardingArrives
CHECK_DEADLOCK FALSE
PROPERTY Discovered
VIEW WithoutTables
CONSTRAINT NobodyStuck
