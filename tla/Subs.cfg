SPECIFICATION MCSpec
CONSTANTS
  a = a
  b = b
  c = c
  x = x
  Nodes = {a, b, c}
  Neighbours <- Line
  Clients = {x}
  Subscribers = {a}
  Members = {c}
  Slots <- TwoSlots
  MaxChanges = 3
  MaxCleanups = 1
PROPERTY FloodsEnd
CHECK_DEADLOCK FALSE
PROPERTY EverybodyKnows
