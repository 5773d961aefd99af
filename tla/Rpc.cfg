SPECIFICATION FairSpec
CONSTANTS
  f = f
  p = p
  q = q
  Functions = {f}
  Providers = {p, q}
  MaxCalls = 1
  MaxChanges = 3
  MaxDuplicates = 1
  MaxFloods = 2
INVARIANT AtMostOnce
PROPERTY ServicesKnown
CHECK_DEADLOCK FALSE
PROPERTY CallsEnd
