SPECIFICATION Spec
CONSTANTS
  n1 = n1
  n2 = n2
  n3 = n3
  Peers = {n1, n2, n3}
  NoNode = NoNode
  c1 = c1
  Commands = {c1}
  MaxTerm = 2
  MaxLog = 2
  MaxRestarts = 0
  MaxElecting = 1
  RaceWindow = FALSE
  StaleSend = FALSE
  Starters = {n1, n2}
  MaxAppends = 2
  MaxMsgs = 9
CONSTRAINT Bounded
ACTION_CONSTRAINT Prompt
SYMMETRY Symmetry
 
 
INVARIANT LogMatching
 
 
