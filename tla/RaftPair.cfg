SPECIFICATION Spec
CONSTANTS
  n1 = n1
  n2 = n2
  Peers = {n1, n2}
  NoNode = NoNode
  c1 = c1
  Commands = {c1}
  MaxTerm = 2
  MaxLog = 2
  MaxRestarts = 1
  MaxElecting = 1
  RaceWindow = TRUE
  StaleSend = TRUE
  Starters = {n1, n2}
  MaxAppends = 2
  MaxMsgs = 8
CONSTRAINT Bounded
ACTION_CONSTRAINT Prompt
SYMMETRY Symmetry
INVARIANT StateMachineSafety
 
INVARIANT TypeOK
INVARIANT OneVotePerTerm
PROPERTY VoteIsKept
 
