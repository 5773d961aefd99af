SPECIFICATION FairSpec
CONSTANTS
  Sessions = {1, 2}
  Ids = {"x", "y"}
  IdChoices <- TwoClientsOrOne
  Early = {2}
  Providers = {"x"}
  MayEnd = {1}
  MayAsk <- FirstAsks
  SendChSize = 2
  MaxOps = 2
INVARIANT AnswersMatch
INVARIANT NothingLeft
INVARIANT WishesKept
CHECK_DEADLOCK FALSE
PROPERTY NobodyHangs
