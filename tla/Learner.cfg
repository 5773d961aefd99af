SPECIFICATION FairSpec
CONSTANTS
  MaxLog = 3
  MaxLeaves = 0
PROPERTY LearnsInTheEnd
CHECK_DEADLOCK FALSE
