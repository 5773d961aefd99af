SPECIFICATION Spec
CONSTANTS
  c1 = c1
  c2 = c2
  c3 = c3
  Candidates = {c1, c2, c3}
  BaseOvertimeT = 10
  Offsets = {0, 9}
  MaxDelay = 1
  MaxLag = 1
SYMMETRY Symmetry
VIEW Live
INVARIANT ConflictIsShort
INVARIANT FailoverInTime
PROPERTY EstablishedStays
