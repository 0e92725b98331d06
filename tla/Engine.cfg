CONSTANTS
  c1 = c1
  c2 = c2
  Player = {1, 2}
  TotalRounds = 2
  Call = {c1, c2}
  Points = {1}
  MaxFaults = 0
  QuestionCounts = {2}

SPECIFICATION EngineSpec
CHECK_DEADLOCK FALSE

SYMMETRY CallSymmetry
INVARIANTS
  EngineTypeOK
  RevealedBeforeNext
  NeverStuck
