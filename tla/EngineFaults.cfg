CONSTANTS
  c1 = c1
  c2 = c2
  Player = {1, 2}
  TotalRounds = 2
  Call = {c1}
  Points = {1}
  MaxFaults = 1
  QuestionCounts = {0, 1, 2}

SPECIFICATION EngineSpec
CHECK_DEADLOCK FALSE

INVARIANT NoRoundSkipped
PROPERTIES
  EngineImplementsProgressSafety
  EngineKeepsGoing
