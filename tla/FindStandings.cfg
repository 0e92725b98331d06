CONSTANTS
  c1 = c1
  c2 = c2
  Player = {1, 2}
  TotalRounds = 1
  Call = {c1, c2}
  Points = {1}
  MaxFaults = 0
  QuestionCounts = {1}

SPECIFICATION Spec
CHECK_DEADLOCK FALSE

PROPERTY StandingsAreFinal
