CONSTANTS
  PerDifficulty = 2
  RoundCounts = {5}
  Times <- MCTimes
  TimeLimit = 15000
  MaxSeedings = 1
  MaxAnswers = 1

SPECIFICATION QuestionsSpec
CHECK_DEADLOCK FALSE

INVARIANTS
  PointsWithinMaximum
