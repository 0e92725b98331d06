CONSTANTS
  PerDifficulty = 2
  RoundCounts = {1, 4, 5, 7, 10}
  Times <- MCTimes
  TimeLimit = 15000
  MaxSeedings = 2
  MaxAnswers = 2

SPECIFICATION QuestionsSpec
CHECK_DEADLOCK FALSE

INVARIANTS
  SelectionInOrder
  SelectionComplete
  PointsFollowDifficulty
