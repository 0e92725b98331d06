CONSTANTS
  c1 = c1
  c2 = c2
  Player = {1, 2}
  TotalRounds = 1
  Call = {c1}
  Points = {1, 2}
  MaxFaults = 1
  QuestionCounts = {1}

SPECIFICATION Spec
CHECK_DEADLOCK FALSE

INVARIANTS
  StatsMatchHistory
  AwardedOncePerSend
  LeaderboardAddsUp
PROPERTY ImplementsLedgerSafety
