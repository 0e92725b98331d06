CONSTANTS
  Player = {1}
  TotalRounds = 2
  Points = {100}
  MaxFaults = 0
  Call = {1}
  QuestionCounts = {2}
  User = {1}
  Conn = {1}
  Owner <- MCOwner
  Capacity = 2
  Event <- GameEvent
  Round <- MCRound
  Me = 1
  Mine = 1
  MaxSyncs = 1

SPECIFICATION LiveSpec
CHECK_DEADLOCK FALSE

INVARIANTS
  LiveTypeOK
  BookedUnderItsRound
  CountdownOfTheRound
PROPERTIES
  EndIsSeen
