CONSTANTS
  MaxJoins = 2
  MaxStarts = 3
  Capacity = 2
  MaxWaits = 1
  MaxFaults = 1

SPECIFICATION AppSpec
CHECK_DEADLOCK FALSE

INVARIANTS
  AppTypeOK
  OneGameStream
  CountedOnce
  IdleIsOut
