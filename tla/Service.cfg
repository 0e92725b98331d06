CONSTANTS
  User = {1}
  Conn = {1, 2}
  Owner <- MCOwner
  Capacity = 1
  Event = {1, 2}
  Msg = {1, 2}
  Poison = {1}
  Prefetch = 2
  DialAttempts = 2
  MaxStarts = 2
  MaxFaults = 2

SPECIFICATION ServiceSpec
CHECK_DEADLOCK FALSE

INVARIANTS
  ServiceTypeOK
  RegisteredAreOpen
  RegisteredAreServed
  OnlyAReturnCloses
  RepeatedWereCutOff
PROPERTIES
  ImplementsWorkQueue
  MessagesAreSettled
  ShutdownWaitsForClientsOnly
