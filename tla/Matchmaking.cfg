CONSTANTS
  i1 = i1
  i2 = i2
  i3 = i3
  Player <- MCPlayer
  Rating <- MCRating
  BucketSize = 200
  MinPlayers = 2
  MaxPlayers = 2
  Capacity = 1
  Instance <- MCInstance
  Deployments <- MCDeployments
  Subscribable = {i3}
  Restless = {2}
  MaxTickets = 3
  MaxFaults = 1
SPECIFICATION MatchmakingSpec
CHECK_DEADLOCK FALSE
INVARIANTS
  MatchmakingTypeOK
  OneRoomPerTicket
  SubscribersAreTold
PROPERTIES
  LossHasACause
  TwoAreTakenSoon
  ImplementsSeating
