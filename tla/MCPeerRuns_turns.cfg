SPECIFICATION FairSpec
CONSTANTS
  thread = thread
  room = room
  hall = hall
  Conversations = {room, hall}
  Policy <- PeerPolicy
  Kind = "a2a"
  MaxWakes = 3
  MaxRestarts = 1
INVARIANTS
  OpenRunHasTurn
PROPERTIES
  EndsOnlyItsRun
  TurnsEnd
CHECK_DEADLOCK FALSE
