SPECIFICATION FairSpec
CONSTANTS
  thread = thread
  room = room
  hall = hall
  Conversations = {thread, room, hall}
  Policy <- RemotePolicy
  Kind = "remote"
  MaxWakes = 3
  MaxSockets = 3
  MaxRestarts = 1
INVARIANTS
  OpenRunIsReachable
PROPERTIES
  ReconnectedHostKeepsItsWork
  GoneIsGone
  HeldGoesWithItsHost
CHECK_DEADLOCK FALSE
