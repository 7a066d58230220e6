SPECIFICATION Spec
CONSTANTS
  thread = thread
  room = room
  hall = hall
  Conversations = {thread}
  Policy <- PeerPolicy
  Kind = "a2a"
  MaxWakes = 2
  MaxRestarts = 0
PROPERTIES
  GoneIsGone
CHECK_DEADLOCK FALSE
