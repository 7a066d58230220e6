SPECIFICATION FairSpec
CONSTANTS
  thread = thread
  room = room
  hall = hall
  Conversations = {thread, room, hall}
  Policy <- TabPolicy
  Kind = "external"
  Overlap = 2
  MaxWakes = 3
  MaxRuns = 3
  MaxRestarts = 1
INVARIANTS
  OneOpenRun
  OpenRunHasTurn
PROPERTIES
  HeldWakeIsReleased
  QueuedIsCollected
CHECK_DEADLOCK FALSE
