SPECIFICATION FairSpec
CONSTANTS
  home = home
  thread = thread
  room = room
  Conversations = {home, thread}
  Policy <- PrimePolicy
  Kind = "pi"
  IsPrime = TRUE
  MaxWakes = 3
  MaxRuns = 3
  MaxLosses = 2
PROPERTIES
  HeldWakeIsReleased
CHECK_DEADLOCK FALSE
