SPECIFICATION FairSpec
CONSTANTS
  home = home
  thread = thread
  room = room
  Conversations = {home, thread, room}
  Policy <- MixedPolicy
  Kind = "pi"
  IsPrime = FALSE
  MaxWakes = 3
  MaxRuns = 3
  MaxLosses = 2
INVARIANTS
  HeldBehindRun
PROPERTIES
  RefinesLedger
  UndisturbedRelease
CHECK_DEADLOCK FALSE
