\* With INVARIANT NoHopLingers instead: a hop that stays recorded (README, 6).
SPECIFICATION CascadeSpec
CONSTANTS
  prime = prime
  worker = worker
  main = main
  thread = thread
  Human = human
  ThreadOf <- Threads
  Rooms <- AllRooms
  Participants <- Everyone
  Conversations <- Memberships
  Members <- Joined
  Policy <- DerivedPolicy
  Kind = "pi"
  MaxDepth = 2
  MaxReactions = 2
  MaxPosts = 4
INVARIANTS
  HopsAreCounted
CHECK_DEADLOCK FALSE
