SPECIFICATION DeliverySpec
CONSTANTS
  prime = prime
  worker = worker
  main = main
  thread = thread
  Human = human
  ThreadOf <- Threads
  Rooms <- AllRooms
  Participants <- Agencies
  Conversations <- Memberships
  Members <- Joined
  Policy <- DerivedPolicy
  Kind = "pi"
  MaxDepth = 2
  MaxReactions = 2
  MaxPosts = 4
  Agents = {a, b}
  Everyone = everyone
  Polls = {k1, k2}
  MaxPushes = 3
  ChatRooms <- AllRooms
  LateRooms = {thread}
  Messages = {hello, reply}
  Streams = {reply}
  HomeOf <- InThread
  MaxDeltas = 1
  MaxConnects = 2
  Directives = {d1, d2}
  Mail = {m1, m2}
  Waits = {w1}
  MaxUpdates = 1
  MaxFaults = 1
  chatWindow = chatWindow
  treeWindow = treeWindow
  fileWindow = fileWindow
  Pages = {page1, page2}
  StartOrder <- OpeningOrder
  HomeSide <- DockedAt
  StartVisible = {chatWindow, fileWindow}
  Hideable = {treeWindow}
  Closable = {fileWindow}
  MaxMoves = 5
INVARIANTS
  TypesOK
  BudgetHolds
  IdleRidesNothing
  NobodyWaitsInVain
  DeliveredOnceInOrder
  ReadsInOrder
  BubbleIsWhole
  CaughtUp
  DeskIsSound
  DirectivesKept
PROPERTIES
  BubbleSettles
  ReloadKeepsDesk
  MailIsServed
CHECK_DEADLOCK FALSE
