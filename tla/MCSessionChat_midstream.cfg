SPECIFICATION ChatSpec
CONSTANTS
  thread = thread
  ChatRooms = {thread}
  LateRooms = {}
  Messages = {reply}
  Streams = {reply}
  HomeOf <- InThread
  MaxDeltas = 1
  MaxConnects = 2
INVARIANT MidStreamIsSeen
CHECK_DEADLOCK FALSE
