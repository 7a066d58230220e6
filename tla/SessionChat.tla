----------------------------- MODULE SessionChat -----------------------------
(***************************************************************************)
(* A session's chat, from the post of a Message to a browser's transcript. *)
(* A post allocates its seq, is appended to the Conversation's file and is *)
(* then broadcast; a turn streams in between, as start and deltas held     *)
(* behind the reservation of its seq.  A browser that connects joins rooms *)
(* and is sent the files' contents, read one by one while posts go on;     *)
(* what it is sent arrives in order.                                       *)
(***************************************************************************)
EXTENDS Naturals, Sequences, FiniteSets, SequencesExt, Filters

CONSTANTS ChatRooms,       \* Conversations of the session
          LateRooms,   \* those of agents that are spawned later
          Messages,    \* every Message posted, each one once
          Streams,     \* those an agent streams
          HomeOf,      \* the Conversation of each Message
          MaxDeltas,   \* bound: pieces a turn streams
          MaxConnects  \* bound: connections the browser makes

ASSUME ChatAssumption ==
  /\ LateRooms \subseteq ChatRooms /\ Streams \subseteq Messages
  /\ HomeOf \in [Messages -> ChatRooms]
  /\ MaxDeltas \in Nat /\ MaxConnects \in Nat

VARIABLES spawned,  \* LateRooms whose agent exists
          stream,     \* what the agent has emitted of each stream
          text,     \* pieces emitted of each stream
          post,     \* how far the post of each Message has come
          seqOf,    \* its seq, 0 before it is allocated
          nextSeq,  \* per Conversation: the store's counter
          log,      \* per Conversation: the Messages in its file
          socket,   \* the server's side of the connection: rooms and handlers
          wire,     \* what was sent to the browser and not yet handled
          asked,    \* ConversationSubscribes on their way to the server
          browser,  \* SessionChatRoom
          connects, \* connections made so far
          raced     \* history: Messages under way between the read of their
                    \* Conversation's file and the moment it was sent

chatVars == <<spawned, stream, text, post, seqOf, nextSeq, log, socket, wire, asked,
              browser, connects, raced>>
serverVars == <<spawned, stream, text, post, seqOf, nextSeq, log>>

Whole == MaxDeltas + 1  \* the content of a finished Message

Turns == {"none", "open", "ended", "failed"}
ChatPosts == {"none", "reserving", "reserved", "written", "sent", "spent"}

Shown == [id : Messages, text : 0..Whole]

Exists == (ChatRooms \ LateRooms) \cup spawned

\* No handler has started on a new socket.
NewSocket == [inSession |-> FALSE, rooms |-> {}, join |-> "none",
              unread |-> {}, read |-> {}]

NewBrowser(state) ==
  [state |-> state, buckets |-> [c \in ChatRooms |-> <<>>],
   streaming |-> {}, subscribed |-> {}]

ChatInit ==
  /\ spawned = {}
  /\ stream = [m \in Messages |-> "none"] /\ text = [m \in Messages |-> 0]
  /\ post = [m \in Messages |-> "none"] /\ seqOf = [m \in Messages |-> 0]
  /\ nextSeq = [c \in ChatRooms |-> 1] /\ log = [c \in ChatRooms |-> {}]
  /\ socket = NewSocket /\ wire = <<>> /\ asked = {}
  /\ browser = NewBrowser("offline")
  /\ connects = 0 /\ raced = {}

-----------------------------------------------------------------------------
(* The server's side of a Message *)

\* Broadcast to a Conversation's room.
Send(c, events) == wire' = IF c \in socket.rooms THEN wire \o events ELSE wire

Event(name, m) == <<[ev |-> name, id |-> m]>>

\* A Message that begins when the history was read without it and is not sent yet.
Begin(m) ==
  raced' = IF socket.join = "reading" /\ HomeOf[m] \notin socket.unread
             THEN raced \cup {m} ELSE raced

UnderWay(c) == {m \in Messages : HomeOf[m] = c /\ post[m] \notin {"none", "sent", "spent"}}

PostMessage(m) ==
  /\ m \notin Streams /\ HomeOf[m] \in Exists
  /\ post[m] = "none"
  /\ post' = [post EXCEPT ![m] = "reserving"]
  /\ Begin(m)
  /\ UNCHANGED <<spawned, stream, text, seqOf, nextSeq, log, socket, wire, asked,
                 browser, connects>>

\* emitStart, up to the reservation of the seq.
StartTurn(m) ==
  /\ m \in Streams /\ HomeOf[m] \in Exists
  /\ stream[m] = "none"
  /\ stream' = [stream EXCEPT ![m] = "open"]
  /\ post' = [post EXCEPT ![m] = "reserving"]
  /\ Begin(m)
  /\ UNCHANGED <<spawned, text, seqOf, nextSeq, log, socket, wire, asked,
                 browser, connects>>

\* emitDelta: at once, or when the seq is reserved.
Delta(m) ==
  /\ stream[m] = "open" /\ text[m] < MaxDeltas
  /\ text' = [text EXCEPT ![m] = @ + 1]
  /\ IF post[m] = "reserved" THEN Send(HomeOf[m], Event("delta", m)) ELSE UNCHANGED wire
  /\ UNCHANGED <<spawned, stream, post, seqOf, nextSeq, log, socket, asked,
                 browser, connects, raced>>

\* emitEnd: the post waits for the seq.
EndTurn(m) ==
  /\ stream[m] = "open" /\ stream' = [stream EXCEPT ![m] = "ended"]
  /\ UNCHANGED <<spawned, text, post, seqOf, nextSeq, log, socket, wire, asked,
                 browser, connects, raced>>

\* emitError: the seq is spent and nothing is posted.
FailTurn(m) ==
  /\ stream[m] = "open" /\ stream' = [stream EXCEPT ![m] = "failed"]
  /\ IF post[m] = "reserved"
       THEN /\ Send(HomeOf[m], Event("error", m))
            /\ post' = [post EXCEPT ![m] = "spent"]
       ELSE UNCHANGED <<wire, post>>
  /\ UNCHANGED <<spawned, text, seqOf, nextSeq, log, socket, asked,
                 browser, connects, raced>>

\* Mutant of Allocated: what was held goes out ahead of the start.
AllocatedHeldFirst(m) ==
  /\ post[m] = "reserving"
  /\ seqOf' = [seqOf EXCEPT ![m] = nextSeq[HomeOf[m]]]
  /\ nextSeq' = [nextSeq EXCEPT ![HomeOf[m]] = @ + 1]
  /\ LET failed == stream[m] = "failed"
         held   == [i \in 1..text[m] |-> [ev |-> "delta", id |-> m]]
         error  == IF failed THEN Event("error", m) ELSE <<>>
     IN  /\ post' = [post EXCEPT ![m] = IF failed THEN "spent" ELSE "reserved"]
         /\ IF m \in Streams
              THEN Send(HomeOf[m], held \o Event("start", m) \o error)
              ELSE UNCHANGED wire
  /\ UNCHANGED <<spawned, stream, text, log, socket, asked, browser, connects, raced>>

\* nextSeq returns: a stream's start goes out, then what was held behind it.
Allocated(m) ==
  /\ post[m] = "reserving"
  /\ seqOf' = [seqOf EXCEPT ![m] = nextSeq[HomeOf[m]]]
  /\ nextSeq' = [nextSeq EXCEPT ![HomeOf[m]] = @ + 1]
  /\ LET failed == stream[m] = "failed"
         held   == [i \in 1..text[m] |-> [ev |-> "delta", id |-> m]]
         error  == IF failed THEN Event("error", m) ELSE <<>>
     IN  /\ post' = [post EXCEPT ![m] = IF failed THEN "spent" ELSE "reserved"]
         /\ IF m \in Streams
              THEN Send(HomeOf[m], Event("start", m) \o held \o error)
              ELSE UNCHANGED wire
  /\ UNCHANGED <<spawned, stream, text, log, socket, asked, browser, connects, raced>>

\* appendMessage: the line is in the file.
Write(m) ==
  /\ post[m] = "reserved" /\ stream[m] \in {"none", "ended"}
  /\ post' = [post EXCEPT ![m] = "written"]
  /\ log' = [log EXCEPT ![HomeOf[m]] = @ \cup {m}]
  /\ UNCHANGED <<spawned, stream, text, seqOf, nextSeq, socket, wire, asked,
                 browser, connects, raced>>

\* The append returns and the Message is broadcast.
Broadcast(m) ==
  /\ post[m] = "written"
  /\ post' = [post EXCEPT ![m] = "sent"]
  /\ Send(HomeOf[m], Event(IF m \in Streams THEN "end" ELSE "message", m))
  /\ UNCHANGED <<spawned, stream, text, seqOf, nextSeq, log, socket, asked,
                 browser, connects, raced>>

\* A sub-agent comes up: the session's room is told.
Spawn(c) ==
  /\ c \in LateRooms \ spawned
  /\ spawned' = spawned \cup {c}
  /\ wire' = IF socket.inSession THEN Append(wire, [ev |-> "spawned", room |-> c]) ELSE wire
  /\ UNCHANGED <<stream, text, post, seqOf, nextSeq, log, socket, asked, browser,
                 connects, raced>>

-----------------------------------------------------------------------------
(* The server's side of a connection *)

\* handleChatJoin: the session's room first, then the agents are revived.
JoinSession ==
  /\ socket.join = "asked"
  /\ socket' = [socket EXCEPT !.join = "reviving", !.inSession = TRUE]
  /\ UNCHANGED <<serverVars, wire, asked, browser, connects, raced>>

\* joinAuthorized, then the files are read in parallel.
JoinRooms ==
  /\ socket.join = "reviving"
  /\ socket' = [socket EXCEPT !.join = "reading", !.rooms = Exists,
                              !.unread = Exists, !.read = {}]
  /\ UNCHANGED <<serverVars, wire, asked, browser, connects, raced>>

ReadLog(c) ==
  /\ socket.join = "reading" /\ c \in socket.unread
  /\ socket' = [socket EXCEPT !.unread = @ \ {c}, !.read = @ \cup log[c]]
  /\ raced' = raced \cup UnderWay(c)
  /\ UNCHANGED <<serverVars, wire, asked, browser, connects>>

\* The history is sent, and the roster behind it.
SendHistory ==
  /\ socket.join = "reading" /\ socket.unread = {}
  /\ wire' = wire \o <<[ev |-> "history", ids |-> socket.read],
                       [ev |-> "roster", rooms |-> Exists]>>
  /\ socket' = [socket EXCEPT !.join = "none", !.read = {}]
  /\ UNCHANGED <<serverVars, asked, browser, connects, raced>>

\* handleConversationSubscribe, up to the read of the Conversation's file; the
\* rooms are joined before it, and its contents sent when it was read.
Subscribe(c) ==
  /\ [room |-> c, read |-> FALSE] \in asked
  /\ socket' = [socket EXCEPT !.rooms = Exists]
  /\ asked' = (asked \ {[room |-> c, read |-> FALSE]})
                 \cup {[room |-> c, read |-> TRUE, ids |-> log[c]]}
  /\ raced' = raced \cup UnderWay(c)
  /\ UNCHANGED <<serverVars, wire, browser, connects>>

SendReplay ==
  /\ \E a \in asked :
       /\ a.read
       /\ asked' = asked \ {a}
       /\ wire' = Append(wire, [ev |-> "replay", room |-> a.room, ids |-> a.ids])
  /\ UNCHANGED <<serverVars, socket, browser, connects, raced>>

-----------------------------------------------------------------------------
(* The browser *)

BySeq(a, b) == seqOf[a.id] < seqOf[b.id]

\* Array.prototype.sort, of entries whose seqs differ.
InOrder(S) ==
  CHOOSE s \in [1..Cardinality(S) -> S] : \A i, j \in DOMAIN s : i < j => BySeq(s[i], s[j])

\* groupByConversation, of one Conversation.
Sorted(ids) == InOrder({[id |-> m, text |-> Whole] : m \in ids})

\* Mutant of Inserted: in the order of arrival.
InsertedLast(bucket, shown) == Append(bucket, shown)

\* insertBySeq: behind every Message of a seq that is not higher.
Inserted(bucket, shown) ==
  LET after == {s \in ToSet(bucket) : seqOf[s.id] > seqOf[shown.id]}
  IN  Append(Without(bucket, after), shown) \o Only(bucket, after)

\* mergeConversation: one entry for an id, what comes in wins.
Merged(bucket, ids) ==
  LET kept == {s \in ToSet(bucket) : s.id \notin ids}
  IN  InOrder(kept \cup {[id |-> m, text |-> Whole] : m \in ids})

\* editInConversation: nothing happens to an id that is not shown.  A piece adds
\* to the text, the end replaces it.
Edited(bucket, m, whole) ==
  [i \in DOMAIN bucket |->
     IF bucket[i].id # m THEN bucket[i]
     ELSE [bucket[i] EXCEPT !.text = IF whole THEN Whole ELSE @ + 1]]

Connect ==
  /\ browser.state = "offline" /\ connects < MaxConnects
  /\ connects' = connects + 1
  /\ browser' = NewBrowser("joining")
  /\ socket' = [NewSocket EXCEPT !.join = "asked"]
  /\ raced' = {}
  /\ UNCHANGED <<serverVars, wire, asked>>

\* The connection drops: what was on its way is lost.
Disconnect ==
  /\ browser.state # "offline"
  /\ browser' = [browser EXCEPT !.state = "offline", !.streaming = {}, !.subscribed = {}]
  /\ socket' = NewSocket /\ wire' = <<>> /\ asked' = {}
  /\ UNCHANGED <<serverVars, connects, raced>>

Put(b, m, shown) == [b EXCEPT !.buckets[HomeOf[m]] = Inserted(@, shown)]

\* The handlers of SessionChatRoom.wire, of the next thing sent.
HandledStart(m) ==
  Put([browser EXCEPT !.streaming = @ \cup {m}], m, [id |-> m, text |-> 0])

HandledDelta(m) ==
  IF m \in browser.streaming
    THEN [browser EXCEPT !.buckets[HomeOf[m]] = Edited(@, m, FALSE)]
    ELSE browser

\* Mutant of HandledEnd: the bubble keeps the text that streamed into it.
HandledEndKeepsText(m) == [browser EXCEPT !.streaming = @ \ {m}]

HandledEnd(m) ==
  [browser EXCEPT !.streaming = @ \ {m},
                  !.buckets[HomeOf[m]] = Edited(@, m, TRUE)]

\* Mutant of HandledError: the bubble is left to stream.
HandledErrorIgnored(m) == browser

HandledError(m) == [browser EXCEPT !.streaming = @ \ {m}]

HandledHistory(ids) ==
  [browser EXCEPT !.state = "loaded",
     !.buckets = [c \in ChatRooms |-> Sorted({m \in ids : HomeOf[m] = c})]]

Handled(e) ==
  CASE e.ev = "message" -> Put(browser, e.id, [id |-> e.id, text |-> Whole])
    [] e.ev = "start"   -> HandledStart(e.id)
    [] e.ev = "delta"   -> HandledDelta(e.id)
    [] e.ev = "end"     -> HandledEnd(e.id)
    [] e.ev = "error"   -> HandledError(e.id)
    [] e.ev = "history" -> HandledHistory(e.ids)
    [] e.ev = "replay"  -> [browser EXCEPT !.buckets[e.room] = Merged(@, e.ids)]
    [] e.ev = "roster"  -> [browser EXCEPT !.subscribed = @ \cup e.rooms]
    [] e.ev = "spawned" -> [browser EXCEPT !.subscribed = @ \cup {e.room}]

\* A Conversation the browser hears of for the first time is subscribed to.
Handle ==
  /\ wire # <<>>
  /\ browser' = Handled(Head(wire))
  /\ wire' = Tail(wire)
  /\ LET e == Head(wire)
         subscribes == e.ev = "spawned" /\ e.room \notin browser.subscribed
     IN  asked' = IF subscribes THEN asked \cup {[room |-> e.room, read |-> FALSE]}
                  ELSE asked
  /\ UNCHANGED <<serverVars, socket, connects, raced>>

-----------------------------------------------------------------------------
ChatNext ==
  \/ \E m \in Messages : \/ PostMessage(m) \/ StartTurn(m) \/ Delta(m) \/ EndTurn(m)
                         \/ FailTurn(m) \/ Allocated(m) \/ Write(m) \/ Broadcast(m)
  \/ \E c \in ChatRooms : Spawn(c) \/ ReadLog(c) \/ Subscribe(c)
  \/ JoinSession \/ JoinRooms \/ SendHistory \/ SendReplay
  \/ Connect \/ Disconnect \/ Handle

\* Awaits come back and events arrive.  A turn need not end: one whose host or
\* driver is lost emits nothing more, and settles its Run without an event.
ChatFairness ==
  /\ \A m \in Messages : WF_chatVars(Allocated(m) \/ Write(m) \/ Broadcast(m))
  /\ WF_chatVars(Handle)

ChatSpec == ChatInit /\ [][ChatNext]_chatVars
ChatFairSpec == ChatSpec /\ ChatFairness

-----------------------------------------------------------------------------
ChatTypeOK ==
  /\ spawned \subseteq LateRooms
  /\ stream \in [Messages -> Turns] /\ text \in [Messages -> 0..MaxDeltas]
  /\ post \in [Messages -> ChatPosts]
  /\ log \in [ChatRooms -> SUBSET Messages]
  /\ socket.rooms \subseteq Exists
  /\ \A c \in ChatRooms : browser.buckets[c] \in Seq(Shown)

EntriesOf(m) == {i \in DOMAIN browser.buckets[HomeOf[m]] :
                 browser.buckets[HomeOf[m]][i].id = m}

ShownWhole == {m \in Messages :
                 \E i \in EntriesOf(m) : browser.buckets[HomeOf[m]][i].text = Whole}

\* A transcript reads in the order of its seqs, whatever order appends finish and
\* broadcasts arrive in, and whatever a replay is merged into.
ReadsInOrder ==
  \A c \in ChatRooms : LET b == browser.buckets[c] IN
    \A i, j \in DOMAIN b : i < j => seqOf[b[i].id] <= seqOf[b[j].id]

\* A streaming bubble holds every piece sent so far but those still on the wire:
\* no piece overtakes the start it belongs to.
BubbleIsWhole ==
  \A m \in browser.streaming : \A i \in EntriesOf(m) :
    LET b == browser.buckets[HomeOf[m]][i]
        coming == Len(Only(wire, {[ev |-> "delta", id |-> m]}))
    IN  b.text # Whole /\ HomeOf[m] \in socket.rooms => b.text + coming = text[m]

Quiet == wire = <<>> /\ asked = {} /\ socket.join = "none" /\ browser.state = "loaded"

ShowsOnce(m) ==
  Cardinality(EntriesOf(m)) = 1 /\ m \in ShownWhole

\* A browser that has caught up shows every Message of its rooms exactly once and
\* whole, whichever connection, history, replay or broadcast brought it, but for
\* those under way after its file was read and before what was read was sent.
CaughtUp ==
  Quiet => \A m \in Messages :
             (post[m] = "sent" /\ m \notin raced) => ShowsOnce(m)

\* "agent:end is persisted before it is broadcast, so a client that reconnects
\* mid-stream still sees the message in chat:history."
MidStreamIsSeen ==
  Quiet => \A m \in Streams : post[m] = "sent" => m \in ShownWhole

\* A turn whose end or error was emitted does not leave its bubble streaming,
\* however the event, the seq it is held behind and a reconnect are ordered.  (The
\* bubble of a turn that ends without either streams until the page reconnects.)
BubbleSettles ==
  \A m \in Streams : m \in browser.streaming /\ stream[m] # "open"
                       ~> m \notin browser.streaming
=============================================================================
