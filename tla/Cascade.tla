-------------------------------- MODULE Cascade ------------------------------
(***************************************************************************)
(* FanOutEngine over several Pi participants: a Message wakes the members  *)
(* that react to it, their replies are Messages that wake others, and the  *)
(* wave each participant rides bounds the cascade by a depth and by a      *)
(* budget per Conversation.  A Message is persisted (real file I/O) before *)
(* its fan-out runs, so its author's turn goes on, or ends, in between.    *)
(*                                                                         *)
(* RunEngine's seat is one participant's, so its Conversations are here    *)
(* memberships: pairs of a room and a participant.                         *)
(***************************************************************************)
EXTENDS RunEngine

CONSTANTS Rooms, Participants,
          Members,       \* the members of each room, in the order they are woken
          Human,         \* an author that is no participant
          ThreadOf,      \* the thread of each sub-agent, where its tools report
          MaxDepth,      \* MAX_WAVE_DEPTH
          MaxReactions,  \* MAX_CONVERSATION_REACTIONS
          MaxPosts       \* bound: Messages posted

ASSUME CascadeAssumption ==
  /\ Kind = "pi"
  /\ Conversations = Rooms \X Participants
  /\ Members \in [Rooms -> Seq(Participants)]
  /\ \A r \in Rooms : \A i, j \in DOMAIN Members[r] :
       Members[r][i] = Members[r][j] => i = j
  /\ Human \notin Participants
  /\ DOMAIN ThreadOf \subseteq Participants /\ ThreadOf \in [DOMAIN ThreadOf -> Rooms]
  /\ {MaxDepth, MaxReactions, MaxPosts} \subseteq Nat \ {0}

VARIABLES seats,   \* each participant's seat
          turn,    \* each process's turn: "none", "asked" or "begun"
          waves,   \* FanOutEngine.waves
          spent,   \* FanOutEngine.spent
          posts,   \* Messages of each room whose fan-out is still to run
          minted,  \* wave ids (UUIDs in the code) handed out
          hops,    \* history: automatic hops from the last human to each wake
          charged, \* history: wakes each wave caused in each room
          said     \* Messages posted so far (for the bound)

cascadeVars == <<seats, turn, waves, spent, posts, minted, hops, charged, said>>

NoWave == [id |-> 0, depth |-> 0]
Waves  == 1 .. MaxPosts
Posts  == [author : Participants \cup {Human}, fresh : BOOLEAN, hops : Nat]
IsMember(p, r) == \E i \in DOMAIN Members[r] : Members[r][i] = p

CascadeInit ==
  /\ seats = [p \in Participants |-> FreshSeat]
  /\ turn = [p \in Participants |-> "none"]
  /\ waves = [p \in Participants |-> NoWave]
  /\ spent = [x \in Waves \X Rooms |-> 0]
  /\ posts = [r \in Rooms |-> <<>>]
  /\ minted = 0
  /\ hops = [p \in Participants |-> 0]
  /\ charged = [x \in Waves \X Rooms |-> 0]
  /\ said = 0

-----------------------------------------------------------------------------
(* Helpers *)

\* The state a dispatch's deliveries and a settle's release both change.
Now == [seats |-> seats, turn |-> turn, waves |-> waves, spent |-> spent,
        hops |-> hops, charged |-> charged]

Becomes(st) ==
  /\ seats' = st.seats /\ turn' = st.turn /\ waves' = st.waves
  /\ spent' = st.spent /\ hops' = st.hops /\ charged' = st.charged

\* Mutant of Evict: the budget goes with the first rider that leaves.
EvictReclaims(st, p) ==
  LET w == st.waves[p].id
  IN  [st EXCEPT !.waves[p] = NoWave,
                 !.spent = [x \in DOMAIN @ |-> IF x[1] = w THEN 0 ELSE @[x]]]

\* evictWave: the budget of the wave is shared by its riders, so it is reclaimed
\* when the last of them leaves.
Evict(st, p) ==
  LET w    == st.waves[p].id
      left == [st EXCEPT !.waves[p] = NoWave]
  IN  IF w = 0 \/ \E q \in Participants : left.waves[q].id = w
        THEN left
        ELSE [left EXCEPT !.spent = [x \in DOMAIN @ |-> IF x[1] = w THEN 0 ELSE @[x]]]

\* p's handler leaves seat a: its process has a turn to begin when it was
\* prompted, and the settle listener may have ended its chain.
Seated(st, p, a) ==
  LET next == [st EXCEPT !.seats[p] = a,
                         !.turn[p] = IF @ = "none" /\ a.busy THEN "asked" ELSE @]
  IN  IF a.riding THEN next ELSE Evict(next, p)

\* abort: a running turn is signalled, its Run stays open until agent_end.
Aborted(a) == [cancelled |-> a.busy, seat |-> a]

\* deliver for member p, after spend: the hop is recorded, then admitted.  A delivery
\* that is refused, by the policy or for want of a process, leaves the hop recorded.
Reach(st, p, r, wave, n) ==
  LET a    == Arrive(st.seats[p], <<r, p>>)
      next == [st EXCEPT !.waves[p] = [id |-> wave.id, depth |-> wave.depth + 1],
                         !.spent[<<wave.id, r>>] = @ + 1,
                         !.hops[p] = n + 1,
                         !.charged[<<wave.id, r>>] = @ + 1]
  IN  Seated(next, p, Admit(a, <<r, p>>, Len(a.wakes), Aborted(a)))

-----------------------------------------------------------------------------
(* Messages *)

Post(r, author, fresh, n) ==
  /\ said < MaxPosts
  /\ said' = said + 1
  /\ posts' = [posts EXCEPT ![r] = Append(@, [author |-> author, fresh |-> fresh, hops |-> n])]
  /\ UNCHANGED <<seats, turn, waves, spent, minted, hops, charged>>

HumanPosts(r) == Post(r, Human, TRUE, 0)

\* A participant finalizes a reply, or posts into another room it is a member of.
Speak(p, r) ==
  /\ turn[p] = "begun" /\ IsMember(p, r)
  /\ Post(r, p, FALSE, hops[p])

\* A sub-agent reports by a tool in its own thread: "only automatic reactions
\* accumulate depth", so the chain starts anew.
Report(p) == turn[p] = "begun" /\ Post(ThreadOf[p], p, TRUE, 0)

\* waveFor: the wave its author rides by now, or a fresh one.
WaveFor(message) ==
  IF \/ message.author = Human \/ message.fresh
     \/ waves[message.author] = NoWave
  THEN [id |-> minted + 1, depth |-> 0]
  ELSE waves[message.author]

\* The two bounds of a cascade.
TooDeep(wave) == wave.depth + 1 > MaxDepth

Exhausted(st, w, r) == st.spent[<<w, r>>] >= MaxReactions

\* A member's share of a dispatch: its author is passed over, and so is everybody
\* once the budget of the wave in this room is spent.
Offered(st, p, r, wave, message) ==
  IF p = message.author \/ Exhausted(st, wave.id, r) THEN st
  ELSE Reach(st, p, r, wave, message.hops)

\* dispatch: the oldest Message of the room is offered to its members, one after
\* the other, unless the wave is too deep.
Dispatch(r) ==
  /\ posts[r] # <<>>
  /\ LET message == Head(posts[r])
         wave    == WaveFor(message)
         after[i \in 0 .. Len(Members[r])] ==
           IF i = 0 THEN Now ELSE Offered(after[i - 1], Members[r][i], r, wave, message)
     IN  /\ Becomes(IF TooDeep(wave) THEN Now ELSE after[Len(Members[r])])
         /\ minted' = IF wave.id > minted /\ \E p \in Participants \ {message.author} : IsMember(p, r)
                        THEN wave.id ELSE minted
  /\ posts' = [posts EXCEPT ![r] = Tail(@)]
  /\ UNCHANGED said

-----------------------------------------------------------------------------
(* Turns of the Pi processes, which come and go between turns (PiRuns has what fails *)
(* in the middle of one)                                                             *)

AgentStart(p) ==
  /\ turn[p] = "asked"
  /\ turn' = [turn EXCEPT ![p] = "begun"]
  /\ UNCHANGED <<seats, waves, spent, posts, minted, hops, charged, said>>

AgentEnd(p) ==
  /\ turn[p] = "begun"
  /\ Becomes(Seated([Now EXCEPT !.turn[p] = "none"], p,
                    SettleOpenFor([seats[p] EXCEPT !.busy = FALSE])))
  /\ UNCHANGED <<posts, minted, said>>

\* A process between turns is killed, or crashes; one that is gone is launched anew.
ComesOrGoes(p) ==
  /\ turn[p] = "none"
  /\ seats' = [seats EXCEPT ![p].up = ~@]
  /\ UNCHANGED <<turn, waves, spent, posts, minted, hops, charged, said>>

-----------------------------------------------------------------------------
CascadeNext ==
  \/ \E r \in Rooms : HumanPosts(r) \/ Dispatch(r)
  \/ \E p \in Participants, r \in Rooms : Speak(p, r)
  \/ \E p \in DOMAIN ThreadOf : Report(p)
  \/ \E p \in Participants : AgentStart(p) \/ AgentEnd(p) \/ ComesOrGoes(p)

CascadeSpec == CascadeInit /\ [][CascadeNext]_cascadeVars

-----------------------------------------------------------------------------
CascadeTypeOK ==
  /\ seats \in [Participants -> Seats]
  /\ turn \in [Participants -> {"none", "asked", "begun"}]
  /\ waves \in [Participants -> [id : 0 .. MaxPosts, depth : 0 .. MaxDepth]]
  /\ spent \in [Waves \X Rooms -> 0 .. MaxReactions]
  /\ posts \in [Rooms -> Seq(Posts)]
  /\ minted \in 0 .. MaxPosts /\ said \in 0 .. MaxPosts

\* A wave wakes no more often in one Conversation than its budget allows, though
\* the budget is reclaimed and wave ids live on in their riders (spend,
\* evictWave).
BudgetHolds == \A x \in DOMAIN charged : charged[x] <= MaxReactions

Idle(p) == seats[p].cur = NoRun /\ turn[p] = "none"

\* The last wake of a seat was refused.
Refused(a) == a.wakes # <<>> /\ a.wakes[Len(a.wakes)].fate = "refused"

\* A finished chain leaves its wave (the settle listener): a participant with nothing
\* to do and nothing held rides none, unless the last wake it was sent was refused.
IdleRidesNothing ==
  \A p \in Participants : Idle(p) => waves[p] = NoWave \/ Refused(seats[p])

\* Not so: a chain that is over is off its wave ("Without this the last depth lingers
\* forever, so GET /workflow reports a finished cascade", fanOut.ts:457-458).  The hop of
\* a delivery that is refused is recorded, and no Run of it settles.
NoHopLingers == \A p \in Participants : Idle(p) => waves[p] = NoWave

\* Whoever has a wake held back is at work, and its turn's end releases it: no
\* two participants wait for each other (admission.ts, onAgentEnd).
HeldBehindTurn == \A p \in Participants : seats[p].held # <<>> => turn[p] # "none"

\* Every automatic hop is counted against the depth (FanOutEngine).
HopsAreCounted == \A p \in Participants : hops[p] <= MaxDepth
=============================================================================
