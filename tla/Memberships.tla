------------------------------ MODULE Memberships -----------------------------
(***************************************************************************)
(* Who is in a session and in each of its Conversations: the rows of the   *)
(* store, the registry's cache over them, which derives the rows a         *)
(* Conversation starts with on the first read, and the people's presence,  *)
(* counted by their browser tabs.  Every operation awaits nothing but the  *)
(* synchronous database, so each one is a step.                            *)
(***************************************************************************)
EXTENDS Naturals, FiniteSets

CONSTANTS Orchestrator, HomeThread,  \* and the Conversation it is at home in
          Workers, ThreadOf,         \* agents to be spawned, and theirs
          People, Automation,
          Tabs,                      \* browser tabs, of anybody
          MaxEdits,                  \* bound: invitations, revocations and edits
          MaxRestartsOfServer        \* bound

Threads == {HomeThread} \cup {ThreadOf[w] : w \in Workers}
Members == {Orchestrator, Automation} \cup Workers \cup People
NotCached == [loaded |-> FALSE, rows |-> [c \in Threads |-> {}]]

ASSUME MembershipAssumption ==
  /\ IsFiniteSet(Tabs) /\ MaxEdits \in Nat /\ MaxRestartsOfServer \in Nat
  /\ Orchestrator \notin Workers \cup People /\ Workers \cap People = {}
  /\ \A v, w \in Workers : /\ ThreadOf[w] # HomeThread
                           /\ ThreadOf[v] = ThreadOf[w] => v = w

VARIABLES roster,    \* workers whose row is stored
          relaying,  \* those that relay to the orchestrator at the end of a run
          person,    \* each person's row
          automated, \* whether the automation's row is stored
          stored,    \* MembershipStore: the rows of each Conversation
          cached,    \* MembershipRegistry.cache of the session
          tabOf,     \* whose socket a tab is, once it has joined
          tracked,   \* tabs whose socket holds up its person's presence
          counted,   \* PresenceTracker.counts
          edits,     \* invitations, revocations and edits so far
          restarts,     \* restarts of the server so far
          removed,   \* history: members that left or were closed out
          ahead,     \* history: Conversations written to before their worker's row
          unsettled  \* history: people whose presence was set aside from their tabs

memberVars == <<roster, relaying, person, automated, stored, cached, tabOf, tracked,
                counted, edits, restarts, removed, ahead, unsettled>>
presenceVars == <<tabOf, tracked, counted>>

\* A membership: addressable wakes on people and mentions, atRunEnd on the end of a
\* run and mentions, mentionsMe on mentions alone, inert never.
Reactions == {"addressable", "atRunEnd", "mentionsMe", "inert"}
MembershipRows == [who : Members, reaction : Reactions, muted : BOOLEAN]

Row(who, reaction) == [who |-> who, reaction |-> reaction, muted |-> FALSE]

Persons == [row : {"none", "invited", "revoked"},
            presence : {"away", "connected", "detached"}]

Known == {c \in Threads : c = HomeThread \/ \E w \in roster : c = ThreadOf[w]}

MemberInit ==
  /\ roster = {} /\ relaying = {}
  /\ person = [p \in People |-> [row |-> "none", presence |-> "away"]]
  /\ automated = FALSE
  /\ stored = [c \in Threads |-> {}]
  /\ cached = NotCached
  /\ tabOf = [t \in Tabs |-> {}] /\ tracked = {}
  /\ counted = [p \in People |-> 0]
  /\ edits = 0 /\ restarts = 0
  /\ removed = {} /\ ahead = {} /\ unsettled = {}

-----------------------------------------------------------------------------
(* MembershipRegistry *)

\* derive, for a Conversation whose owner is known.
Derived(c) ==
  IF c = HomeThread THEN {Row(Orchestrator, "addressable")}
  ELSE LET w == CHOOSE w \in Workers : ThreadOf[w] = c
       IN  {Row(w, "addressable"),
            Row(Orchestrator, IF w \in relaying THEN "atRunEnd" ELSE "mentionsMe")}

\* membersOf: a Conversation without rows is derived, and they are stored; until the
\* row of its worker has landed they are answered, and kept nowhere.
InUse == IF cached.loaded THEN cached.rows ELSE stored
Resolved(c) == IF InUse[c] # {} \/ c \notin Known THEN InUse[c] ELSE Derived(c)
Kept(c) == IF InUse[c] # {} \/ c \notin Known THEN stored[c]
           ELSE Derived(c) \cup {r \in stored[c] : \A d \in Derived(c) : d.who # r.who}

\* put: an upsert by Conversation and participant.
PutRow(rows, row) == {r \in rows : r.who # row.who} \cup {row}
Dropped(rows, who) == {r \in rows : r.who # who}

\* A fan-out, or anything else that asks who is in a Conversation.
ReadMembers(c) ==
  /\ ~(cached.loaded /\ cached.rows[c] # {})
  /\ cached' = [loaded |-> TRUE, rows |-> [InUse EXCEPT ![c] = Resolved(c)]]
  /\ stored' = [stored EXCEPT ![c] = Kept(c)]
  /\ UNCHANGED <<roster, relaying, person, automated, presenceVars, edits, restarts,
                 removed, ahead, unsettled>>

-----------------------------------------------------------------------------
(* ParticipantService *)

\* Mutant of Added: the rows a Conversation starts with are not derived first.
AddedBare(c, row) == PutRow(stored[c], row)

\* addMembership: membersOf first, for rows that are there are taken as they are.
Added(c, row) == PutRow(Kept(c), row)

SpawnWorker(w, relays) ==
  /\ w \notin roster
  /\ roster' = roster \cup {w}
  /\ relaying' = IF relays THEN relaying \cup {w} ELSE relaying
  /\ UNCHANGED <<person, automated, stored, cached, presenceVars, edits, restarts,
                 removed, ahead, unsettled>>

\* An edit of the rows of some Conversations; the registry is told.
EditOf(cs) ==
  /\ edits < MaxEdits /\ edits' = edits + 1
  /\ cached' = NotCached
  /\ ahead' = {c \in ahead \cup (cs \ Known) : stored'[c] # {}}

\* invite, with the Conversations granted; the row starts over.
Invite(p, granted) ==
  /\ person' = [person EXCEPT ![p] = [row |-> "invited", presence |-> "away"]]
  /\ stored' = [c \in Threads |->
                  IF c \in granted THEN Added(c, Row(p, "inert")) ELSE stored[c]]
  /\ EditOf(granted)
  /\ removed' = removed \ {<<c, p>> : c \in granted}
  /\ unsettled' = IF counted[p] > 0 THEN unsettled \cup {p} ELSE unsettled
  /\ UNCHANGED <<roster, relaying, automated, presenceVars, restarts>>

\* revoke: every membership goes, the row stays.
Revoke(p) ==
  /\ person[p].row # "none"
  /\ person' = [person EXCEPT ![p] = [row |-> "revoked", presence |-> "detached"]]
  /\ stored' = [c \in Threads |-> Dropped(stored[c], p)]
  /\ EditOf({})
  /\ removed' = removed \cup {<<c, p>> : c \in Threads}
  /\ UNCHANGED <<roster, relaying, automated, presenceVars, restarts, unsettled>>

Recognised(who) ==
  \/ who = Orchestrator \/ who \in roster
  \/ who = Automation /\ automated
  \/ who \in People /\ person[who].row # "none"

\* join: by its route with the default reaction of a kind; an A2A peer in a
\* shared room wakes on mentions.
JoinConversation(who, c, shared) ==
  /\ Recognised(who)
  /\ shared => who \in Workers /\ c = HomeThread
  /\ LET reaction == IF shared THEN "mentionsMe"
                     ELSE IF who \in {Orchestrator} \cup Workers THEN "addressable"
                     ELSE "inert"
     IN  stored' = [stored EXCEPT ![c] = Added(c, Row(who, reaction))]
  /\ EditOf({c})
  /\ removed' = removed \ {<<c, who>>}
  /\ UNCHANGED <<roster, relaying, person, automated, presenceVars, restarts, unsettled>>

\* Mutant of Leave: the registry is not told.
LeaveUntold(who, c) ==
  /\ edits < MaxEdits /\ edits' = edits + 1
  /\ \E r \in stored[c] : r.who = who
  /\ stored' = [stored EXCEPT ![c] = Dropped(@, who)]
  /\ removed' = removed \cup {<<c, who>>}
  /\ UNCHANGED <<roster, relaying, person, automated, cached, presenceVars, restarts,
                 ahead, unsettled>>

Leave(who, c) ==
  /\ \E r \in stored[c] : r.who = who
  /\ stored' = [stored EXCEPT ![c] = Dropped(@, who)]
  /\ EditOf({})
  /\ removed' = removed \cup {<<c, who>>}
  /\ UNCHANGED <<roster, relaying, person, automated, presenceVars, restarts, unsettled>>

\* setMuted, of an agent: the reaction is kept.
Mute(who, c, muted) ==
  /\ who \in {Orchestrator} \cup Workers
  /\ \E r \in stored[c] :
       /\ r.who = who /\ r.muted # muted
       /\ stored' = [stored EXCEPT ![c] = PutRow(@, [r EXCEPT !.muted = muted])]
  /\ EditOf({})
  /\ UNCHANGED <<roster, relaying, person, automated, presenceVars, restarts,
                 removed, unsettled>>

\* closeConversation; the Runs it cancels are another module's.
CloseThread(c) ==
  /\ stored[c] # {}
  /\ stored' = [stored EXCEPT ![c] = {}]
  /\ EditOf({})
  /\ removed' = removed \cup {<<c, r.who>> : r \in stored[c]}
  /\ UNCHANGED <<roster, relaying, person, automated, presenceVars, restarts, unsettled>>

EnsureAutomation ==
  /\ ~automated /\ automated' = TRUE
  /\ stored' = [stored EXCEPT ![HomeThread] = Added(HomeThread, Row(Automation, "inert"))]
  /\ cached' = NotCached
  /\ UNCHANGED <<roster, relaying, person, presenceVars, edits, restarts, removed, ahead,
                 unsettled>>

-----------------------------------------------------------------------------
(* Presence *)

\* setPresence: a row that is absent, revoked or like this already is left alone.
WithPresence(p, presence) ==
  [person EXCEPT ![p].presence = IF person[p].row = "invited" THEN presence ELSE @]

\* chat:join, once for every connection and again when it comes back to a session:
\* markPresent counts a socket once, and not before its person has a row; the first
\* one counted tells.
Arrive(p, t) ==
  /\ tabOf[t] \in {{}, {p}} /\ t \notin tracked
  /\ tabOf' = [tabOf EXCEPT ![t] = {p}]
  /\ \/ /\ person[p].row = "none"
        /\ UNCHANGED <<tracked, counted, person, unsettled>>
     \/ /\ person[p].row # "none"
        /\ tracked' = tracked \cup {t}
        /\ counted' = [counted EXCEPT ![p] = @ + 1]
        /\ person' = IF counted'[p] = 1 THEN WithPresence(p, "connected") ELSE person
        /\ unsettled' = IF counted'[p] = 1 THEN unsettled \ {p} ELSE unsettled
  /\ UNCHANGED <<roster, relaying, automated, stored, cached, edits, restarts, removed, ahead>>

\* Mutant of Depart: any tab that closes is taken for the last.
DepartAny(t) ==
  /\ tabOf[t] # {}
  /\ tabOf' = [tabOf EXCEPT ![t] = {}] /\ tracked' = tracked \ {t}
  /\ \E p \in tabOf[t] :
       IF t \in tracked
         THEN /\ counted' = [counted EXCEPT ![p] = @ - 1]
              /\ person' = WithPresence(p, "detached")
         ELSE UNCHANGED <<counted, person>>
  /\ UNCHANGED <<roster, relaying, automated, stored, cached, edits, restarts, removed, ahead,
                 unsettled>>

\* A tab closes. markAbsent, of what its socket held up.
Depart(t) ==
  /\ tabOf[t] # {}
  /\ tabOf' = [tabOf EXCEPT ![t] = {}] /\ tracked' = tracked \ {t}
  /\ \E p \in tabOf[t] :
       \/ t \notin tracked /\ UNCHANGED <<counted, person, unsettled>>
       \/ /\ t \in tracked
          /\ counted' = [counted EXCEPT ![p] = @ - 1]
          /\ person' = IF counted'[p] = 0 THEN WithPresence(p, "detached") ELSE person
          /\ unsettled' = IF counted'[p] = 0 THEN unsettled \ {p} ELSE unsettled
  /\ UNCHANGED <<roster, relaying, automated, stored, cached, edits, restarts, removed, ahead>>

\* The server restarts: rows stay, the cache and the tabs' sockets are gone.
RestartServer ==
  /\ restarts < MaxRestartsOfServer /\ restarts' = restarts + 1
  /\ cached' = NotCached
  /\ tabOf' = [t \in Tabs |-> {}] /\ tracked' = {}
  /\ counted' = [p \in People |-> 0]
  /\ unsettled' = unsettled \cup {p \in People : counted[p] > 0}
  /\ UNCHANGED <<roster, relaying, person, automated, stored, edits, removed, ahead>>

-----------------------------------------------------------------------------
MemberNext ==
  \/ \E w \in Workers, relays \in BOOLEAN : SpawnWorker(w, relays)
  \/ \E c \in Threads : ReadMembers(c) \/ CloseThread(c)
  \/ \E p \in People, granted \in SUBSET Threads : Invite(p, granted)
  \/ \E p \in People : Revoke(p)
  \/ \E who \in Members, c \in Threads : \/ Leave(who, c)
                                       \/ \E b \in BOOLEAN : JoinConversation(who, c, b) \/ Mute(who, c, b)
  \/ EnsureAutomation
  \/ \E p \in People, t \in Tabs : Arrive(p, t)
  \/ \E t \in Tabs : Depart(t)
  \/ RestartServer

MemberSpec == MemberInit /\ [][MemberNext]_memberVars

-----------------------------------------------------------------------------
MemberTypeOK ==
  /\ roster \subseteq Workers /\ relaying \subseteq roster
  /\ person \in [People -> Persons]
  /\ \A c \in Threads : stored[c] \subseteq MembershipRows
  /\ cached.loaded \in BOOLEAN
  /\ \A c \in Threads : \A r, s \in stored[c] : r.who = s.who => r = s
  /\ counted \in [People -> 0..Cardinality(Tabs)]

\* A registry that has read the session wakes exactly those who are stored as
\* members: no join, leave, mute or close is hidden behind its cache.
CacheTellsTheStore ==
  cached.loaded => cached.rows = stored

\* A Conversation with members still has the two it starts with, unless they left:
\* an invitation that comes before the first read takes nobody's place, and the
\* worker and the orchestrator go on hearing of what is said there. Only a member
\* added before the row of the worker has landed comes without them, until the
\* Conversation is empty again.
StartersStay ==
  \A c \in Known \ ahead : stored[c] # {} =>
    \A r \in Derived(c) :
      <<c, r.who>> \in removed \/ \E s \in stored[c] : s.who = r.who

\* A person reads as connected exactly while a tab of theirs that was counted is
\* open, however many there are and whatever they do meanwhile; only an invitation
\* or a restart under counted tabs sets it aside, until the next first tab or last
\* one. A tab counts once it has joined a session its person has a row in.
PresenceFollowsTabs ==
  \A p \in People : (person[p].row = "invited" /\ p \notin unsettled) =>
    (person[p].presence = "connected") = (\E t \in tracked : tabOf[t] = {p})

\* What presenceTracker.ts:21-26 says of every open tab; a tab that joined before the
\* invitation makes it false, so no run claims it.
DetachedMeansGone ==
  \A p \in People :
    (person[p] = [row |-> "invited", presence |-> "detached"] /\ p \notin unsettled) =>
      ~\E t \in Tabs : tabOf[t] = {p}
=============================================================================
