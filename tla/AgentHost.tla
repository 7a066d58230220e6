------------------------------ MODULE AgentHost ------------------------------
(***************************************************************************)
(* The far side of the remote-env connector: LocalAgentBridge, which runs  *)
(* each sub-agent the Shell spawns as a local pi process.  Commands reach  *)
(* it in order over a socket that may drop, and that may be replaced       *)
(* before the gateway notices; a launch waits for its options and for the  *)
(* loopback API, and every other step runs to its end.  The Shell is its   *)
(* roster and the commands it emits (RemoteRuns has the rest).             *)
(***************************************************************************)
EXTENDS Naturals, Sequences, SequencesExt

CONSTANTS Spawned,   \* sub-agents the Shell spawns, each under a fresh id
          MaxTasks,  \* bound: messages sent
          MaxDrops   \* bound: sockets lost

ASSUME HostAssumption == MaxTasks \in Nat /\ MaxDrops \in Nat

VARIABLES statuses,   \* the gateway's status of each sub-agent
          tasks,      \* messages sent so far
          link,       \* the bridge's socket: "up", "down", or "closed" by dispose
          connected,  \* the gateway has a connection of the host in environments
          commands,   \* emitted by the Shell and on their way
          updates,    \* what the bridge says, on its way or buffered by the client
          hosted,     \* LocalAgentBridge.agents
          stopping,   \* HostedAgent.stopping
          hostApi,    \* LocalAgentBridge.hostApi, memoized even when it failed
          pi,         \* each launch, which waits for its options or for the loopback
                      \* API, and then its process
          unheard,    \* history: sub-agents with a message dropped before their launch
          cut,        \* history: those stopped while their launch waited
          missed,     \* history: those whose spawn or end was lost with a socket, until
                      \* the gateway notices the close and nothing of them runs on
          drops

hostVars == <<statuses, tasks, link, connected, commands, updates, hosted, stopping,
              hostApi, pi, unheard, cut, missed, drops>>
shellSide == <<statuses, tasks, link, connected, commands, missed, drops>>
bridgeSide == <<updates, hosted, stopping, hostApi, pi, unheard, cut>>

Terminal == {"killed", "error"}

HostInit ==
  /\ statuses = [a \in Spawned |-> "none"] /\ tasks = 0
  /\ link = "up" /\ connected = TRUE /\ commands = <<>> /\ updates = <<>>
  /\ hosted = {} /\ stopping = {}
  /\ hostApi = "none"
  /\ pi = [a \in Spawned |-> "none"]
  /\ unheard = {} /\ cut = {} /\ missed = {} /\ drops = 0

Launching(a) == pi[a] \in {"options", "api"}
Lives(a) == Launching(a) \/ pi[a] \in {"running", "signalled"}

-----------------------------------------------------------------------------
(* The Shell *)

\* Into a socket that is dead, noticed or not, a command goes nowhere.
Emit(cmd, a) ==
  commands' = IF link = "up" THEN Append(commands, [cmd |-> cmd, id |-> a]) ELSE commands

ShellSpawns(a) ==
  /\ connected /\ statuses[a] = "none"
  /\ statuses' = [statuses EXCEPT ![a] = "active"]
  /\ Emit("spawn", a)
  /\ missed' = IF link = "up" THEN missed ELSE missed \cup {a}
  /\ UNCHANGED <<tasks, link, connected, drops, bridgeSide>>

\* sendToAgent: the first message, too, is emitted right after the spawn.
ShellSends(a) ==
  /\ connected /\ statuses[a] \in {"active", "detached"} /\ tasks < MaxTasks
  /\ tasks' = tasks + 1
  /\ Emit("message", a)
  /\ UNCHANGED <<statuses, link, connected, missed, drops, bridgeSide>>

\* killAgent: off the roster, and a command if the socket is there.
ShellKills(a) ==
  /\ statuses[a] \in {"active", "detached"}
  /\ statuses' = [statuses EXCEPT ![a] = "gone"]
  /\ Emit("kill", a)
  /\ UNCHANGED <<tasks, link, connected, missed, drops, bridgeSide>>

\* handleSubagentUpdate, and markAttached for an event: a sub-agent off the roster
\* is ignored.
ShellHears ==
  /\ link = "up" /\ updates # <<>>
  /\ LET u == Head(updates)
     IN  statuses' = [statuses EXCEPT ![u.id] =
                      IF @ \in {"none", "gone"} THEN @
                      ELSE IF u.status \in Terminal THEN "gone" ELSE "active"]
  /\ updates' = Tail(updates)
  /\ UNCHANGED <<tasks, link, connected, commands, missed, drops, hosted, stopping,
                 hostApi, pi, unheard, cut>>

-----------------------------------------------------------------------------
(* The socket *)

SpawnComing(a) == \E i \in 1..Len(commands) : commands[i] = [cmd |-> "spawn", id |-> a]
EndOnItsWay(a) == \E i \in 1..Len(updates) : updates[i].id = a /\ updates[i].status \in Terminal

\* What is on its way is lost.
Broken ==
  /\ link' = "down" /\ commands' = <<>> /\ updates' = <<>>
  /\ missed' = {a \in Spawned : \/ a \in missed
                                \/ (connected \/ Lives(a)) /\ (SpawnComing(a) \/ EndOnItsWay(a))}
  /\ UNCHANGED <<statuses, tasks, connected, hosted, stopping, hostApi, pi, unheard, cut>>

LinkDrops ==
  /\ link = "up" /\ drops < MaxDrops
  /\ drops' = drops + 1
  /\ Broken

\* connect with a refreshed token: the old client goes, with what it had buffered
\* for its reconnect.  (One whose socket is up goes as in LinkDrops.)
RefreshToken ==
  /\ link = "down" /\ updates # <<>>
  /\ Broken
  /\ UNCHANGED drops

\* onDisconnect of the host's current connection, or the sweep: the gateway detaches
\* what the host ran.  The late close of a connection already replaced is ignored.
CloseNoticed ==
  /\ connected /\ link # "up"
  /\ connected' = FALSE
  /\ statuses' = [a \in Spawned |-> IF statuses[a] = "active" THEN "detached" ELSE statuses[a]]
  /\ missed' = {a \in missed : Lives(a)}
  /\ UNCHANGED <<tasks, link, commands, drops, bridgeSide>>

\* What the bridge says of its sub-agents; without a client nothing is said.
Tells(as, status) ==
  LET order == SetToSeq(as)
  IN  updates' = IF link = "closed" THEN updates
                 ELSE updates \o [i \in DOMAIN order |-> [id |-> order[i], status |-> status]]

\* onConnection, which replaces the connection a host had and whose replay leaves an
\* active sub-agent alone, and reclaimAgents, which declares active what survived.
Reconnect ==
  /\ link = "down" /\ link' = "up" /\ connected' = TRUE
  /\ Tells(hosted, "active")
  /\ UNCHANGED <<statuses, tasks, commands, missed, drops, hosted, stopping, hostApi, pi,
                 unheard, cut>>

-----------------------------------------------------------------------------
(* The bridge *)

Received(cmd, a) ==
  /\ commands # <<>> /\ Head(commands) = [cmd |-> cmd, id |-> a]
  /\ commands' = Tail(commands)

\* onSpawn: listed at once, then it waits for the launch options.
OnSpawn(a) ==
  /\ Received("spawn", a)
  /\ hosted' = hosted \cup {a}
  /\ pi' = [pi EXCEPT ![a] = "options"]
  /\ UNCHANGED <<statuses, tasks, link, connected, missed, drops, updates, stopping,
                 hostApi, unheard, cut>>

\* The options came, with a folder.  The first to need the loopback API starts it;
\* a call that failed API throws out of leaves its entry.
OptionsCome(a) ==
  /\ pi[a] = "options"
  /\ hostApi' = IF hostApi = "none" THEN "starting" ELSE hostApi
  /\ pi' = [pi EXCEPT ![a] = CASE hostApi = "up" -> "running"
                               [] hostApi = "failed" -> "none"
                               [] OTHER -> "api"]
  /\ UNCHANGED <<shellSide, updates, hosted, stopping, unheard, cut>>

\* fail, when no folder is open.
NoFolder(a) ==
  /\ pi[a] = "options"
  /\ pi' = [pi EXCEPT ![a] = "none"]
  /\ hosted' = hosted \ {a}
  /\ Tells({a}, "error")
  /\ UNCHANGED <<shellSide, stopping, hostApi, unheard, cut>>

\* startHostApi listens: every launch that waited for it goes on, and looks at
\* nothing that happened meanwhile.
ApiListens ==
  /\ hostApi = "starting"
  /\ hostApi' = IF link = "closed" THEN "none" ELSE "up"
  /\ pi' = [a \in Spawned |-> IF pi[a] = "api" THEN "running" ELSE pi[a]]
  /\ UNCHANGED <<shellSide, updates, hosted, stopping, unheard, cut>>

ApiFails ==
  /\ hostApi = "starting"
  /\ hostApi' = "failed"
  /\ pi' = [a \in Spawned |-> IF pi[a] = "api" THEN "none" ELSE pi[a]]
  /\ UNCHANGED <<shellSide, updates, hosted, stopping, unheard, cut>>

\* onMessage: a prompt for the process, dropped while there is none.
OnMessage(a) ==
  /\ Received("message", a)
  /\ unheard' = IF Launching(a) /\ a \in hosted THEN unheard \cup {a} ELSE unheard
  /\ UNCHANGED <<statuses, tasks, link, connected, missed, drops, updates, hosted,
                 stopping, hostApi, pi, cut>>

\* onEvent.  The gateway takes an event of a detached sub-agent for a sign of life,
\* of one being stopped too; it takes no notice of the others.
Streams(a) ==
  /\ link = "up" /\ pi[a] \in {"running", "signalled"} /\ statuses[a] = "detached"
  /\ \A i \in DOMAIN updates : updates[i].id # a
  /\ updates' = Append(updates, [id |-> a, status |-> "active"])
  /\ UNCHANGED <<shellSide, hosted, stopping, hostApi, pi, unheard, cut>>

Signalled(as) ==
  pi' = [a \in Spawned |-> IF a \in as /\ pi[a] = "running" THEN "signalled" ELSE pi[a]]

\* What onKill does for a sub-agent that is listed.
Stop(a) ==
  /\ stopping' = stopping \cup {a}
  /\ Signalled({a})
  /\ hosted' = hosted \ {a}
  /\ cut' = IF Launching(a) THEN cut \cup {a} ELSE cut
  /\ Tells({a}, "killed")

OnKill(a) ==
  /\ Received("kill", a)
  /\ IF a \in hosted THEN Stop(a) ELSE UNCHANGED <<stopping, pi, hosted, cut, updates>>
  /\ UNCHANGED <<statuses, tasks, link, connected, missed, drops, hostApi, unheard>>

\* stopAgent: the person at the host.
StopAgent(a) ==
  /\ a \in hosted
  /\ Stop(a)
  /\ UNCHANGED <<shellSide, hostApi, unheard>>

\* Mutant of OnAgentExit: the Shell is not told.
ExitQuietly(a) ==
  /\ pi[a] \in {"running", "signalled"}
  /\ pi' = [pi EXCEPT ![a] = "exited"]
  /\ hosted' = hosted \ {a}
  /\ UNCHANGED <<shellSide, updates, stopping, hostApi, unheard, cut>>

\* onAgentExit: an exit nobody asked for fails the sub-agent.
OnAgentExit(a) ==
  /\ pi[a] \in {"running", "signalled"}
  /\ pi' = [pi EXCEPT ![a] = "exited"]
  /\ IF a \in stopping \/ a \notin hosted
       THEN UNCHANGED <<hosted, updates>>
       ELSE hosted' = hosted \ {a} /\ Tells({a}, "error")
  /\ UNCHANGED <<shellSide, stopping, hostApi, unheard, cut>>

\* dispose.  The gateway finds the socket closed.
DisposeHost ==
  /\ link # "closed"
  /\ link' = "closed"
  /\ stopping' = stopping \cup hosted
  /\ Signalled(hosted)
  /\ hosted' = {}
  /\ cut' = cut \cup {a \in hosted : Launching(a)}
  /\ hostApi' = IF hostApi = "starting" THEN hostApi ELSE "none"
  /\ commands' = <<>> /\ updates' = <<>>
  /\ UNCHANGED <<statuses, tasks, connected, missed, drops, unheard>>

-----------------------------------------------------------------------------
HostNext ==
  \/ \E a \in Spawned : \/ ShellSpawns(a) \/ ShellSends(a) \/ ShellKills(a)
                        \/ OnSpawn(a) \/ OptionsCome(a) \/ NoFolder(a)
                        \/ OnMessage(a) \/ Streams(a) \/ OnKill(a)
                        \/ StopAgent(a) \/ OnAgentExit(a)
  \/ ShellHears \/ LinkDrops \/ RefreshToken \/ CloseNoticed \/ Reconnect
  \/ ApiListens \/ ApiFails \/ DisposeHost

HostSpec == HostInit /\ [][HostNext]_hostVars

-----------------------------------------------------------------------------
HostTypeOK ==
  /\ statuses \in [Spawned -> {"none", "active", "detached", "gone"}]
  /\ tasks \in 0..MaxTasks /\ drops \in 0..MaxDrops
  /\ link \in {"up", "down", "closed"} /\ connected \in BOOLEAN
  /\ hosted \cup stopping \cup unheard \cup cut \cup missed \subseteq Spawned
  /\ hostApi \in {"none", "starting", "up", "failed"}
  /\ pi \in [Spawned -> {"none", "options", "api", "running", "signalled", "exited"}]

\* A pi process that was not told to stop is one the host lists, so that a kill, a
\* stop or dispose finds it, whatever exits and reconnects come between.  The
\* launch that waits does not look again: a sub-agent stopped while it waits is the
\* exception.
ProcessesAreListed == \A a \in Spawned : pi[a] = "running" => a \in hosted \cup cut

\* When nothing is on its way, a sub-agent the Shell has as active is one the host
\* still lists, through lost sockets, discarded updates and late closes.  The
\* exception is one whose spawn or end went down with a socket that was replaced
\* before the gateway noticed, or whose process spoke on after its end was lost.
ShellIsRight ==
  (link = "up" /\ commands = <<>> /\ updates = <<>>) =>
    \A a \in Spawned : statuses[a] = "active" => a \in hosted \cup missed

\* Both ends keep track of the sub-agents of the host.
HostKeepsTrack == ProcessesAreListed /\ ShellIsRight

\* bridge.ts:199-201: "A dropped socket leaves this host's sub-agents `detached` on
\* the server; declaring them active again is how the gateway learns they survived."
\* It does not when the host is back before the close is noticed, so no run claims
\* that only survivors are active.
OnlySurvivorsActive ==
  (link = "up" /\ commands = <<>> /\ updates = <<>>) =>
    \A a \in Spawned : statuses[a] = "active" => a \in hosted

=============================================================================
