------------------------------ MODULE RemoteRuns -----------------------------
(***************************************************************************)
(* A participant on the remote-env connector: a sub-agent hosted by an     *)
(* environment that is a Socket.IO client of RemoteEnvironmentGateway.     *)
(* Its Run opens when work is sent.  The protocol has no run-end marker:   *)
(* the next piece of work, a terminal status or the loss of the            *)
(* environment settles it.  A host reconnects on a new socket before, or   *)
(* after, the server has noticed that the last one closed.                 *)
(***************************************************************************)
EXTENDS RunEngine

CONSTANTS MaxWakes,    \* bound: wakes posted to the participant
          MaxSockets,  \* bound: sockets the environment connects on
          MaxRestarts  \* bound: restarts of the server

ASSUME RemoteAssumption ==
  /\ Kind = "remote"
  /\ MaxWakes \in Nat /\ MaxSockets \in Nat \ {0} /\ MaxRestarts \in Nat

VARIABLES seat,      \* the participant's seat; up: listed, on a known environment
          tab,       \* the roster entry's status, "none" with no entry
          row,       \* the stored status; written before the next handler runs
          env,       \* the socket environments holds for the host, or None
          socks,     \* sockets whose disconnect event is still to come
          closed,    \* those of them that are closed already
          restarts   \* restarts so far (for the bound)

vars == <<seat, tab, row, env, socks, closed, restarts>>

None == 0

Init ==
  /\ seat = FreshSeat
  /\ tab = "active" /\ row = "active"
  /\ env = 1 /\ socks = {1} /\ closed = {}
  /\ restarts = 0

-----------------------------------------------------------------------------
(* Work and status *)

\* cancelRun is refused: the protocol cannot stop a turn.
Refusal(a) == [cancelled |-> FALSE, seat |-> a]

Wake(c) ==
  /\ Len(seat.wakes) < MaxWakes
  /\ LET a == Arrive(seat, c)
     IN  seat' = Admit(a, c, Len(a.wakes), Refusal(a))
  /\ UNCHANGED <<tab, row, env, socks, closed, restarts>>

\* A subagent-update, or output of a detached sub-agent (markAttached): it may
\* come on a socket that another one has replaced.
Declare(status) ==
  /\ tab # "none" /\ socks \ closed # {}
  /\ tab # status
  /\ tab' = status /\ row' = status
  /\ UNCHANGED <<seat, env, socks, closed, restarts>>

\* killAgent, or a terminal subagent-update: off the roster, then settled.
Retire ==
  /\ tab # "none"
  /\ tab' = "none" /\ row' = "gone"
  /\ seat' = SettleOpenFor([seat EXCEPT !.up = FALSE])
  /\ UNCHANGED <<env, socks, closed, restarts>>

-----------------------------------------------------------------------------
(* The roster entry comes back: replayRoster on a connect, revive on a join *)

\* Mutant of Restorable: terminal rows are restored too.
RestorableAnyRow == tab # "active"

\* reattach never downgrades an active entry; terminal rows are passed over.
Restorable == row # "gone" /\ tab # "active"

Reattach(connected) ==
  /\ tab' = IF Restorable THEN "detached" ELSE tab
  /\ row' = IF Restorable THEN "detached" ELSE row
  /\ seat' = [seat EXCEPT !.up = connected /\ tab' # "none"]

Join ==
  /\ Restorable
  /\ Reattach(env # None)
  /\ UNCHANGED <<env, socks, closed, restarts>>

-----------------------------------------------------------------------------
(* The environment's sockets *)

\* onConnection: a newer socket takes the entry over; nothing is settled.
Connect(s) ==
  /\ \A t \in socks : t < s
  /\ env < s
  /\ env' = s
  /\ socks' = socks \cup {s}
  /\ Reattach(TRUE)
  /\ UNCHANGED <<closed, restarts>>

\* The host or the network goes, or evictDisconnected force-closes an idle
\* socket.
Close(s) ==
  /\ s \in socks \ closed
  /\ closed' = closed \cup {s}
  /\ UNCHANGED <<seat, tab, row, env, socks, restarts>>

\* Mutant of Drop: the sub-agent is detached, its Run left open.
DropKeepsRun ==
  /\ env' = None
  /\ seat' = [seat EXCEPT !.up = FALSE]
  /\ tab' = IF tab = "none" THEN tab ELSE "detached"
  /\ row' = IF tab = "none" THEN row ELSE "detached"

\* dropEnvironment: off the map, then each hosted sub-agent is detached and its
\* Run settled.
Drop ==
  /\ env' = None
  /\ seat' = SettleOpenFor([seat EXCEPT !.up = FALSE])
  /\ tab' = IF tab = "none" THEN tab ELSE "detached"
  /\ row' = IF tab = "none" THEN row ELSE "detached"

\* Mutant of Disconnect: it does not ask whose socket closed.
DisconnectAnySocket(s) ==
  /\ s \in closed
  /\ socks' = socks \ {s} /\ closed' = closed \ {s}
  /\ Drop
  /\ UNCHANGED restarts

\* onDisconnect ignores a socket that is no longer the environment's.
Disconnect(s) ==
  /\ s \in closed
  /\ socks' = socks \ {s} /\ closed' = closed \ {s}
  /\ IF env = s THEN Drop ELSE UNCHANGED <<seat, tab, row, env>>
  /\ UNCHANGED restarts

\* evictDisconnected: the sweep finds the closed socket before its event.
Sweep ==
  /\ env \in closed
  /\ Drop
  /\ UNCHANGED <<socks, closed, restarts>>

\* The server restarts: only the row is left, detached unless it is terminal.
Restart ==
  /\ restarts < MaxRestarts
  /\ seat' = [Stamp(seat, HeldIds(seat), "lost") EXCEPT
                !.cur = NoRun, !.open = {}, !.held = <<>>, !.up = FALSE,
                !.riding = FALSE]
  /\ tab' = "none"
  /\ row' = IF row = "active" THEN "detached" ELSE row
  /\ env' = None /\ socks' = {} /\ closed' = {}
  /\ restarts' = restarts + 1

-----------------------------------------------------------------------------
Next ==
  \/ \E c \in Conversations : Wake(c)
  \/ \E status \in {"active", "detached"} : Declare(status)
  \/ Retire
  \/ Join
  \/ \E s \in 1 .. MaxSockets : Connect(s) \/ Close(s) \/ Disconnect(s)
  \/ Sweep
  \/ Restart

Spec == Init /\ [][Next]_vars

(***************************************************************************)
(* Fairness.  The disconnect event of a closed socket is handled.          *)
(***************************************************************************)
FairSpec ==
  /\ Spec
  /\ \A s \in 1 .. MaxSockets : WF_vars(Disconnect(s))

-----------------------------------------------------------------------------
TypeOK ==
  /\ seat \in Seats
  /\ tab \in {"active", "detached", "none"}
  /\ row \in {"active", "detached", "gone"}
  /\ env \in 0 .. MaxSockets
  /\ socks \subseteq 1 .. MaxSockets /\ closed \subseteq socks
  /\ restarts \in Nat
  /\ seat.up <=> (tab # "none" /\ env # None)
  /\ tab # "none" => row = tab

\* A held wake always has an open Run in front of it (admission.ts).
HeldBehindRun == BehindRun(seat) /\ Indexed(seat)

\* A Run is only open while its host can be reached: with no run-end marker, a
\* Run that outlived its host or its roster entry would hold wakes back for ever
\* (dropEnvironment, killAgent).
OpenRunIsReachable == seat.cur # NoRun => seat.up

\* Senders get what the admission engine promises.
Ledger == INSTANCE WakeLedger WITH wakes <- seat.wakes
RefinesLedger == Ledger!Spec

\* A host that reconnected keeps its Runs and stays reachable, whenever the
\* disconnect of the socket it replaced is noticed (onDisconnect).
ReconnectedHostKeepsItsWork ==
  [][(/\ env \in socks' \ closed
      /\ tab' # "none" /\ seat.up /\ seat'.wakes = seat.wakes)
        => seat'.up /\ seat.open \subseteq seat'.open]_vars

\* A participant that finished or was killed is never back on the roster
\* (ConnectorRegistry.revive, replayRoster).
GoneIsGone == [][row = "gone" => row' = "gone" /\ tab' = "none"]_vars

\* When its host is lost, a held wake is dropped aloud, unless the host comes
\* back first.
HeldGoesWithItsHost ==
  (seat.held # <<>> /\ env \in closed) ~> (seat.held = <<>> \/ env \in socks \ closed)
=============================================================================
