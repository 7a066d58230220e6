------------------------------- MODULE PiRuns --------------------------------
(***************************************************************************)
(* A participant on the pi-stdio connector: the local Pi child process     *)
(* (PiAgentManager) and the Run it works under.  Handlers of the process's *)
(* stdout lines and exit event, of wakes, and of the API calls that        *)
(* replace or remove the process interleave; each runs to completion.      *)
(***************************************************************************)
EXTENDS RunEngine

CONSTANTS IsPrime,      \* Prime is never killed; a join brings it back
          MaxWakes,     \* bound: wakes posted to the participant
          MaxRuns,      \* bound: Runs opened before Pi's own queue runs dry
          MaxLosses     \* bound: processes that die, are killed or replaced

ASSUME PiAssumption ==
  /\ Kind = "pi"
  /\ IsPrime \in BOOLEAN
  /\ MaxWakes \in Nat /\ MaxRuns \in Nat /\ MaxLosses \in Nat

VARIABLES seat,    \* the participant's seat; up means a process in the roster
          slot,    \* what the roster's slot for the agent holds
          turn,    \* the turn whose lines the roster's process has yet to write
          old,     \* the last process that left the roster, until its stdout closes
          losses   \* losses so far (for the bound)

vars == <<seat, slot, turn, old, losses>>

\* "live": a running process; "dead": one that died, its exit event still
\* queued; "doomed": one killed on purpose that keeps the slot until its exit;
\* "gap": none, the back-off timer will respawn it; "vacant": none until the
\* next join; "closed": none, ever.
Slots    == {"live", "dead", "doomed", "gap", "vacant", "closed"}
Occupied == {"live", "dead", "doomed"}

\* "asked": a prompt reached the process; "begun": its agent_start was read.
Turns == {"none", "asked", "begun"}

\* A process out of the roster: killed and still to exit, or exited with lines
\* still to be read; its busy flag; its turn; the last Run opened before it
\* left.
NoProcess == [state |-> "none", busy |-> FALSE, turn |-> "none", ran |-> NoRun]
OldProcesses == [state : {"none", "killed", "exited"}, busy : BOOLEAN,
                 turn : Turns, ran : Nat]

Init ==
  /\ seat = FreshSeat
  /\ slot = "live"
  /\ turn = "none"
  /\ old = NoProcess
  /\ losses = 0

-----------------------------------------------------------------------------
(* Helpers *)

\* Pi may start a turn nobody prompted right now: it keeps a queue of its own.
Room == seat.n < MaxRuns

\* The bounds on losses: their number, and one outgoing process at a time.
CanLose == losses < MaxLosses /\ old = NoProcess

\* PiAgentManager.abort: a signal on stdin, the Run stays until agent_end.
Aborted(a) == [cancelled |-> a.up /\ a.busy, seat |-> a]

\* failInFlight(agent) when agent is the roster's process.
FailInFlight(a) ==
  IF a.busy THEN SettleOpenFor([a EXCEPT !.busy = FALSE]) ELSE a

\* What a handler that may have prompted the process leaves of its turn: a dead
\* process is handed prompts it never reads.
Prompted(before) ==
  IF slot = "live" /\ seat'.busy /\ before = "none" THEN "asked" ELSE before

Vacated(a) == [a EXCEPT !.up = FALSE, !.busy = FALSE]

\* removeAgent: a sub-agent's row turns terminal, Prime is ensured on a join.
Removed == IF IsPrime THEN "vacant" ELSE "closed"

-----------------------------------------------------------------------------
(* Wakes *)

Wake(c) ==
  /\ Len(seat.wakes) < MaxWakes
  /\ LET a == Arrive(seat, c)
     IN  seat' = Admit(a, c, Len(a.wakes), Aborted(a))
  /\ turn' = Prompted(turn)
  /\ UNCHANGED <<slot, old, losses>>

-----------------------------------------------------------------------------
(* Lines on the process's stdout *)

\* onAgentStart of the roster's process: a turn Pi took off its own queue still
\* gets a Run.
AgentStart ==
  /\ \/ turn = "asked" /\ slot \in Occupied
     \/ turn = "none" /\ slot = "live" /\ Room
  /\ seat' = [(IF seat.cur = NoRun THEN Open(seat) ELSE seat) EXCEPT !.busy = TRUE]
  /\ turn' = "begun"
  /\ UNCHANGED <<slot, old, losses>>

\* Mutant of AgentEnd: idle again, but the Run is not settled.
AgentEndKeepsRun ==
  /\ slot \in Occupied /\ turn = "begun"
  /\ seat' = [seat EXCEPT !.busy = FALSE]
  /\ turn' = Prompted("none")
  /\ UNCHANGED <<slot, old, losses>>

\* onAgentEnd: idle again, and only then is the Run settled.
AgentEnd ==
  /\ slot \in Occupied /\ turn = "begun"
  /\ seat' = SettleOpenFor([seat EXCEPT !.busy = FALSE])
  /\ turn' = Prompted("none")
  /\ UNCHANGED <<slot, old, losses>>

-----------------------------------------------------------------------------
(* The process dies, its exit event is handled, a new one takes its place *)

Die ==
  /\ slot = "live" /\ CanLose
  /\ slot' = "dead"
  /\ losses' = losses + 1
  /\ UNCHANGED <<seat, turn, old>>

\* The exit handler: failInFlight first, while the process is still the
\* roster's, then handleChildExit drops it.  A killed one is removed; for a
\* crashed one a respawn is scheduled, or the supervisor gives up.
Exit ==
  /\ slot \in {"dead", "doomed"}
  /\ seat' = Vacated(FailInFlight(seat))
  /\ slot' \in {Removed} \cup (IF slot = "dead" THEN {"gap"} ELSE {})
  /\ old' = [state |-> "exited", busy |-> FALSE, turn |-> turn, ran |-> seat'.n]
  /\ turn' = "none"
  /\ UNCHANGED losses

\* The back-off timer fires: a fresh, idle process, unless the launch fails.
Respawn(spawned) ==
  /\ slot = "gap"
  /\ slot' = IF spawned THEN "live" ELSE "vacant"
  /\ seat' = [seat EXCEPT !.up = spawned]
  /\ UNCHANGED <<turn, old, losses>>

\* A join ensures Prime and revives sub-agents that are not terminal.
Join ==
  /\ slot \in {"gap", "vacant"}
  /\ seat' = [seat EXCEPT !.up = TRUE]
  /\ slot' = "live"
  /\ UNCHANGED <<turn, old, losses>>

-----------------------------------------------------------------------------
(* The process is replaced or removed on purpose *)

\* setAgentModel: quiet the outgoing process, kill it, settle its Run while it
\* is still the roster's, then put the new process in the slot.  When the
\* launch fails the killed process keeps the slot until its exit.
SetAgentModel(spawned) ==
  /\ slot \in Occupied /\ CanLose
  /\ LET cut == SettleOpenFor([seat EXCEPT !.busy = FALSE])
     IN  IF spawned
           THEN /\ seat' = [cut EXCEPT !.busy = FALSE]
                /\ old' = [state |-> "killed", busy |-> cut.busy,
                           turn |-> turn, ran |-> cut.n]
                /\ turn' = "none"
                /\ slot' = "live"
           ELSE /\ seat' = cut
                /\ slot' = "doomed"
                /\ UNCHANGED <<turn, old>>
  /\ losses' = losses + 1

\* The process leaves the roster by killAgent or dispose.
Leaves ==
  /\ old' = IF slot \in Occupied
              THEN [state |-> "killed", busy |-> seat.busy, turn |-> turn,
                    ran |-> seat.n]
              ELSE old
  /\ slot' = "closed"
  /\ turn' = "none"
  /\ losses' = losses + 1

\* killAgent (sub-agents only): out of the roster, then the Run is settled.
KillAgent ==
  /\ ~IsPrime /\ slot \in Occupied /\ CanLose
  /\ seat' = SettleOpenFor(Vacated(seat))
  /\ Leaves

\* dispose (the session was deleted): the whole roster goes; no Run is settled
\* before the exit event.
Dispose ==
  /\ slot # "closed" /\ CanLose
  /\ seat' = Vacated(seat)
  /\ Leaves

\* Lines the process had already written are read after it left the roster:
\* the handlers never ask whether it is still the roster's.
OldAgentStart ==
  /\ old.turn = "asked"
  /\ seat' = IF seat.cur = NoRun THEN Open(seat) ELSE seat
  /\ old' = [old EXCEPT !.busy = TRUE, !.turn = "begun", !.ran = seat'.n]
  /\ turn' = Prompted(turn)
  /\ UNCHANGED <<slot, losses>>

OldAgentEnd ==
  /\ old.turn = "begun"
  /\ seat' = SettleOpenFor(seat)
  /\ old' = [old EXCEPT !.busy = FALSE, !.turn = "none"]
  /\ turn' = Prompted(turn)
  /\ UNCHANGED <<slot, losses>>

\* Its exit: failInFlight acts on the busy flag it was left with, and on a message
\* that a late line of its turn opened; handleChildExit then sees another process
\* (or none) in the slot and does nothing.
OldExit ==
  /\ old.state = "killed"
  /\ \E streaming \in {FALSE, old.turn = "begun"} :
       seat' = IF old.busy \/ streaming THEN SettleOpenFor(seat) ELSE seat
  /\ old' = [old EXCEPT !.state = "exited", !.busy = FALSE]
  /\ turn' = Prompted(turn)
  /\ UNCHANGED <<slot, losses>>

\* The stdout pipe of an exited process closes.
OldClose ==
  /\ old.state = "exited"
  /\ old' = NoProcess
  /\ UNCHANGED <<seat, slot, turn, losses>>

-----------------------------------------------------------------------------
Next ==
  \/ \E c \in Conversations : Wake(c)
  \/ AgentStart
  \/ AgentEnd
  \/ Die
  \/ Exit
  \/ \E spawned \in BOOLEAN : Respawn(spawned)
  \/ Join
  \/ \E spawned \in BOOLEAN : SetAgentModel(spawned)
  \/ KillAgent
  \/ Dispose
  \/ OldAgentStart
  \/ OldAgentEnd
  \/ OldExit
  \/ OldClose

Spec == Init /\ [][Next]_vars

(***************************************************************************)
(* Fairness.  A running Pi process takes up its prompts (AgentStart) and   *)
(* ends its turns (AgentEnd); the event loop delivers an exit it was told  *)
(* of (Exit, OldExit); the back-off timer fires (Respawn).  Wakes, joins,  *)
(* kills, model changes and deaths are never forced.                       *)
(***************************************************************************)
FairSpec ==
  /\ Spec
  /\ WF_vars(slot = "live" /\ turn = "asked" /\ AgentStart)
  /\ WF_vars(slot = "live" /\ AgentEnd)
  /\ WF_vars(Exit)
  /\ WF_vars(OldExit)
  /\ WF_vars(\E spawned \in BOOLEAN : Respawn(spawned))

-----------------------------------------------------------------------------
TypeOK ==
  /\ seat \in Seats
  /\ slot \in Slots
  /\ turn \in Turns
  /\ old \in OldProcesses
  /\ losses \in Nat
  /\ seat.up <=> slot \in Occupied
  /\ slot = "live" => (seat.busy <=> turn # "none")
  /\ slot \notin Occupied => turn = "none" /\ ~seat.busy

\* A held wake always has an open Run in front of it (admission.ts: release is
\* only ever called by the settle of a Run), whatever kills or replaces the
\* process.
HeldBehindRun == BehindRun(seat) /\ Indexed(seat)

\* Senders get what the admission engine promises (WakeLedger), whatever the
\* process, the roster and the Runs go through.
Ledger == INSTANCE WakeLedger WITH wakes <- seat.wakes
RefinesLedger == Ledger!Spec

\* As long as its process is left alone, a wake held behind a turn is handed over
\* when the turn ends: Pi's own queue of prompts starves nobody (onAgentEnd).
UndisturbedRelease ==
  (seat.held # <<>> /\ losses = 0) ~> (seat.held = <<>> \/ losses > 0)

\* A wake held behind a Run is eventually handed over or dropped aloud, unless
\* the agent is gone for good (AdmissionEngine's coalesce and preempt).
HeldWakeIsReleased ==
  (seat.held # <<>>) ~> (seat.held = <<>> \/ slot \in {"vacant", "closed"})

\* Runs are serial: no participant has two open (RunRegistry).
OneOpenRun == Cardinality(seat.open) <= 1
=============================================================================
