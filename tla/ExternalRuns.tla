----------------------------- MODULE ExternalRuns ----------------------------
(***************************************************************************)
(* A participant on the external-inbound connector: a tab of the           *)
(* ExternalSubagentGateway whose work runs outside the server.  A driver   *)
(* (an attach bridge, a bundle tool) collects the queued wakes, opens a    *)
(* Run per turn and ends it, over HTTP; the server cannot see its turns.   *)
(* The queue itself is DeliveryQueue's; here it is the seat's wire.        *)
(***************************************************************************)
EXTENDS RunEngine

CONSTANTS Overlap,     \* turns a driver may have open at once (AttachBridge: 1)
          MaxWakes,    \* bound: wakes posted to the participant
          MaxRuns,     \* bound: Runs opened before the far side's own work stops
          MaxRestarts  \* bound: restarts of the server

ASSUME ExternalAssumption ==
  /\ Kind = "external"
  /\ Overlap \in Nat \ {0}
  /\ MaxWakes \in Nat /\ MaxRuns \in Nat /\ MaxRestarts \in Nat

VARIABLES seat,      \* the participant's seat; wire is its part of the queue
          tab,       \* the roster entry's status
          batch,     \* wakes the driver has collected and not yet begun
          turns,     \* Runs the driver opened and whose end it has not reported
          restarts   \* restarts so far (for the bound)

vars == <<seat, tab, batch, turns, restarts>>

\* "absent": no entry in memory until a join revives it; "gone": terminal.
Tabs == {"active", "detached", "absent", "gone"}
Listed == {"active", "detached"}

Init ==
  /\ seat = FreshSeat
  /\ tab = "active"
  /\ batch = <<>>
  /\ turns = {}
  /\ restarts = 0

-----------------------------------------------------------------------------
(* The server's side *)

\* cancelRun is always refused: the driver holds the turn.
Refusal(a) == [cancelled |-> FALSE, seat |-> a]

Wake(c) ==
  /\ Len(seat.wakes) < MaxWakes
  /\ LET a == Arrive(seat, c)
     IN  seat' = Admit(a, c, Len(a.wakes), Refusal(a))
  /\ UNCHANGED <<tab, batch, turns, restarts>>

\* Mutant of Retire: the queued wakes stay in the queue.
RetireKeepsQueue ==
  /\ tab \in Listed
  /\ tab' = "gone"
  /\ seat' = SettleOpenFor([seat EXCEPT !.up = FALSE])
  /\ UNCHANGED <<batch, turns, restarts>>

\* setStatus to a terminal status, by the driver or by a kill: the entry goes,
\* its queued wakes are discarded, and then its Run is settled.
Retire ==
  /\ tab \in Listed
  /\ tab' = "gone"
  /\ seat' = SettleOpenFor([seat EXCEPT !.up = FALSE, !.wire = <<>>])
  /\ UNCHANGED <<batch, turns, restarts>>

\* The server restarts: Runs, held wakes and the queue were in memory only, and
\* failStaleRuns settles the row of the Run that was open.
Restart ==
  /\ restarts < MaxRestarts /\ tab # "gone"
  /\ tab' = "absent"
  /\ seat' = [Stamp(seat, HeldIds(seat), "lost") EXCEPT
                !.cur = NoRun, !.open = {}, !.held = <<>>, !.up = FALSE,
                !.wire = <<>>, !.riding = FALSE]
  /\ restarts' = restarts + 1
  /\ UNCHANGED <<batch, turns>>

\* A join revives the tab as detached (reattach); wakes are refused until its
\* driver shows up.
Reattach ==
  /\ tab = "absent"
  /\ tab' = "detached"
  /\ UNCHANGED <<seat, batch, turns, restarts>>

-----------------------------------------------------------------------------
(* The driver's requests, each one handler of the server *)

\* deliveries: everything queued for the tab, once.
Collect ==
  /\ seat.wire # <<>> /\ batch = <<>>
  /\ batch' = seat.wire
  /\ seat' = [seat EXCEPT !.wire = <<>>]
  /\ UNCHANGED <<tab, turns, restarts>>

\* markAttached: a detached tab that is given a turn or output is live again.
Attached(a) == [a EXCEPT !.up = TRUE]

\* openRun for a turn: one collected wake, or work of the far side's own.
OpenRun(collected) ==
  /\ tab \in Listed /\ Cardinality(turns) < Overlap
  /\ tab' = "active"
  /\ seat' = Open(Attached(seat))
  /\ turns' = turns \cup {seat'.n}
  /\ \/ collected /\ batch # <<>> /\ batch' = Tail(batch)
     \/ ~collected /\ seat.n < MaxRuns /\ UNCHANGED batch
  /\ UNCHANGED restarts

\* pushEvent changes the roster only.
PushEvent ==
  /\ tab = "detached" /\ turns # {}
  /\ tab' = "active"
  /\ seat' = Attached(seat)
  /\ UNCHANGED <<batch, turns, restarts>>

\* attributeTo: the Run named, when it is one the tab has open, else whatever it
\* has open.
AttributeTo(a, r) == IF r \in a.open THEN r ELSE a.cur

\* endRun naming the turn's Run.  With turns that overlap it may be settled by
\* then, and what is open is another turn's.  A tab that is unknown has no Run open.
EndRun(r) ==
  /\ r \in turns
  /\ seat' = Settle(seat, AttributeTo(seat, r))
  /\ turns' = turns \ {r}
  /\ UNCHANGED <<tab, batch, restarts>>

\* The openRun of a collected wake is answered 404: its driver gives up on it.
GiveUp ==
  /\ tab \notin Listed /\ batch # <<>>
  /\ batch' = Tail(batch)
  /\ UNCHANGED <<seat, tab, turns, restarts>>

-----------------------------------------------------------------------------
Next ==
  \/ \E c \in Conversations : Wake(c)
  \/ Retire
  \/ Restart
  \/ Reattach
  \/ Collect
  \/ \E collected \in BOOLEAN : OpenRun(collected)
  \/ PushEvent
  \/ \E r \in turns : EndRun(r)
  \/ GiveUp

Spec == Init /\ [][Next]_vars

(***************************************************************************)
(* Fairness.  A driver that is attached keeps polling (Collect), takes up  *)
(* what it collected (OpenRun), ends each turn it began and gets word of   *)
(* it to the server (EndRun): one whose endRun fails leaves the Run open   *)
(* until its next turn or its end.                                         *)
(***************************************************************************)
FairSpec ==
  /\ Spec
  /\ WF_vars(Collect)
  /\ WF_vars(OpenRun(TRUE))
  /\ WF_vars(\E r \in turns : EndRun(r))

-----------------------------------------------------------------------------
TypeOK ==
  /\ seat \in Seats
  /\ tab \in Tabs
  /\ batch \in Seq(Nat)
  /\ turns \subseteq Nat
  /\ restarts \in Nat
  /\ seat.up <=> tab = "active"
  /\ \A r \in seat.open : r <= seat.n

\* A held wake always has an open Run in front of it, whatever the driver, a
\* kill or a restart does (admission.ts).
HeldBehindRun == BehindRun(seat) /\ Indexed(seat)

\* Runs are serial per participant (RunRegistry): the delivery of a released
\* wake opens none, so open never re-enters itself on this connector.
OneOpenRun == Cardinality(seat.open) <= 1

\* Senders get what the admission engine promises.
Ledger == INSTANCE WakeLedger WITH wakes <- seat.wakes
RefinesLedger == Ledger!Spec

\* A Run that is open is one whose end its driver has yet to report: however turns
\* overlap, replace each other's Run and end in any order, with the fallback of
\* attributeTo and restarts in between, none is left running behind them.
OpenRunHasTurn == seat.open \subseteq turns

\* Ending one turn leaves the Run of another open.  True of a driver with one turn
\* at a time alone: the late end of a turn that was overlapped settles its successor's.
EndsOnlyItsRun ==
  [][\A r \in turns : EndRun(r) => (seat.open \ {r}) \subseteq seat'.open]_vars

\* A wake held behind a turn is passed on or dropped aloud once the driver ends
\* that turn, restarts of the server included.
HeldWakeIsReleased == (seat.held # <<>>) ~> (seat.held = <<>>)

\* What is queued for an attached driver is collected.
QueuedIsCollected == (seat.wire # <<>>) ~> (seat.wire = <<>>)
=============================================================================
