------------------------------- MODULE PeerRuns ------------------------------
(***************************************************************************)
(* A participant on the a2a connector: an attached peer of A2aPeerGateway, *)
(* a service the server is a client of.  Each delivery starts a turn that  *)
(* runs behind: it reaches for the peer's client, opens its Run, relays    *)
(* the peer's stream and settles that Run.  Turns overlap; the handlers of *)
(* their awaits interleave with wakes, cancels and detaches.               *)
(* A turn is known by the wake that started it.                            *)
(***************************************************************************)
EXTENDS RunEngine

CONSTANTS MaxWakes,    \* bound: wakes posted to the participant
          MaxRestarts  \* bound: restarts of the server, each with a wake to follow

ASSUME PeerAssumption ==
  /\ Kind = "a2a"
  /\ MaxWakes \in Nat /\ MaxRestarts \in Nat

VARIABLES seat,      \* the participant's seat; its wire is empty between handlers
          tab,       \* the roster's A2aTab
          turns,     \* every turn, by its wake
          restarts   \* restarts so far (for the bound)

vars == <<seat, tab, turns, restarts>>

None == 0  \* no turn

\* status is the tab object's, and through onSubagentUpdate the stored row's;
\* peer says whether it holds a client; abort is the turn whose stream it can
\* stop; task the peer's Task it would continue or cancel, known by the turn that
\* began it.
TabsOf == [listed : BOOLEAN, status : {"active", "detached", "gone"},
           peer : BOOLEAN, abort : Nat, task : Nat]

\* "dialing": awaiting discovery; "called": holding a client, about to open its
\* Run; "streaming"; "over".  cut: its stream was aborted.
Stages == {"none", "dialing", "called", "streaming", "over"}
Turns  == [stage : Stages, run : Nat, task : Nat, cut : BOOLEAN]
NoTurn == [stage |-> "none", run |-> NoRun, task |-> None, cut |-> FALSE]

In(stage) == {w \in DOMAIN turns : turns[w].stage = stage}

Init ==
  /\ seat = FreshSeat
  /\ tab = [listed |-> TRUE, status |-> "active", peer |-> TRUE, abort |-> None, task |-> None]
  /\ turns = [w \in 1 .. MaxWakes |-> NoTurn]
  /\ restarts = 0

-----------------------------------------------------------------------------
(* Helpers *)

\* What a handler leaves: the seat b, and a turn begun by each of its deliveries.
\* A turn asks for the client at once, and has it when the tab holds one.
After(b, ts) ==
  LET new == {b.wire[i] : i \in DOMAIN b.wire}
  IN  /\ seat' = [b EXCEPT !.wire = <<>>]
      /\ turns' = [w \in DOMAIN ts |->
                    IF w \in new
                      THEN [NoTurn EXCEPT !.stage = IF tab.peer THEN "called" ELSE "dialing"]
                      ELSE ts[w]]

\* stop: the stream the tab can abort is aborted, the Task it holds cancelled.
Stopped(ts) ==
  [w \in DOMAIN ts |-> IF w = tab.abort THEN [ts[w] EXCEPT !.cut = TRUE] ELSE ts[w]]

LetGo(t) == [t EXCEPT !.abort = None, !.task = None]

Detached(t) == [t EXCEPT !.status = IF @ = "active" THEN "detached" ELSE @]

\* cancel, as admission's preempt and the API use it: refused with no stream.
CancelOf(a) ==
  [cancelled |-> a.up /\ tab.abort # None,
   seat |-> IF a.up /\ tab.abort # None THEN SettleOpenFor(a) ELSE a]

Over(ts, w) == [ts EXCEPT ![w] = [NoTurn EXCEPT !.stage = "over"]]

-----------------------------------------------------------------------------
(* Wakes, cancellation, detaching *)

Wake(c) ==
  /\ Len(seat.wakes) < MaxWakes
  /\ LET a        == Arrive(seat, c)
         preempts == /\ a.cur # NoRun /\ Policy[c] = "preempt"
                     /\ CancelOf(a).cancelled
     IN  /\ After(Admit(a, c, Len(a.wakes), CancelOf(a)),
                  IF preempts THEN Stopped(turns) ELSE turns)
         /\ tab' = IF preempts THEN LetGo(tab) ELSE tab
  /\ UNCHANGED restarts

Cancel ==
  /\ CancelOf(seat).cancelled
  /\ After(CancelOf(seat).seat, Stopped(turns))
  /\ tab' = LetGo(tab)
  /\ UNCHANGED restarts

\* detach: the tab leaves the roster before its Run is settled.
Detach ==
  /\ tab.listed
  /\ After(SettleOpenFor([seat EXCEPT !.up = FALSE]), Stopped(turns))
  /\ tab' = [LetGo(tab) EXCEPT !.listed = FALSE, !.status = "gone"]
  /\ UNCHANGED restarts

-----------------------------------------------------------------------------
(* A turn, from one await to the next *)

\* Discovery answers: a turn that came second finds the client of the first.
Dialled(w) ==
  /\ w \in In("dialing")
  /\ tab' = [tab EXCEPT !.peer = TRUE, !.status = "active"]
  /\ turns' = [turns EXCEPT ![w].stage = "called"]
  /\ UNCHANGED <<seat, restarts>>

\* Discovery fails: the wake is refused in its Conversation, no Run was opened.
Unreachable(w) ==
  /\ w \in In("dialing")
  /\ tab' = Detached(tab)
  /\ turns' = Over(turns, w)
  /\ UNCHANGED <<seat, restarts>>

\* Mutant of OpenTurn: a turn whose tab was detached is dropped on the floor.
OpenTurnListed(w) ==
  /\ w \in In("called") /\ tab.listed
  /\ After(Open(seat), [turns EXCEPT ![w].stage = "streaming", ![w].task = tab.task,
                                     ![w].run = Open(seat).n])
  /\ tab' = [tab EXCEPT !.abort = w]
  /\ UNCHANGED restarts

\* The turn takes the tab's abort handle and opens its Run, settling the one
\* another turn may still be streaming under.  It continues the tab's Task.
OpenTurn(w) ==
  /\ w \in In("called")
  /\ After(Open(seat), [turns EXCEPT ![w].stage = "streaming", ![w].task = tab.task,
                                     ![w].run = Open(seat).n])
  /\ tab' = [tab EXCEPT !.abort = w]
  /\ UNCHANGED restarts

\* noteTask: an event of the stream carries the peer's Task id.
NoteTask(w) ==
  /\ w \in In("streaming")
  /\ turns' = [turns EXCEPT ![w].task = IF @ = None THEN w ELSE @]
  /\ tab' = [tab EXCEPT !.task = turns'[w].task]
  /\ tab' # tab
  /\ UNCHANGED <<seat, restarts>>

Unhanded(t, w) == [t EXCEPT !.abort = IF @ = w THEN None ELSE @]

\* Mutant of Finish: whatever Run is open is settled, not the turn's own.
FinishEndsCurrent(w, done) ==
  /\ w \in In("streaming")
  /\ After(SettleOpenFor(seat), Over(turns, w))
  /\ tab' = [Unhanded(tab, w) EXCEPT !.task = IF done THEN None ELSE @]
  /\ UNCHANGED restarts

\* finishTurn: the stream ended of itself; done or waiting for input.
Finish(w, done) ==
  /\ w \in In("streaming")
  /\ After(Settle(seat, turns[w].run), Over(turns, w))
  /\ tab' = [Unhanded(tab, w) EXCEPT !.task = IF done THEN None ELSE @]
  /\ UNCHANGED restarts

\* abortTurn: the aborted stream threw; the peer is kept.
Abort(w) ==
  /\ w \in In("streaming") /\ turns[w].cut
  /\ After(Settle(seat, turns[w].run), Over(turns, w))
  /\ tab' = Unhanded(tab, w)
  /\ UNCHANGED restarts

\* failTurn: the stream broke.  The Run is settled first, then the client is
\* let go and the tab marked detached.
Fail(w) ==
  /\ w \in In("streaming") /\ ~turns[w].cut
  /\ After(Settle(seat, turns[w].run), Over(turns, w))
  /\ tab' = Detached([Unhanded(tab, w) EXCEPT !.peer = FALSE, !.task = None])
  /\ UNCHANGED restarts

-----------------------------------------------------------------------------
(* Restarts of the server, and joins *)

\* Mutant of Restart: the Runs are restored, the turns that settle them are not.
RestartKeepsRuns ==
  /\ restarts < MaxRestarts /\ Len(seat.wakes) < MaxWakes
  /\ seat' = [seat EXCEPT !.up = FALSE]
  /\ tab' = [Detached(LetGo(tab)) EXCEPT !.listed = FALSE, !.peer = FALSE]
  /\ turns' = [w \in DOMAIN turns |->
                 IF turns[w].stage = "none" THEN NoTurn ELSE [NoTurn EXCEPT !.stage = "over"]]
  /\ restarts' = restarts + 1

\* Runs, held wakes and turns were in memory; the row is marked detached.
Restart ==
  /\ restarts < MaxRestarts /\ Len(seat.wakes) < MaxWakes
  /\ seat' = [Stamp(seat, HeldIds(seat), "lost") EXCEPT
                !.cur = NoRun, !.open = {}, !.held = <<>>, !.up = FALSE,
                !.riding = FALSE]
  /\ tab' = [Detached(LetGo(tab)) EXCEPT !.listed = FALSE, !.peer = FALSE]
  /\ turns' = [w \in DOMAIN turns |->
                 IF turns[w].stage = "none" THEN NoTurn ELSE [NoTurn EXCEPT !.stage = "over"]]
  /\ restarts' = restarts + 1

\* A join restores a row that is not terminal; bound: once the turns of the tab
\* it replaces have ended.
Reattach ==
  /\ ~tab.listed /\ tab.status # "gone"
  /\ \A w \in DOMAIN turns : turns[w].stage \in {"none", "over"}
  /\ tab' = [LetGo(tab) EXCEPT !.listed = TRUE, !.status = "detached", !.peer = FALSE]
  /\ seat' = [seat EXCEPT !.up = TRUE]
  /\ UNCHANGED <<turns, restarts>>

-----------------------------------------------------------------------------
TurnEnds(w) == (\E done \in BOOLEAN : Finish(w, done)) \/ Abort(w) \/ Fail(w)

TurnMoves(w) == Dialled(w) \/ Unreachable(w) \/ OpenTurn(w) \/ TurnEnds(w)

TurnStep(w) == TurnMoves(w) \/ NoteTask(w)

Next ==
  \/ \E c \in Conversations : Wake(c)
  \/ Cancel
  \/ Detach
  \/ \E w \in DOMAIN turns : TurnStep(w)
  \/ Restart
  \/ Reattach

Spec == Init /\ [][Next]_vars

(***************************************************************************)
(* Fairness.  Discovery answers or times out, the microtask that opens a   *)
(* turn runs, and a peer's stream ends or breaks: every turn moves on.     *)
(***************************************************************************)
FairSpec ==
  /\ Spec
  /\ \A w \in 1 .. MaxWakes : WF_vars(TurnMoves(w))

-----------------------------------------------------------------------------
TypeOK ==
  /\ seat \in Seats
  /\ tab \in TabsOf
  /\ turns \in [1 .. MaxWakes -> Turns]
  /\ restarts \in Nat
  /\ seat.up <=> tab.listed

\* A held wake always has an open Run in front of it (admission.ts).
HeldBehindRun == BehindRun(seat) /\ Indexed(seat)

\* Runs are serial per participant, however its turns overlap (RunRegistry).
OneOpenRun == Cardinality(seat.open) <= 1

\* A Run that is open has a stream that will settle it (A2aPeerGateway.cancel:
\* an aborted peer must not leave a Run running forever).
OpenRunHasTurn ==
  \A r \in seat.open : \E w \in In("streaming") : turns[w].run = r

\* The late end of one turn leaves the Run another turn opened alone.
EndsOnlyItsRun ==
  [][\A w \in DOMAIN turns :
       TurnEnds(w) => (seat.open \ {turns[w].run}) \subseteq seat'.open]_vars

\* Senders get what the admission engine promises.
Ledger == INSTANCE WakeLedger WITH wakes <- seat.wakes
RefinesLedger == Ledger!Spec

\* Once no more wakes come, every turn has come to an end: none is left waiting
\* for a client, or for a tab that went away.
TurnsEnd == <>[](\A w \in 1 .. MaxWakes : turns[w].stage \in {"none", "over"})

\* Cancelling also asks the peer to cancel the Task of the turn it stops, when
\* the peer has named it (A2aPeerGateway.cancel).
CancelStopsTheWork ==
  [][(Cancel /\ turns[tab.abort].task # None)
       => tab.task = turns[tab.abort].task]_vars

\* Nothing resurrects a participant that was killed (ConnectorRegistry.revive).
GoneIsGone == [][tab.status = "gone" => tab'.status = "gone"]_vars
=============================================================================
