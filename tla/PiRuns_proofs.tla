----------------------------- MODULE PiRuns_proofs ---------------------------
(***************************************************************************)
(* A Pi participant's seat stays sound: for any Conversations and policies *)
(* and any number of wakes, Runs and lost processes, no held wake is left  *)
(* behind no Run.  TypeOK and HeldBehindRun are inductive together: TypeOK *)
(* also says that without a process in the roster nobody is mid-turn, so   *)
(* that the process a respawn or a join puts there starts idle.            *)
(* It implements WakeLedger: with the wakes held back those on record as   *)
(* waiting (Recorded, inductive beside Inv), each handler is a step of the *)
(* ledger or none, and what is proved of the ledger is true of the seat.   *)
(***************************************************************************)
EXTENDS PiRuns, RunEngine_proofs

Inv == TypeOK /\ HeldBehindRun

\* What every handler leaves of the seat, the slot and the turn.
Consistent(a, s, t) ==
  /\ Sound(a) /\ s \in Slots /\ t \in Turns
  /\ a.up <=> s \in Occupied
  /\ s = "live" => (a.busy <=> t # "none")
  /\ s \notin Occupied => t = "none" /\ ~a.busy

(* Inv, one conjunct per variable. *)
LEMMA InvIsConsistent ==
  Inv <=> Consistent(seat, slot, turn) /\ old \in OldProcesses /\ losses \in Nat
BY DEF Inv, TypeOK, HeldBehindRun, Consistent, Sound

(* A handler that leaves the roster's process alone, and may have prompted it. *)
LEMMA PromptedIsConsistent ==
  ASSUME Inv, Sound(seat'), Keeps(seat, seat'), slot' = slot, turn' = Prompted(turn)
  PROVE  Consistent(seat', slot', turn')
<1>1. seat' \in Seats /\ seat'.busy \in BOOLEAN /\ seat'.up \in BOOLEAN
  BY SeatFields DEF Sound
<1> QED BY <1>1, InvIsConsistent
        DEF Consistent, Keeps, Prompted, Turns, Slots, Occupied

(* A seat without its process is sound and idle. *)
LEMMA VacatedFacts ==
  ASSUME NEW a \in Seats, Sound(a)
  PROVE  Sound(Vacated(a)) /\ Vacated(a) \in Seats /\ ~Vacated(a).up /\ ~Vacated(a).busy
<1>1. Sound([a EXCEPT !.up = FALSE]) /\ [a EXCEPT !.up = FALSE].up = FALSE
  BY UpField
<1>2. [[a EXCEPT !.up = FALSE] EXCEPT !.busy = FALSE] = Vacated(a)
  BY DEF Vacated, Seats
<1>3. Sound(Vacated(a)) /\ ~Vacated(a).busy /\ ~Vacated(a).up
  BY <1>1, <1>2, BusyField DEF Sound
<1> QED BY <1>3 DEF Sound

-----------------------------------------------------------------------------
(* The parts of Inv a handler must re-establish. *)
LEMMA ConsistentIsInv ==
  ASSUME Consistent(seat', slot', turn'), old' \in OldProcesses, losses' \in Nat
  PROVE  Inv'
BY DEF Inv, TypeOK, HeldBehindRun, Consistent, Sound

(* Inv, as facts for the provers. *)
LEMMA InvFacts ==
  ASSUME Inv
  PROVE  /\ Sound(seat) /\ seat \in Seats /\ seat.busy \in BOOLEAN /\ seat.n \in Nat
         /\ slot \in Slots /\ turn \in Turns /\ old \in OldProcesses /\ losses \in Nat
         /\ seat.up <=> slot \in Occupied
         /\ slot = "live" => (seat.busy <=> turn # "none")
         /\ slot \notin Occupied => turn = "none" /\ ~seat.busy
BY InvIsConsistent, SeatFields DEF Consistent, Sound

(* A wake is admitted, whatever its policy and the process. *)
LEMMA WakeKeepsInv ==
  ASSUME Inv, NEW c \in Conversations, Wake(c)
  PROVE  Inv'
<1> DEFINE a == Arrive(seat, c)
<1>1. /\ Sound(a) /\ a.up = seat.up /\ a.busy = seat.busy /\ Len(a.wakes) \in Nat
      /\ a \in Seats
  BY InvFacts, ArriveIsSound DEF Sound
<1>2. Aborted(a).seat = a /\ Keeps(a, a)
  BY DEF Aborted, Keeps
<1>3. seat' = Admit(a, c, Len(a.wakes), Aborted(a))
  BY DEF Wake
<1> HIDE DEF a
<1>4. Sound(seat') /\ Keeps(a, seat')
  BY <1>1, <1>2, <1>3, AdmitIsSound
<1>5. Keeps(seat, seat')
  BY <1>1, <1>4 DEF Keeps
<1>6. slot' = slot /\ turn' = Prompted(turn) /\ old' = old /\ losses' = losses
  BY DEF Wake
<1> QED BY <1>4, <1>5, <1>6, InvFacts, PromptedIsConsistent, ConsistentIsInv

(* A turn begins: it has a Run, and the process is busy. *)
LEMMA AgentStartKeepsInv ==
  ASSUME Inv, AgentStart
  PROVE  Inv'
<1> DEFINE b == IF seat.cur = NoRun THEN Open(seat) ELSE seat
<1>1. Sound(b) /\ b \in Seats /\ b.up = seat.up
  BY InvFacts, OpenIsSound DEF Sound, Keeps
<1>2. /\ seat' = [b EXCEPT !.busy = TRUE] /\ turn' = "begun"
      /\ slot' = slot /\ old' = old /\ losses' = losses /\ slot \in Occupied
  BY DEF AgentStart, Occupied
<1> HIDE DEF b
<1>3. Sound(seat') /\ seat'.busy = TRUE /\ seat'.up = seat.up
  BY <1>1, <1>2, BusyField
<1>4. Consistent(seat', slot', turn')
  BY <1>2, <1>3, InvFacts DEF Consistent, Turns
<1> QED BY <1>2, <1>4, InvFacts, ConsistentIsInv

(* A turn ends: what the settle releases may begin the next one. *)
LEMMA AgentEndKeepsInv ==
  ASSUME Inv, AgentEnd
  PROVE  Inv'
<1> DEFINE b == [seat EXCEPT !.busy = FALSE]
<1>1. Sound(b) /\ b \in Seats /\ b.up = seat.up /\ b.busy = FALSE
  BY InvFacts, BusyField DEF Sound
<1>2. /\ seat' = SettleOpenFor(b) /\ turn' = Prompted("none")
      /\ slot' = slot /\ old' = old /\ losses' = losses /\ slot \in Occupied
  BY DEF AgentEnd
<1> HIDE DEF b
<1>3. Sound(seat') /\ seat'.up = seat.up /\ seat'.busy \in BOOLEAN
  BY <1>1, <1>2, SettleOpenForIsSound, SeatFields DEF Keeps, Sound
<1>4. Consistent(seat', slot', turn')
  BY <1>2, <1>3, InvFacts DEF Consistent, Turns, Prompted
<1> QED BY <1>2, <1>4, InvFacts, ConsistentIsInv

(* A death changes nothing before its exit event. *)
LEMMA DieKeepsInv ==
  ASSUME Inv, Die
  PROVE  Inv'
<1>1. Consistent(seat', slot', turn')
  BY InvFacts DEF Die, Consistent, Slots, Occupied
<1> QED BY <1>1, InvFacts, ConsistentIsInv DEF Die

(* The exit of the roster's process: its Run is settled while it is still there,
   so a wake it held back may be handed to it; then the slot is empty. *)
LEMMA ExitKeepsInv ==
  ASSUME Inv, Exit
  PROVE  Inv'
<1> DEFINE b == [seat EXCEPT !.busy = FALSE]
           f == FailInFlight(seat)
<1>1. Sound(f) /\ f \in Seats
  <2>1. Sound(b) /\ b \in Seats
    BY InvFacts, BusyField DEF Sound
  <2> HIDE DEF b
  <2>2. Sound(SettleOpenFor(b))
    BY <2>1, SettleOpenForIsSound
  <2> QED BY <2>2, InvFacts DEF FailInFlight, Sound, b
<1>2. /\ seat' = Vacated(f) /\ turn' = "none" /\ slot' \in {"vacant", "closed", "gap"}
      /\ old' = [state |-> "exited", busy |-> FALSE, turn |-> turn, ran |-> seat'.n]
      /\ losses' = losses
  BY DEF Exit, Removed
<1> HIDE DEF f
<1>3. Sound(seat') /\ ~seat'.up /\ ~seat'.busy /\ seat'.n \in Nat
  BY <1>1, <1>2, VacatedFacts, SeatFields DEF Sound
<1>4. Consistent(seat', slot', turn')
  BY <1>2, <1>3 DEF Consistent, Turns, Slots, Occupied
<1>5. old' \in OldProcesses
  BY <1>2, <1>3, InvFacts DEF OldProcesses
<1> QED BY <1>2, <1>4, <1>5, InvFacts, ConsistentIsInv

(* The process a respawn or a join puts in the roster is idle. *)
LEMMA RespawnKeepsInv ==
  ASSUME Inv, NEW spawned \in BOOLEAN, Respawn(spawned)
  PROVE  Inv'
<1>1. Sound(seat') /\ seat'.up = spawned /\ seat'.busy = seat.busy
  BY InvFacts, UpField DEF Respawn
<1>2. Consistent(seat', slot', turn')
  BY <1>1, InvFacts DEF Respawn, Consistent, Slots, Occupied
<1> QED BY <1>2, InvFacts, ConsistentIsInv DEF Respawn

(* So is the one a join brings back. *)
LEMMA JoinKeepsInv ==
  ASSUME Inv, Join
  PROVE  Inv'
<1>1. Sound(seat') /\ seat'.up = TRUE /\ seat'.busy = seat.busy
  BY InvFacts, UpField DEF Join
<1>2. Consistent(seat', slot', turn')
  BY <1>1, InvFacts DEF Join, Consistent, Slots, Occupied
<1> QED BY <1>2, InvFacts, ConsistentIsInv DEF Join

(* A model change: whatever the settle handed to the outgoing process, the new
   one starts idle; when it cannot be launched the killed one keeps its turn. *)
LEMMA SetAgentModelKeepsInv ==
  ASSUME Inv, NEW spawned \in BOOLEAN, SetAgentModel(spawned)
  PROVE  Inv'
<1> DEFINE b   == [seat EXCEPT !.busy = FALSE]
           cut == SettleOpenFor(b)
<1>1. Sound(b) /\ b \in Seats /\ b.up = seat.up
  BY InvFacts, BusyField DEF Sound
<1> HIDE DEF b
<1>2. Sound(cut) /\ cut \in Seats /\ cut.up = seat.up /\ cut.busy \in BOOLEAN /\ cut.n \in Nat
  BY <1>1, SettleOpenForIsSound, SeatFields DEF Keeps, Sound
<1>3. CASE spawned
  <2>1. /\ seat' = [cut EXCEPT !.busy = FALSE] /\ turn' = "none" /\ slot' = "live"
        /\ old' = [state |-> "killed", busy |-> cut.busy, turn |-> turn, ran |-> cut.n]
        /\ losses' = losses + 1 /\ slot \in Occupied
    BY <1>3 DEF SetAgentModel, b
  <2> HIDE DEF cut
  <2>2. Sound(seat') /\ seat'.up = seat.up /\ seat'.busy = FALSE
    BY <1>2, <2>1, BusyField
  <2>3. Consistent(seat', slot', turn')
    BY <2>1, <2>2, InvFacts DEF Consistent, Slots, Turns, Occupied
  <2>4. old' \in OldProcesses
    BY <2>1, <1>2, InvFacts DEF OldProcesses
  <2> QED BY <2>1, <2>3, <2>4, InvFacts, ConsistentIsInv
<1>4. CASE ~spawned
  <2>1. /\ seat' = cut /\ slot' = "doomed" /\ turn' = turn /\ old' = old
        /\ losses' = losses + 1 /\ slot \in Occupied
    BY <1>4 DEF SetAgentModel, b
  <2>2. Consistent(seat', slot', turn')
    BY <2>1, <1>2, InvFacts DEF Consistent, Slots, Occupied
  <2> QED BY <2>1, <2>2, InvFacts, ConsistentIsInv
<1> QED BY <1>3, <1>4

(* The process leaves the roster: no turn of the roster's is left. *)
LEMMA LeavesKeepsInv ==
  ASSUME Inv, Leaves, Sound(seat'), ~seat'.up, ~seat'.busy
  PROVE  Inv'
<1>1. Consistent(seat', slot', turn')
  BY DEF Leaves, Consistent, Slots, Turns, Occupied
<1>2. old' \in OldProcesses /\ losses' \in Nat
  BY InvFacts DEF Leaves, OldProcesses
<1> QED BY <1>1, <1>2, ConsistentIsInv

(* A kill vacates the seat before it settles its Run. *)
LEMMA KillAgentKeepsInv ==
  ASSUME Inv, KillAgent
  PROVE  Inv'
<1>1. Sound(Vacated(seat)) /\ Vacated(seat) \in Seats
      /\ ~Vacated(seat).up /\ ~Vacated(seat).busy
  BY InvFacts, VacatedFacts
<1>2. Sound(seat') /\ Keeps(Vacated(seat), seat')
  BY <1>1, SettleOpenForIsSound DEF KillAgent
<1>3. ~seat'.up /\ ~seat'.busy
  BY <1>1, <1>2 DEF Keeps
<1> QED BY <1>2, <1>3, LeavesKeepsInv DEF KillAgent

(* Dispose vacates the seat and settles nothing. *)
LEMMA DisposeKeepsInv ==
  ASSUME Inv, Dispose
  PROVE  Inv'
<1>1. Sound(seat') /\ ~seat'.up /\ ~seat'.busy
  BY InvFacts, VacatedFacts DEF Dispose
<1> QED BY <1>1, LeavesKeepsInv DEF Dispose

(* Lines and the exit of a process that left: they may settle or open a Run of
   the participant, but leave the roster's process and its turn alone. *)
LEMMA OldLinesKeepInv ==
  ASSUME Inv, OldAgentStart \/ OldAgentEnd \/ OldExit
  PROVE  Inv'
<1>1. Sound(seat') /\ Keeps(seat, seat')
  BY InvFacts, OpenIsSound, SettleOpenForIsSound
     DEF OldAgentStart, OldAgentEnd, OldExit, Keeps
<1>2. slot' = slot /\ turn' = Prompted(turn) /\ losses' = losses
  BY DEF OldAgentStart, OldAgentEnd, OldExit
<1>3. seat'.n \in Nat
  BY <1>1, SeatFields DEF Sound
<1>4. old' \in OldProcesses
  <2>1. CASE OldAgentStart
    BY <2>1, <1>3, InvFacts DEF OldAgentStart, OldProcesses, Turns
  <2>2. CASE OldAgentEnd
    BY <2>2, InvFacts DEF OldAgentEnd, OldProcesses, Turns
  <2>3. CASE OldExit
    BY <2>3, InvFacts DEF OldExit, OldProcesses
  <2> QED BY <2>1, <2>2, <2>3
<1> QED BY <1>1, <1>2, <1>4, InvFacts, PromptedIsConsistent, ConsistentIsInv

(* The last pipe of an exited process closes. *)
LEMMA OldCloseKeepsInv ==
  ASSUME Inv, OldClose
  PROVE  Inv'
<1>1. old' \in OldProcesses
  BY DEF OldClose, NoProcess, OldProcesses, Turns, NoRun
<1>2. Consistent(seat', slot', turn')
  BY InvFacts DEF OldClose, Consistent
<1> QED BY <1>1, <1>2, InvFacts, ConsistentIsInv DEF OldClose

-----------------------------------------------------------------------------
(* A participant starts with an idle process and nothing held. *)
LEMMA InvHoldsInitially == Init => Inv
<1> SUFFICES ASSUME Init PROVE Inv
  OBVIOUS
<1>1. old \in OldProcesses /\ losses \in Nat
  BY DEF Init, NoProcess, OldProcesses, Turns, NoRun
<1>2. Consistent(seat, slot, turn)
  BY FreshSeatIsSound DEF Init, Consistent, FreshSeat, Slots, Turns, Occupied
<1> QED BY <1>1, <1>2, InvIsConsistent

(* Every handler keeps Inv. *)
LEMMA InvIsInductive == Inv /\ [Next]_vars => Inv'
<1> SUFFICES ASSUME Inv, [Next]_vars PROVE Inv'
  OBVIOUS
<1>1. CASE \E c \in Conversations : Wake(c)
  BY <1>1, WakeKeepsInv
<1>2. CASE AgentStart \/ AgentEnd \/ Die \/ Exit \/ Join
  BY <1>2, AgentStartKeepsInv, AgentEndKeepsInv, DieKeepsInv, ExitKeepsInv, JoinKeepsInv
<1>3. CASE \E spawned \in BOOLEAN : Respawn(spawned) \/ SetAgentModel(spawned)
  BY <1>3, RespawnKeepsInv, SetAgentModelKeepsInv
<1>4. CASE KillAgent \/ Dispose
  BY <1>4, KillAgentKeepsInv, DisposeKeepsInv
<1>5. CASE OldAgentStart \/ OldAgentEnd \/ OldExit \/ OldClose
  BY <1>5, OldLinesKeepInv, OldCloseKeepsInv
<1>6. CASE UNCHANGED vars
  <2>1. Consistent(seat', slot', turn') /\ old' \in OldProcesses /\ losses' \in Nat
    BY <1>6, InvIsConsistent DEF vars
  <2> QED BY <2>1, ConsistentIsInv
<1> QED BY <1>1, <1>2, <1>3, <1>4, <1>5, <1>6 DEF Next

(* Inv is an invariant of the specification. *)
LEMMA InvHolds == Spec => []Inv
BY InvHoldsInitially, InvIsInductive, PTL DEF Spec

(* The seat, the roster's slot and the processes keep to their types, and the
   connector's view of the process is the roster's. *)
THEOREM PiTypeOK == Spec => []TypeOK
BY InvHolds, PTL DEF Inv

(* Whatever happens to its process, a Pi participant never has a wake held back
   with no Run open whose settling would release it (admission.ts). *)
THEOREM PiHeldBehindRun == Spec => []HeldBehindRun
BY InvHolds, PTL DEF Inv

-----------------------------------------------------------------------------
(* Each handler is a step of WakeLedger, or leaves the ledger alone. *)

(* Letting held wakes go is the ledger's release. *)
LEMMA FreedIsReleased ==
  ASSUME seat \in Seats, Freed(seat.wakes, seat'.wakes)
  PROVE  [Ledger!Next]_(seat.wakes)
<1>1. PICK ids \in SUBSET Waiting(seat.wakes), f \in {"sent", "lost"} :
        seat'.wakes = Restamped(seat.wakes, ids, f)
  BY DEF Freed
<1>2. CASE ids = {}
  BY <1>1, <1>2, SeatFields, RestampedNone
<1>3. CASE ids # {}
  <2>1. Ledger!Released(ids, f)
    BY <1>1, <1>3 DEF Ledger!Released, Ledger!Stamped, Restamped
  <2>2. ids \in SUBSET Ledger!Held
    BY <1>1 DEF Ledger!Held, Waiting
  <2> QED BY <2>1, <2>2 DEF Ledger!Next
<1> QED BY <1>2, <1>3

(* A wake that is answered is put off, refused or handed over in the ledger. *)
LEMMA PostedIsAnswered ==
  ASSUME seat \in Seats, NEW c \in Conversations, Len(seat.wakes) < MaxWakes,
         Posted(seat.wakes, c, seat'.wakes)
  PROVE  Ledger!Next
<1> DEFINE mine == {i \in Waiting(seat.wakes) : seat.wakes[i].conv = c}
<1>1. mine = Ledger!Held \cap Ledger!Of(c) /\ Waiting(seat.wakes) = Ledger!Held
  BY DEF Ledger!Held, Ledger!Of, Waiting
<1>2. \A ids, f : Restamped(seat.wakes, ids, f) = Ledger!Stamped(ids, f)
  BY DEF Restamped, Ledger!Stamped
<1>3. \/ seat'.wakes = Append(Restamped(seat.wakes, mine, "merged"), [conv |-> c, fate |-> "held"])
      \/ seat'.wakes = Append(seat.wakes, [conv |-> c, fate |-> "refused"])
      \/ \E ids \in SUBSET Waiting(seat.wakes) :
           /\ mine \subseteq ids
           /\ seat'.wakes = Append(Restamped(seat.wakes, ids, "sent"),
                                   [conv |-> c, fate |-> "sent"])
  BY DEF Posted
<1> HIDE DEF mine
<1>4. \/ Ledger!PutOff(c) \/ Ledger!Refused(c)
      \/ \E ids \in SUBSET Ledger!Held : Ledger!HandedOver(c, ids)
  BY <1>1, <1>2, <1>3 DEF Ledger!PutOff, Ledger!Refused, Ledger!HandedOver
<1> QED BY <1>4 DEF Ledger!Next

(* A wake is admitted. *)
LEMMA WakeIsAnswered ==
  ASSUME Inv, Recorded(seat, 0), NEW c \in Conversations, Wake(c)
  PROVE  Recorded(seat', 0) /\ Ledger!Next
<1> DEFINE a == Arrive(seat, c)
<1>1. seat \in Seats /\ Sound(seat) /\ Len(seat.wakes) < MaxWakes
  BY InvFacts DEF Wake
<1>2. Aborted(a).seat = a
  BY DEF Aborted
<1>3. seat' = Admit(a, c, Len(a.wakes), Aborted(a))
  BY DEF Wake
<1>4. Recorded(seat', 0) /\ Posted(seat.wakes, c, seat'.wakes)
  <2>1. Len(a.wakes) = Len(seat.wakes) + 1
    BY <1>1, ArriveRecorded
  <2> QED BY <1>1, <1>2, <1>3, <2>1, AdmitPosts
<1> QED BY <1>1, <1>4, PostedIsAnswered

(* Whether the process is busy or in the roster is no matter of the wakes. *)
LEMMA ProcessFields ==
  ASSUME NEW a \in Seats, Sound(a), Recorded(a, 0), NEW p \in BOOLEAN
  PROVE  /\ LET b == [a EXCEPT !.busy = p]
            IN  b \in Seats /\ Sound(b) /\ Recorded(b, 0) /\ b.held = a.held /\ b.wakes = a.wakes
         /\ LET b == [a EXCEPT !.up = p]
            IN  b \in Seats /\ Sound(b) /\ Recorded(b, 0) /\ b.held = a.held /\ b.wakes = a.wakes
         /\ LET b == Vacated(a)
            IN  b \in Seats /\ Sound(b) /\ Recorded(b, 0) /\ b.held = a.held /\ b.wakes = a.wakes
<1>1. /\ Sound([a EXCEPT !.busy = p]) /\ [a EXCEPT !.busy = p].held = a.held
      /\ [a EXCEPT !.busy = p].wakes = a.wakes
  BY BusyField DEF Seats
<1>2. /\ Sound([a EXCEPT !.up = p]) /\ [a EXCEPT !.up = p].held = a.held
      /\ [a EXCEPT !.up = p].wakes = a.wakes
  BY UpField DEF Seats
<1>3. Sound(Vacated(a)) /\ Vacated(a).held = a.held /\ Vacated(a).wakes = a.wakes
  BY VacatedFacts DEF Vacated, Seats
<1> QED BY <1>1, <1>2, <1>3, RecordedSame DEF Sound

(* A turn begins: its Run may settle the one before. *)
LEMMA AgentStartFollows ==
  ASSUME Inv, Recorded(seat, 0), AgentStart \/ OldAgentStart
  PROVE  Follows(seat, seat')
<1> DEFINE b == IF seat.cur = NoRun THEN Open(seat) ELSE seat
<1>1. seat \in Seats /\ Sound(seat)
  BY InvFacts
<1>2. Follows(seat, b) /\ b \in Seats
  BY <1>1, OpenForFollows, SameFollows, OpenIsSound DEF Sound
<1>3. seat' = [b EXCEPT !.busy = TRUE] \/ seat' = b
  BY DEF AgentStart, OldAgentStart
<1> HIDE DEF b
<1>4. seat'.held = b.held /\ seat'.wakes = b.wakes
  BY <1>2, <1>3 DEF Seats
<1> QED BY <1>2, <1>4, FollowsFrom

(* A turn of the roster's process or of an old one ends, or a model change cuts
   it: the Run is settled. *)
LEMMA SettledFollows ==
  ASSUME Inv, Recorded(seat, 0), NEW p \in {seat, [seat EXCEPT !.busy = FALSE], Vacated(seat)},
         NEW b, b.held = SettleOpenFor(p).held, b.wakes = SettleOpenFor(p).wakes
  PROVE  Follows(seat, b)
<1>1. seat \in Seats /\ Sound(seat)
  BY InvFacts
<1>2. p \in Seats /\ Sound(p) /\ Recorded(p, 0) /\ p.wakes = seat.wakes
  BY <1>1, ProcessFields
<1>3. Follows(p, SettleOpenFor(p))
  BY <1>2, OpenForFollows
<1> QED BY <1>2, <1>3, FollowsFrom

(* The handlers that end a turn, or cut it. *)
LEMMA EndFollows ==
  ASSUME Inv, Recorded(seat, 0),
         \/ AgentEnd \/ KillAgent \/ OldAgentEnd \/ OldExit
         \/ \E spawned \in BOOLEAN : SetAgentModel(spawned)
  PROVE  Follows(seat, seat')
<1>1. CASE AgentEnd \/ KillAgent \/ OldAgentEnd
  BY <1>1, SettledFollows DEF AgentEnd, KillAgent, OldAgentEnd
<1>2. CASE OldExit
  BY <1>2, InvFacts, SettledFollows, SameFollows DEF OldExit
<1>3. ASSUME NEW spawned \in BOOLEAN, SetAgentModel(spawned)
      PROVE  Follows(seat, seat')
  <2> DEFINE p   == [seat EXCEPT !.busy = FALSE]
             cut == SettleOpenFor(p)
  <2>1. seat' = cut \/ seat' = [cut EXCEPT !.busy = FALSE]
    BY <1>3 DEF SetAgentModel
  <2>2. cut \in Seats
    BY InvFacts, BusyField, SettleOpenForIsSound DEF Sound
  <2>3. seat'.held = cut.held /\ seat'.wakes = cut.wakes
    <3> HIDE DEF cut
    <3> QED BY <2>1, <2>2 DEF Seats
  <2> QED BY <2>3, SettledFollows
<1> QED BY <1>1, <1>2, <1>3

(* The exit of the roster's process: its Run is settled while it is still there. *)
LEMMA ExitFollows ==
  ASSUME Inv, Recorded(seat, 0), Exit
  PROVE  Follows(seat, seat')
<1> DEFINE f == FailInFlight(seat)
           b == [seat EXCEPT !.busy = FALSE]
<1>1. f = SettleOpenFor(b) \/ f = seat
  BY DEF FailInFlight
<1>2. b \in Seats /\ Sound(b)
  BY InvFacts, BusyField DEF Sound
<1>3. f \in Seats
  BY <1>1, <1>2, InvFacts, SettleOpenForIsSound DEF Sound
<1>4. Follows(seat, f)
  BY <1>1, InvFacts, SettledFollows, SameFollows
<1>5. seat' = Vacated(f)
  BY DEF Exit
<1> HIDE DEF f, b
<1>6. seat'.held = f.held /\ seat'.wakes = f.wakes
  BY <1>3, <1>5 DEF Vacated, Seats
<1> QED BY <1>4, <1>6, FollowsFrom

(* The other handlers touch no wake. *)
LEMMA RosterFollows ==
  ASSUME Inv, Recorded(seat, 0),
         \/ Die \/ Join \/ Dispose \/ OldClose \/ UNCHANGED vars
         \/ \E spawned \in BOOLEAN : Respawn(spawned)
  PROVE  Follows(seat, seat')
<1>1. seat'.held = seat.held /\ seat'.wakes = seat.wakes
  BY InvFacts DEF Die, Join, Dispose, OldClose, Respawn, Vacated, Seats, vars
<1> QED BY <1>1, InvFacts, SameFollows

(* Each handler keeps the seat on record, and is a step of the ledger or none. *)
LEMMA EveryStepIsTheLedgers ==
  Inv /\ Recorded(seat, 0) /\ [Next]_vars => Recorded(seat, 0)' /\ [Ledger!Next]_(seat.wakes)
<1> SUFFICES ASSUME Inv, Recorded(seat, 0), [Next]_vars
             PROVE  Recorded(seat', 0) /\ [Ledger!Next]_(seat.wakes)
  BY DEF Recorded, HeldIds
<1>1. CASE \E c \in Conversations : Wake(c)
  BY <1>1, WakeIsAnswered
<1>2. CASE ~\E c \in Conversations : Wake(c)
  <2>1. Follows(seat, seat')
    BY <1>2, AgentStartFollows, EndFollows, ExitFollows, RosterFollows DEF Next
  <2> QED BY <2>1, InvFacts, FreedIsReleased DEF Follows
<1> QED BY <1>1, <1>2

(* Whatever the process and the roster go through, the senders of a Pi
   participant's wakes get what AdmissionEngine promises: every wake is answered
   at once, one of a Conversation waits at most and it is the latest, none is
   overtaken and none is forgotten (WakeLedger). *)
THEOREM PiRefinesLedger == Spec => RefinesLedger
<1>1. Init => Recorded(seat, 0) /\ Ledger!Init
  BY FreshSeatIsRecorded DEF Init, Ledger!Init, FreshSeat
<1> QED
  BY <1>1, EveryStepIsTheLedgers, InvHolds, PTL DEF Spec, RefinesLedger, Ledger!Spec

-----------------------------------------------------------------------------
(* What the ledger promises, of this seat. *)
Promise == INSTANCE WakeLedger_proofs WITH wakes <- seat.wakes

(* So what is proved of the ledger is true of a Pi participant: of the wakes of a
   Conversation at most one waits, it is the latest, and none newer was handed
   over (admission.ts: hold, release). *)
THEOREM PiKeepsItsPromise ==
  Spec => [](Ledger!OneHeldEach /\ Ledger!LatestIsKept /\ Ledger!NoOvertaking)
<1>1. Promise!Spec => [](Promise!OneHeldEach /\ Promise!LatestIsKept /\ Promise!NoOvertaking)
  <2>1. Promise!LedgerAssumption
    BY PiAssumption DEF Promise!LedgerAssumption
  <2> QED
    BY <2>1, Promise!LedgerOneHeldEach, Promise!LedgerLatestIsKept,
       Promise!LedgerNoOvertaking, PTL
<1>2. Ledger!Init <=> Promise!Init
  BY DEF Ledger!Init, Promise!Init
<1>3. [Ledger!Next]_(seat.wakes) <=> [Promise!Next]_(seat.wakes)
  BY DEF Ledger!Next, Promise!Next, Ledger!Released, Promise!Released, Ledger!PutOff,
         Promise!PutOff, Ledger!Refused, Promise!Refused, Ledger!HandedOver,
         Promise!HandedOver, Ledger!Stamped, Promise!Stamped, Ledger!Held, Promise!Held,
         Ledger!Of, Promise!Of
<1>4. (Promise!OneHeldEach <=> Ledger!OneHeldEach)
      /\ (Promise!LatestIsKept <=> Ledger!LatestIsKept)
      /\ (Promise!NoOvertaking <=> Ledger!NoOvertaking)
  BY DEF Promise!OneHeldEach, Ledger!OneHeldEach, Promise!LatestIsKept, Ledger!LatestIsKept,
         Promise!NoOvertaking, Ledger!NoOvertaking, Ledger!Held, Promise!Held
<1> QED
  BY <1>1, <1>2, <1>3, <1>4, PiRefinesLedger, PTL
     DEF RefinesLedger, Ledger!Spec, Promise!Spec
=============================================================================
