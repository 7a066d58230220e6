-------------------------- MODULE ExternalRuns_proofs ------------------------
(***************************************************************************)
(* A tab driven from outside never has two Runs open, holds no wake behind *)
(* no Run, and leaves no Run running whose turn was reported ended, for    *)
(* any driver, however its turns overlap.  The inductive invariant adds to *)
(* TypeOK that the registry's indexes agree (Serial: this connector's      *)
(* deliveries open no Run) and that every open Run is one of the driver's. *)
(* It implements WakeLedger: with the wakes held back those on record as   *)
(* waiting (Recorded, inductive beside Inv), each handler is a step of the *)
(* ledger or none, and what is proved of the ledger is true of the seat.   *)
(***************************************************************************)
EXTENDS ExternalRuns, RunEngine_proofs, FiniteSetTheorems

Inv ==
  /\ TypeOK
  /\ HeldBehindRun
  /\ Serial(seat)
  /\ OpenRunHasTurn

\* What every handler leaves of the seat, the tab and the driver's turns.
Consistent(a, t, ts) ==
  /\ Sound(a) /\ Serial(a) /\ t \in Tabs /\ ts \subseteq Nat
  /\ a.up <=> t = "active"
  /\ a.open \subseteq ts

(* The connector opens late. *)
LEMMA External == OpensLate
BY ExternalAssumption DEF OpensLate

(* Inv, as facts for the provers. *)
LEMMA InvFacts ==
  ASSUME Inv
  PROVE  /\ Consistent(seat, tab, turns) /\ seat \in Seats /\ Sound(seat) /\ Serial(seat)
         /\ seat.n \in Nat /\ seat.wire \in Seq(Nat) /\ seat.up \in BOOLEAN
         /\ batch \in Seq(Nat) /\ turns \subseteq Nat /\ restarts \in Nat
         /\ tab \in Tabs /\ (seat.up <=> tab = "active") /\ seat.open \subseteq turns
BY SeatFields DEF Inv, TypeOK, HeldBehindRun, OpenRunHasTurn, Consistent, Sound

(* The parts of Inv a handler must re-establish. *)
LEMMA ConsistentIsInv ==
  ASSUME Consistent(seat', tab', turns'), batch' \in Seq(Nat), restarts' \in Nat
  PROVE  Inv'
<1>1. seat' \in Seats /\ seat'.cur \in Nat /\ seat'.n \in Nat
  BY SeatFields DEF Consistent, Sound
<1>2. \A r \in seat'.open : r <= seat'.n
  BY <1>1 DEF Consistent, Serial
<1> QED BY <1>1, <1>2 DEF Inv, TypeOK, HeldBehindRun, OpenRunHasTurn, Consistent, Sound

(* A wake is admitted: held, refused or queued, it opens no Run. *)
LEMMA WakeKeepsInv ==
  ASSUME Inv, NEW c \in Conversations, Wake(c)
  PROVE  Inv'
<1> DEFINE a == Arrive(seat, c)
<1>1. Sound(a) /\ a \in Seats /\ a.up = seat.up /\ Len(a.wakes) \in Nat
  BY InvFacts, ArriveIsSound DEF Sound
<1>2. SameRuns(seat, a)
  BY InvFacts DEF Arrive, SameRuns, Seats
<1>3. Serial(a) /\ a.open = seat.open
  BY <1>2, InvFacts DEF SameRuns, Serial
<1>4. Refusal(a).seat = a /\ Keeps(a, a)
  BY DEF Refusal, Keeps
<1>5. seat' = Admit(a, c, Len(a.wakes), Refusal(a))
  BY DEF Wake
<1> HIDE DEF a
<1>6. Sound(seat') /\ seat'.up = seat.up
  BY <1>1, <1>4, <1>5, AdmitIsSound DEF Keeps
<1>7. Serial(seat') /\ seat'.open = seat.open
  BY <1>1, <1>3, <1>4, <1>5, AdmitIsSerial, External
<1>8. UNCHANGED <<tab, batch, turns, restarts>>
  BY DEF Wake
<1> QED BY <1>6, <1>7, <1>8, InvFacts, ConsistentIsInv DEF Consistent

(* The fields a handler of the tab changes leave the Runs alone. *)
LEMMA WithoutFarEnd ==
  ASSUME NEW a \in Seats, Sound(a), Serial(a), NEW w \in Seq(Nat), NEW p \in BOOLEAN
  PROVE  LET b == [a EXCEPT !.up = p, !.wire = w]
         IN  Sound(b) /\ Serial(b) /\ b \in Seats /\ b.up = p /\ b.open = a.open
<1> DEFINE u == [a EXCEPT !.up = p]
           b == [a EXCEPT !.up = p, !.wire = w]
<1>1. Sound(u) /\ u \in Seats
  BY UpField DEF Sound
<1>2. b = [u EXCEPT !.wire = w]
  BY DEF Seats
<1>3. SameRuns(a, b) /\ b.up = p
  BY DEF SameRuns, Seats
<1> HIDE DEF u, b
<1>4. Sound(b) /\ b \in Seats
  BY <1>1, <1>2, WireField DEF Sound
<1>5. Serial(b) /\ b.open = a.open
  BY <1>3 DEF SameRuns, Serial
<1> QED BY <1>3, <1>4, <1>5 DEF b

(* The tab is retired: its Run is settled with nobody to release to. *)
LEMMA RetireKeepsInv ==
  ASSUME Inv, Retire
  PROVE  Inv'
<1> DEFINE b == [seat EXCEPT !.up = FALSE, !.wire = <<>>]
<1>0. <<>> \in Seq(Nat)
  OBVIOUS
<1>1. Sound(b) /\ Serial(b) /\ b \in Seats /\ b.up = FALSE
  BY <1>0, InvFacts, WithoutFarEnd
<1>2. seat' = SettleOpenFor(b) /\ tab' = "gone" /\ UNCHANGED <<batch, turns, restarts>>
  BY DEF Retire
<1> HIDE DEF b
<1>3. Sound(seat') /\ seat'.up = FALSE
  BY <1>1, <1>2, SettleOpenForIsSound DEF Keeps
<1>4. Serial(seat') /\ seat'.open = {}
  BY <1>1, <1>2, SettleOpenForIsSerial, External
<1> QED BY <1>2, <1>3, <1>4, InvFacts, ConsistentIsInv DEF Consistent, Tabs

(* A restart leaves nothing open and nothing held. *)
LEMMA RestartKeepsInv ==
  ASSUME Inv, Restart
  PROVE  Inv'
<1> DEFINE s == Stamp(seat, HeldIds(seat), "lost")
<1>1. s \in Seats
  BY InvFacts, StampIsSound DEF Fates
<1>2. /\ seat' = [s EXCEPT !.cur = NoRun, !.open = {}, !.held = <<>>, !.up = FALSE,
                           !.wire = <<>>, !.riding = FALSE]
      /\ tab' = "absent" /\ restarts' = restarts + 1 /\ UNCHANGED <<batch, turns>>
  BY DEF Restart
<1> HIDE DEF s
<1>3. /\ <<>> \in Seq([conv : Conversations, id : Nat]) /\ <<>> \in Seq(Nat)
      /\ NoRun \in Nat /\ {} \in SUBSET Nat
  BY DEF NoRun
<1>4. seat' \in Seats
  BY <1>1, <1>2, <1>3 DEF Seats
<1>5. /\ seat'.cur = NoRun /\ seat'.open = {} /\ seat'.held = <<>> /\ ~seat'.up
      /\ seat'.n \in Nat
  BY <1>1, <1>2 DEF Seats
<1>6. Sound(seat') /\ Serial(seat')
  BY <1>4, <1>5 DEF Sound, BehindRun, Indexed, Serial, NoRun
<1> QED BY <1>2, <1>5, <1>6, InvFacts, ConsistentIsInv DEF Consistent, Tabs

(* The driver collects what is queued. *)
LEMMA CollectKeepsInv ==
  ASSUME Inv, Collect
  PROVE  Inv'
<1>0. <<>> \in Seq(Nat)
  OBVIOUS
<1>1. Sound(seat') /\ seat'.up = seat.up /\ SameRuns(seat, seat')
  BY <1>0, InvFacts, WireField DEF Collect, SameRuns
<1>2. batch' \in Seq(Nat) /\ UNCHANGED <<tab, turns, restarts>>
  BY InvFacts DEF Collect
<1> QED BY <1>1, <1>2, InvFacts, ConsistentIsInv DEF Consistent, SameRuns, Serial

(* A tab that gives a sign of life is live again. *)
LEMMA AttachedFacts ==
  ASSUME Inv
  PROVE  /\ Sound(Attached(seat)) /\ Serial(Attached(seat)) /\ Attached(seat) \in Seats
         /\ Attached(seat).up = TRUE /\ Attached(seat).open = seat.open
         /\ Attached(seat).n = seat.n
<1>1. Sound(Attached(seat)) /\ Attached(seat).up = TRUE
  BY InvFacts, UpField DEF Attached
<1>2. SameRuns(seat, Attached(seat))
  BY InvFacts DEF Attached, SameRuns, Seats
<1> QED BY <1>1, <1>2, InvFacts DEF SameRuns, Serial, Sound

(* The driver opens a Run: the only one, and one of its turns. *)
LEMMA OpenRunKeepsInv ==
  ASSUME Inv, NEW collected \in BOOLEAN, OpenRun(collected)
  PROVE  Inv'
<1> DEFINE b == Attached(seat)
<1>1. /\ Sound(b) /\ Serial(b) /\ b \in Seats /\ b.up = TRUE
  BY AttachedFacts
<1>2. /\ seat' = Open(b) /\ tab' = "active" /\ turns' = turns \cup {seat'.n}
      /\ restarts' = restarts
  BY DEF OpenRun
<1>3. batch' \in Seq(Nat)
  BY InvFacts, RestTypes DEF OpenRun
<1> HIDE DEF b
<1>4. Sound(seat') /\ seat'.up = TRUE
  BY <1>1, <1>2, OpenIsSound DEF Keeps
<1>5. Serial(seat') /\ seat'.open = {seat'.n}
  BY <1>1, <1>2, OpenIsSerial, External
<1>6. seat'.n \in Nat
  BY <1>4, SeatFields DEF Sound
<1> QED BY <1>2, <1>3, <1>4, <1>5, <1>6, InvFacts, ConsistentIsInv DEF Consistent, Tabs

(* The driver ends a turn: the Run it names, or whatever is open. *)
LEMMA EndRunKeepsInv ==
  ASSUME Inv, NEW r \in turns, EndRun(r)
  PROVE  Inv'
<1> DEFINE q == AttributeTo(seat, r)
<1>1. /\ seat' = Settle(seat, q) /\ turns' = turns \ {r}
      /\ UNCHANGED <<tab, batch, restarts>>
  BY DEF EndRun
<1>2. q = r \/ q = seat.cur
  BY DEF AttributeTo
<1>3. r \in seat.open => q = r /\ r = seat.cur
  BY InvFacts DEF AttributeTo, Serial
<1> HIDE DEF q
<1>4. Sound(seat') /\ seat'.up = seat.up
  BY <1>1, InvFacts, SettleIsSound DEF Keeps
<1>5. Serial(seat')
  BY <1>1, InvFacts, SettleIsSerial, External
<1>6. seat'.open \subseteq seat.open \ {r}
  <2>1. CASE q = seat.cur
    BY <2>1, <1>1, <1>5, InvFacts, SettleIsSerial, External DEF Serial
  <2>2. CASE q # seat.cur
    BY <2>2, <1>1, <1>2, <1>3, InvFacts, SettleIsSerial, External
  <2> QED BY <2>1, <2>2
<1> QED BY <1>1, <1>4, <1>5, <1>6, InvFacts, ConsistentIsInv DEF Consistent

(* A revived tab waits for its driver; its output brings it back; a driver told
   that its tab is gone gives up on what it collected. *)
LEMMA TabKeepsInv ==
  ASSUME Inv, Reattach \/ PushEvent \/ GiveUp
  PROVE  Inv'
<1>1. CASE Reattach
  BY <1>1, InvFacts, ConsistentIsInv DEF Reattach, Consistent, Tabs
<1>2. CASE PushEvent
  BY <1>2, InvFacts, AttachedFacts, ConsistentIsInv DEF PushEvent, Consistent, Tabs
<1>3. CASE GiveUp
  <2>1. batch' \in Seq(Nat)
    BY <1>3, InvFacts, RestTypes DEF GiveUp
  <2> QED BY <1>3, <2>1, InvFacts, ConsistentIsInv DEF GiveUp, Consistent
<1> QED BY <1>1, <1>2, <1>3

-----------------------------------------------------------------------------
(* A fresh tab is live, with nothing open. *)
LEMMA InvHoldsInitially == Init => Inv
<1> SUFFICES ASSUME Init PROVE Inv
  OBVIOUS
<1>1. Sound(seat) /\ Serial(seat) /\ seat.up = TRUE /\ seat.open = {}
  BY FreshSeatIsSound DEF Init, FreshSeat, Serial, NoRun
<1>2. batch \in Seq(Nat) /\ restarts \in Nat /\ turns \subseteq Nat /\ tab = "active"
  BY DEF Init
<1> QED BY <1>1, <1>2 DEF Inv, TypeOK, HeldBehindRun, OpenRunHasTurn, Tabs, Sound

(* Every handler keeps Inv. *)
LEMMA InvIsInductive == Inv /\ [Next]_vars => Inv'
<1> SUFFICES ASSUME Inv, [Next]_vars PROVE Inv'
  OBVIOUS
<1>1. CASE \E c \in Conversations : Wake(c)
  BY <1>1, WakeKeepsInv
<1>2. CASE Retire \/ Restart \/ Collect
  BY <1>2, RetireKeepsInv, RestartKeepsInv, CollectKeepsInv
<1>3. CASE \E collected \in BOOLEAN : OpenRun(collected)
  BY <1>3, OpenRunKeepsInv
<1>4. CASE \E r \in turns : EndRun(r)
  BY <1>4, EndRunKeepsInv
<1>5. CASE Reattach \/ PushEvent \/ GiveUp
  BY <1>5, TabKeepsInv
<1>6. CASE UNCHANGED vars
  <2>1. Consistent(seat', tab', turns') /\ batch' \in Seq(Nat) /\ restarts' \in Nat
    BY <1>6, InvFacts DEF vars
  <2> QED BY <2>1, ConsistentIsInv
<1> QED BY <1>1, <1>2, <1>3, <1>4, <1>5, <1>6 DEF Next

(* Inv is an invariant of the specification. *)
LEMMA InvHolds == Spec => []Inv
BY InvHoldsInitially, InvIsInductive, PTL DEF Spec

(* The seat, the roster's tab and the driver keep to their types and agree. *)
THEOREM ExternalTypeOK == Spec => []TypeOK
BY InvHolds, PTL DEF Inv

(* No wake is held for a tab with no Run open (admission.ts). *)
THEOREM ExternalHeldBehindRun == Spec => []HeldBehindRun
BY InvHolds, PTL DEF Inv

(* Runs are serial on this connector, however many turns a driver begins: the
   delivery of a released wake opens none (RunRegistry.open). *)
THEOREM ExternalOneOpenRun == Spec => []OneOpenRun
<1>1. Inv => OneOpenRun
  <2> SUFFICES ASSUME Inv PROVE OneOpenRun
    OBVIOUS
  <2>1. seat.open = {} \/ seat.open = {seat.cur}
    BY InvFacts DEF Serial
  <2>2. Cardinality({}) = 0 /\ Cardinality({seat.cur}) = 1
    BY FS_EmptySet, FS_Singleton
  <2> QED BY <2>1, <2>2 DEF OneOpenRun
<1> QED BY <1>1, InvHolds, PTL

(* No Run is left running whose turn its driver reported ended, however many turns
   overlap, whichever of them ends first, and through retires and restarts: an end
   that names a Run no longer open settles the one that is (attributeTo). *)
THEOREM ExternalOpenRunHasTurn == Spec => []OpenRunHasTurn
BY InvHolds, PTL DEF Inv

-----------------------------------------------------------------------------
(* Each handler is a step of WakeLedger, or leaves the ledger alone. *)

(* Letting held wakes go is the ledger's release. *)
LEMMA FreedIsReleased ==
  ASSUME seat \in Seats, Freed(seat.wakes, seat'.wakes)
  PROVE  [Ledger!Next]_(seat.wakes)
<1>1. PICK ids \in SUBSET Waiting(seat.wakes), f \in {"sent", "lost"} :
        seat'.wakes = Restamped(seat.wakes, ids, f)
  BY DEF Freed
<1>2. CASE ids = {}
  BY <1>1, <1>2, SeatFields, RestampedNone
<1>3. CASE ids # {}
  <2>1. Ledger!Released(ids, f)
    BY <1>1, <1>3 DEF Ledger!Released, Ledger!Stamped, Restamped
  <2>2. ids \in SUBSET Ledger!Held
    BY <1>1 DEF Ledger!Held, Waiting
  <2> QED BY <2>1, <2>2 DEF Ledger!Next
<1> QED BY <1>2, <1>3

(* A wake that is answered is put off, refused or handed over in the ledger. *)
LEMMA PostedIsAnswered ==
  ASSUME seat \in Seats, NEW c \in Conversations, Len(seat.wakes) < MaxWakes,
         Posted(seat.wakes, c, seat'.wakes)
  PROVE  Ledger!Next
<1> DEFINE mine == {i \in Waiting(seat.wakes) : seat.wakes[i].conv = c}
<1>1. mine = Ledger!Held \cap Ledger!Of(c) /\ Waiting(seat.wakes) = Ledger!Held
  BY DEF Ledger!Held, Ledger!Of, Waiting
<1>2. \A ids, f : Restamped(seat.wakes, ids, f) = Ledger!Stamped(ids, f)
  BY DEF Restamped, Ledger!Stamped
<1>3. \/ seat'.wakes = Append(Restamped(seat.wakes, mine, "merged"), [conv |-> c, fate |-> "held"])
      \/ seat'.wakes = Append(seat.wakes, [conv |-> c, fate |-> "refused"])
      \/ \E ids \in SUBSET Waiting(seat.wakes) :
           /\ mine \subseteq ids
           /\ seat'.wakes = Append(Restamped(seat.wakes, ids, "sent"),
                                   [conv |-> c, fate |-> "sent"])
  BY DEF Posted
<1> HIDE DEF mine
<1>4. \/ Ledger!PutOff(c) \/ Ledger!Refused(c)
      \/ \E ids \in SUBSET Ledger!Held : Ledger!HandedOver(c, ids)
  BY <1>1, <1>2, <1>3 DEF Ledger!PutOff, Ledger!Refused, Ledger!HandedOver
<1> QED BY <1>4 DEF Ledger!Next

(* A wake is admitted. *)
LEMMA WakeIsAnswered ==
  ASSUME Inv, Recorded(seat, 0), NEW c \in Conversations, Wake(c)
  PROVE  Recorded(seat', 0) /\ Ledger!Next
<1> DEFINE a == Arrive(seat, c)
<1>1. seat \in Seats /\ Sound(seat) /\ Len(seat.wakes) < MaxWakes
  BY InvFacts DEF Wake
<1>2. Refusal(a).seat = a
  BY DEF Refusal
<1>3. seat' = Admit(a, c, Len(a.wakes), Refusal(a))
  BY DEF Wake
<1>4. Recorded(seat', 0) /\ Posted(seat.wakes, c, seat'.wakes)
  <2>1. Len(a.wakes) = Len(seat.wakes) + 1
    BY <1>1, ArriveRecorded
  <2> QED BY <1>1, <1>2, <1>3, <2>1, AdmitPosts
<1> QED BY <1>1, <1>4, PostedIsAnswered

(* The tab is live, live again or gone, with its queue or without: no matter of
   the wakes. *)
LEMMA TabFields ==
  ASSUME NEW a \in Seats, Sound(a), Recorded(a, 0), NEW p \in BOOLEAN, NEW w \in Seq(Nat)
  PROVE  LET b == [a EXCEPT !.up = p, !.wire = w]
         IN  b \in Seats /\ Sound(b) /\ Recorded(b, 0) /\ b.held = a.held /\ b.wakes = a.wakes
<1> DEFINE u == [a EXCEPT !.up = p]
           b == [a EXCEPT !.up = p, !.wire = w]
<1>1. Sound(u) /\ u \in Seats
  BY UpField DEF Sound
<1>2. b = [u EXCEPT !.wire = w] /\ b.held = a.held /\ b.wakes = a.wakes
  BY DEF Seats
<1> HIDE DEF u
<1>3. Sound(b)
  BY <1>1, <1>2, WireField
<1> QED BY <1>2, <1>3, RecordedSame DEF Sound

(* The tab goes, and its Run is settled. *)
LEMMA RetireFollows ==
  ASSUME Inv, Recorded(seat, 0), Retire
  PROVE  Follows(seat, seat')
<1> DEFINE b == [seat EXCEPT !.up = FALSE, !.wire = <<>>]
<1>1. <<>> \in Seq(Nat)
  OBVIOUS
<1>2. b \in Seats /\ Sound(b) /\ Recorded(b, 0) /\ b.wakes = seat.wakes
  BY <1>1, InvFacts, TabFields
<1>3. seat' = SettleOpenFor(b)
  BY DEF Retire
<1> HIDE DEF b
<1>4. Follows(b, seat')
  BY <1>2, <1>3, OpenForFollows
<1> QED BY <1>2, <1>4, FollowsFrom

(* A turn's Run is opened, on a tab that is live again. *)
LEMMA OpenRunFollows ==
  ASSUME Inv, Recorded(seat, 0), NEW collected \in BOOLEAN, OpenRun(collected)
  PROVE  Follows(seat, seat')
<1> DEFINE b == Attached(seat)
<1>1. b \in Seats /\ Sound(b)
  BY AttachedFacts
<1>2. b.held = seat.held /\ b.wakes = seat.wakes /\ Recorded(b, 0)
  BY InvFacts, RecordedSame DEF Attached, Seats
<1>3. seat' = Open(b)
  BY DEF OpenRun
<1> HIDE DEF b
<1>4. Follows(b, seat')
  BY <1>1, <1>2, <1>3, OpenForFollows
<1> QED BY <1>2, <1>4, FollowsFrom

(* A restart drops what was held back. *)
LEMMA RestartFollows ==
  ASSUME Inv, Recorded(seat, 0), Restart
  PROVE  Follows(seat, seat')
<1> DEFINE s == Stamp(seat, HeldIds(seat), "lost")
<1>1. s \in Seats /\ seat \in Seats
  BY InvFacts, StampIsSound DEF Fates
<1>2. seat' = [s EXCEPT !.cur = NoRun, !.open = {}, !.held = <<>>, !.up = FALSE,
                        !.wire = <<>>, !.riding = FALSE]
  BY DEF Restart
<1>3. seat' \in Seats
  BY RestartKeepsInv DEF Inv, TypeOK
<1> HIDE DEF s
<1>4. seat'.held = <<>> /\ seat'.wakes = s.wakes
  BY <1>1, <1>2 DEF Seats
<1> QED BY <1>1, <1>3, <1>4, LostFollows DEF s

(* The other requests touch no wake, but an ended turn settles its Run. *)
LEMMA DriverFollows ==
  ASSUME Inv, Recorded(seat, 0),
         \/ Reattach \/ Collect \/ PushEvent \/ GiveUp \/ UNCHANGED vars
         \/ \E r \in turns : EndRun(r)
  PROVE  Follows(seat, seat')
<1>1. CASE \E r \in turns : EndRun(r)
  BY <1>1, InvFacts, SettleFollows DEF EndRun
<1>2. CASE Reattach \/ Collect \/ PushEvent \/ GiveUp \/ UNCHANGED vars
  <2>1. seat'.held = seat.held /\ seat'.wakes = seat.wakes
    BY <1>2, InvFacts DEF Reattach, Collect, PushEvent, GiveUp, Attached, Seats, vars
  <2> QED BY <2>1, InvFacts, SameFollows
<1> QED BY <1>1, <1>2

(* Each handler keeps the seat on record, and is a step of the ledger or none. *)
LEMMA EveryStepIsTheLedgers ==
  Inv /\ Recorded(seat, 0) /\ [Next]_vars => Recorded(seat, 0)' /\ [Ledger!Next]_(seat.wakes)
<1> SUFFICES ASSUME Inv, Recorded(seat, 0), [Next]_vars
             PROVE  Recorded(seat', 0) /\ [Ledger!Next]_(seat.wakes)
  BY DEF Recorded, HeldIds
<1>1. CASE \E c \in Conversations : Wake(c)
  BY <1>1, WakeIsAnswered
<1>2. CASE ~\E c \in Conversations : Wake(c)
  <2>1. Follows(seat, seat')
    BY <1>2, RetireFollows, OpenRunFollows, RestartFollows, DriverFollows DEF Next
  <2> QED BY <2>1, InvFacts, FreedIsReleased DEF Follows
<1> QED BY <1>1, <1>2

(* However a driver collects, begins and ends its turns, and through a restart
   of the server, the senders of a tab's wakes get what AdmissionEngine promises
   (WakeLedger). *)
THEOREM ExternalRefinesLedger == Spec => RefinesLedger
<1>1. Init => Recorded(seat, 0) /\ Ledger!Init
  BY FreshSeatIsRecorded DEF Init, Ledger!Init, FreshSeat
<1> QED
  BY <1>1, EveryStepIsTheLedgers, InvHolds, PTL DEF Spec, RefinesLedger, Ledger!Spec

-----------------------------------------------------------------------------
(* What the ledger promises, of this seat. *)
Promise == INSTANCE WakeLedger_proofs WITH wakes <- seat.wakes

(* So what is proved of the ledger is true of a tab driven from outside: of the wakes of a
   Conversation at most one waits, it is the latest, and none newer was handed
   over (admission.ts: hold, release). *)
THEOREM ExternalKeepsItsPromise ==
  Spec => [](Ledger!OneHeldEach /\ Ledger!LatestIsKept /\ Ledger!NoOvertaking)
<1>1. Promise!Spec => [](Promise!OneHeldEach /\ Promise!LatestIsKept /\ Promise!NoOvertaking)
  <2>1. Promise!LedgerAssumption
    BY ExternalAssumption DEF Promise!LedgerAssumption
  <2> QED
    BY <2>1, Promise!LedgerOneHeldEach, Promise!LedgerLatestIsKept,
       Promise!LedgerNoOvertaking, PTL
<1>2. Ledger!Init <=> Promise!Init
  BY DEF Ledger!Init, Promise!Init
<1>3. [Ledger!Next]_(seat.wakes) <=> [Promise!Next]_(seat.wakes)
  BY DEF Ledger!Next, Promise!Next, Ledger!Released, Promise!Released, Ledger!PutOff,
         Promise!PutOff, Ledger!Refused, Promise!Refused, Ledger!HandedOver,
         Promise!HandedOver, Ledger!Stamped, Promise!Stamped, Ledger!Held, Promise!Held,
         Ledger!Of, Promise!Of
<1>4. (Promise!OneHeldEach <=> Ledger!OneHeldEach)
      /\ (Promise!LatestIsKept <=> Ledger!LatestIsKept)
      /\ (Promise!NoOvertaking <=> Ledger!NoOvertaking)
  BY DEF Promise!OneHeldEach, Ledger!OneHeldEach, Promise!LatestIsKept, Ledger!LatestIsKept,
         Promise!NoOvertaking, Ledger!NoOvertaking, Ledger!Held, Promise!Held
<1> QED
  BY <1>1, <1>2, <1>3, <1>4, ExternalRefinesLedger, PTL
     DEF RefinesLedger, Ledger!Spec, Promise!Spec
=============================================================================
