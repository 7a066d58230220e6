---------------------------- MODULE PeerRuns_proofs --------------------------
(***************************************************************************)
(* Every open Run of an attached peer has the turn that will settle it,    *)
(* no turn ends the Run of another, and no wake is held behind no Run: for *)
(* any policies and any number of overlapping turns.                       *)
(* The inductive invariant adds to these that the registry's indexes agree *)
(* (Serial) and that a wake which is still held has started no turn        *)
(* (Ready): a release must not start over the turn that streams.           *)
(* It implements WakeLedger: with the wakes held back those on record as   *)
(* waiting (Recorded, inductive beside Inv), each handler is a step of the *)
(* ledger or none, and what is proved of the ledger is true of the seat.   *)
(***************************************************************************)
EXTENDS PeerRuns, RunEngine_proofs, FiniteSetTheorems

TurnsType(ts) == ts \in [1 .. MaxWakes -> Turns]

\* The turns are of wakes that were recorded, and not of held ones or those of I.
Ready(a, ts, I) ==
  /\ HeldIds(a) \cup I \subseteq DOMAIN a.wakes
  /\ \A w \in DOMAIN ts :
       ts[w].stage # "none" => w \in DOMAIN a.wakes /\ w \notin HeldIds(a) \cup I

Watched(a, ts) ==
  \A r \in a.open : \E w \in DOMAIN ts : ts[w].stage = "streaming" /\ ts[w].run = r

\* What every handler leaves of the seat and its turns.
Consistent(a, ts) ==
  /\ Sound(a) /\ Serial(a) /\ a.wire = <<>> /\ TurnsType(ts)
  /\ Ready(a, ts, {}) /\ Watched(a, ts)

Inv == Consistent(seat, turns) /\ TypeOK

(* The connector opens late. *)
LEMMA Peer == OpensLate
BY PeerAssumption DEF OpensLate

(* The parts of Inv a handler must re-establish. *)
LEMMA ConsistentIsInv ==
  ASSUME Consistent(seat', turns'), tab' \in TabsOf, restarts' \in Nat,
         seat'.up <=> tab'.listed
  PROVE  Inv'
BY DEF Inv, TypeOK, Consistent, Sound, TurnsType

(* Inv, as facts for the provers. *)
LEMMA InvFacts ==
  ASSUME Inv
  PROVE  /\ Consistent(seat, turns) /\ seat \in Seats /\ Sound(seat) /\ Serial(seat)
         /\ seat.wire = <<>> /\ Ready(seat, turns, {}) /\ Watched(seat, turns)
         /\ tab \in TabsOf /\ restarts \in Nat /\ (seat.up <=> tab.listed)
         /\ turns \in [1 .. MaxWakes -> Turns] /\ DOMAIN turns = 1 .. MaxWakes
BY DEF Inv, TypeOK, Consistent, Sound, TurnsType

-----------------------------------------------------------------------------
(* What a handler hands over *)

Wired(a) == {a.wire[i] : i \in DOMAIN a.wire}

\* From a to b only held wakes and those of I were handed over, and what was
\* handed over is no longer held.
Hands(a, b, I) ==
  /\ HeldIds(b) \subseteq HeldIds(a) \cup I
  /\ Wired(b) \subseteq Wired(a) \cup HeldIds(a) \cup I
  /\ (Wired(b) \ Wired(a)) \cap HeldIds(b) = {}
  /\ SameHistory(a, b)

(* Two steps of a handler, one after the other. *)
LEMMA HandsOnce ==
  ASSUME NEW a, NEW s, NEW b, NEW I, Hands(a, s, {}), Hands(s, b, I),
         I \cap HeldIds(a) = {}
  PROVE  Hands(a, b, I)
BY DEF Hands, SameHistory

(* A step that leaves the list and the wire alone. *)
LEMMA HandsNothing ==
  ASSUME NEW a, NEW b, b.held = a.held, b.wire = a.wire, SameHistory(a, b), NEW I
  PROVE  Hands(a, b, I)
BY DEF Hands, HeldIds, Wired

(* Stamping hands nothing over. *)
LEMMA StampHands ==
  ASSUME NEW a \in Seats, NEW ids, NEW f \in Fates, NEW I
  PROVE  Hands(a, Stamp(a, ids, f), I)
BY StampIsSound, StampSameHistory, HandsNothing

(* A wire that grows by a sequence of ids. *)
LEMMA WireOf ==
  ASSUME NEW s \in Seq(Nat), NEW t \in Seq(Nat)
  PROVE  {(s \o t)[i] : i \in DOMAIN (s \o t)} \subseteq
           {s[i] : i \in DOMAIN s} \cup {t[i] : i \in DOMAIN t}
<1>1. \A i \in DOMAIN (s \o t) :
        \/ i \in DOMAIN s /\ (s \o t)[i] = s[i]
        \/ (i - Len(s)) \in DOMAIN t /\ (s \o t)[i] = t[i - Len(s)]
  OBVIOUS
<1> QED BY <1>1

(* A wire that grows by one id. *)
LEMMA WireAnd ==
  ASSUME NEW s \in Seq(Nat), NEW x \in Nat
  PROVE  {Append(s, x)[i] : i \in DOMAIN Append(s, x)} \subseteq {s[i] : i \in DOMAIN s} \cup {x}
<1>1. \A i \in DOMAIN Append(s, x) :
        \/ i \in DOMAIN s /\ Append(s, x)[i] = s[i]
        \/ Append(s, x)[i] = x
  OBVIOUS
<1> QED BY <1>1

(* A release hands over what was held, and all of it. *)
LEMMA FireHeldHands ==
  ASSUME NEW a \in Seats, OpensLate
  PROVE  Hands(a, FireHeld(a), {})
<1> DEFINE ids  == HeldIds(a)
           all  == [a EXCEPT !.held = <<>>]
           more == [i \in DOMAIN a.held |-> a.held[i].id]
<1>0. <<>> \in Seq(Entries) /\ DOMAIN <<>> = {}
  OBVIOUS
<1>a. /\ all \in Seats /\ all.held = <<>> /\ all.wire = a.wire
      /\ SameHistory(a, all)
  BY <1>0 DEF Seats, Entries, SameHistory
<1>1. CASE a.held = <<>>
  BY <1>1, HandsNothing DEF FireHeld, SameHistory
<1>2. CASE a.held # <<>> /\ ~a.up
  <2>1. FireHeld(a) = Stamp(all, ids, "lost")
    BY <1>2 DEF FireHeld
  <2> HIDE DEF ids, all
  <2>2. FireHeld(a).held = <<>> /\ FireHeld(a).wire = a.wire /\ SameHistory(a, FireHeld(a))
    BY <2>1, <1>a, StampIsSound, StampSameHistory DEF Fates, SameHistory
  <2> QED BY <2>2, <1>0 DEF Hands, HeldIds, Wired
<1>3. CASE a.held # <<>> /\ a.up
  <2> DEFINE out == [all EXCEPT !.wire = @ \o more]
  <2>1. FireHeld(a) = Stamp(out, ids, "sent")
    BY <1>3 DEF FireHeld
  <2>2. more \in Seq(Nat) /\ a.wire \in Seq(Nat)
    BY HeldTypes, SeatFields
  <2>3. {more[i] : i \in DOMAIN more} = ids
    BY DEF HeldIds
  <2>4. (a.wire \o more) \in Seq(Nat)
    BY <2>2
  <2> HIDE DEF more, ids
  <2>5. /\ out \in Seats /\ out.held = <<>> /\ out.wire = a.wire \o more
        /\ SameHistory(a, out)
    BY <1>a, <2>4 DEF Seats, SameHistory
  <2> HIDE DEF out
  <2>6. /\ FireHeld(a).held = <<>> /\ FireHeld(a).wire = a.wire \o more
        /\ SameHistory(a, FireHeld(a))
    BY <2>1, <2>5, StampIsSound, StampSameHistory DEF Fates, SameHistory
  <2>7. Wired(FireHeld(a)) \subseteq Wired(a) \cup ids
    BY <2>2, <2>3, <2>6, WireOf DEF Wired
  <2>8. HeldIds(FireHeld(a)) = {}
    BY <2>6, <1>0 DEF HeldIds
  <2> QED BY <2>6, <2>7, <2>8 DEF Hands, ids
<1> QED BY <1>1, <1>2, <1>3

(* So does settling a Run. *)
LEMMA SettleHands ==
  ASSUME NEW a \in Seats, Sound(a), OpensLate, NEW r
  PROVE  Hands(a, Settle(a, r), {})
<1> DEFINE f == Forget(a, r)
           b == Release(f)
<1>1. CASE r \notin a.open
  BY <1>1, HandsNothing DEF Settle, SameHistory
<1>2. CASE r \in a.open
  <2>1. /\ f \in Seats /\ Indexed(f) /\ f.held = a.held /\ f.wire = a.wire
        /\ SameHistory(a, f)
    BY SeatFields DEF Forget, Seats, Sound, Indexed, NoRun, SameHistory
  <2>2. Settle(a, r) = EndChain(b)
    BY <1>2 DEF Settle
  <2>3. Hands(a, f, {})
    BY <2>1, HandsNothing
  <2> HIDE DEF f
  <2>4. Hands(f, b, {}) /\ b \in Seats
    BY <2>1, FireHeldHands, FireHeldIsSound, HandsNothing DEF Release, Sound, SameHistory
  <2> HIDE DEF b
  <2>5. Hands(b, EndChain(b), {})
    <3>1. /\ EndChain(b).held = b.held /\ EndChain(b).wire = b.wire
          /\ SameHistory(b, EndChain(b))
      BY <2>4 DEF EndChain, Seats, SameHistory
    <3> QED BY <3>1, HandsNothing
  <2>6. Hands(a, b, {})
    BY <2>3, <2>4, HandsOnce
  <2> QED BY <2>2, <2>5, <2>6, HandsOnce
<1> QED BY <1>1, <1>2

(* And settling the current Run. *)
LEMMA SettleOpenForHands ==
  ASSUME NEW a \in Seats, Sound(a), OpensLate
  PROVE  Hands(a, SettleOpenFor(a), {})
BY SettleHands, HandsNothing DEF SettleOpenFor, SameHistory

(* Opening a Run hands over what was held behind the one before. *)
LEMMA OpenHands ==
  ASSUME NEW a \in Seats, Sound(a), OpensLate
  PROVE  Hands(a, Open(a), {})
<1> DEFINE b == SettleOpenFor(a)
<1>1. b \in Seats /\ Hands(a, b, {}) /\ Open(a) = Register(b)
  BY SettleOpenForIsSound, SettleOpenForHands DEF Sound, Open
<1> HIDE DEF b
<1>2. Hands(b, Register(b), {})
  <2>1. Register(b).held = b.held /\ Register(b).wire = b.wire /\ SameHistory(b, Register(b))
    BY <1>1 DEF Register, Seats, SameHistory
  <2> QED BY <2>1, HandsNothing
<1> QED BY <1>1, <1>2, HandsOnce

(* A delivery hands over its wake. *)
LEMMA DeliverHands ==
  ASSUME NEW a \in Seats, OpensLate, NEW id \in Nat, id \notin HeldIds(a)
  PROVE  Hands(a, Deliver(a, id), {id})
<1>1. CASE ~a.up
  <2>1. Deliver(a, id) = Stamp(a, {id}, "refused")
    BY <1>1 DEF Deliver
  <2> QED BY <2>1, StampHands DEF Fates
<1>2. CASE a.up
  <2> DEFINE out == [a EXCEPT !.wire = Append(@, id)]
  <2>1. Deliver(a, id) = Stamp(out, {id}, "sent")
    BY <1>2 DEF Deliver
  <2>2. Append(a.wire, id) \in Seq(Nat) /\ a.wire \in Seq(Nat)
    BY SeatFields
  <2>3. /\ out \in Seats /\ out.held = a.held /\ out.wire = Append(a.wire, id)
        /\ SameHistory(a, out)
    BY <2>2 DEF Seats, SameHistory
  <2> HIDE DEF out
  <2>4. /\ Deliver(a, id).held = a.held /\ Deliver(a, id).wire = Append(a.wire, id)
        /\ SameHistory(a, Deliver(a, id))
    BY <2>1, <2>3, StampIsSound, StampSameHistory DEF Fates, SameHistory
  <2>5. HeldIds(Deliver(a, id)) = HeldIds(a)
    BY <2>4 DEF HeldIds
  <2>6. Wired(Deliver(a, id)) \subseteq Wired(a) \cup {id}
    BY <2>2, <2>4, WireAnd DEF Wired
  <2> QED BY <2>4, <2>5, <2>6 DEF Hands
<1> QED BY <1>1, <1>2

(* A wake that is held takes a place in the list, or one of its Conversation's. *)
LEMMA HoldHands ==
  ASSUME NEW a \in Seats, NEW c \in Conversations, NEW id \in Nat
  PROVE  Hands(a, Hold(a, c, id), {id})
<1> DEFINE slots == {i \in DOMAIN a.held : a.held[i].conv = c}
           mine  == [conv |-> c, id |-> id]
           more  == [a EXCEPT !.held = Append(@, mine)]
           same  == [i \in DOMAIN a.held |-> IF i \in slots THEN mine ELSE a.held[i]]
           put   == [a EXCEPT !.held = same]
           gone  == {a.held[i].id : i \in slots}
<1>1. mine \in Entries /\ mine.id = id /\ a.held \in Seq(Entries)
  BY HeldTypes DEF Entries
<1>2. Append(a.held, mine) \in Seq(Entries) /\ same \in Seq(Entries)
  <2> HIDE DEF mine, slots
  <2> QED BY <1>1
<1>3. Hold(a, c, id) = IF slots = {} THEN more ELSE Stamp(put, gone, "merged")
  BY DEF Hold
<1>4. /\ more \in Seats /\ more.held = Append(a.held, mine) /\ more.wire = a.wire
      /\ put \in Seats /\ put.held = same /\ put.wire = a.wire
      /\ SameHistory(a, more) /\ SameHistory(a, put)
  BY <1>2 DEF Seats, Entries, SameHistory
<1>5. \A i \in DOMAIN same : same[i].id = id \/ (i \in DOMAIN a.held /\ same[i] = a.held[i])
  BY <1>1
<1>6. \A i \in DOMAIN Append(a.held, mine) :
        \/ Append(a.held, mine)[i] = mine
        \/ i \in DOMAIN a.held /\ Append(a.held, mine)[i] = a.held[i]
  BY <1>1
<1> HIDE DEF slots, mine, more, same, put, gone
<1>7. HeldIds(more) \subseteq HeldIds(a) \cup {id}
  BY <1>1, <1>4, <1>6 DEF HeldIds
<1>8. HeldIds(put) \subseteq HeldIds(a) \cup {id}
  BY <1>4, <1>5 DEF HeldIds
<1>9. Hands(a, more, {id}) /\ Hands(a, put, {id})
  BY <1>4, <1>7, <1>8 DEF Hands, Wired
<1>10. /\ Stamp(put, gone, "merged").held = put.held
       /\ Stamp(put, gone, "merged").wire = put.wire
       /\ SameHistory(put, Stamp(put, gone, "merged"))
  BY <1>4, StampIsSound, StampSameHistory DEF Fates
<1>11. Hands(a, Stamp(put, gone, "merged"), {id})
  BY <1>9, <1>10 DEF Hands, HeldIds, Wired, SameHistory
<1> QED BY <1>3, <1>9, <1>11

(* An admission hands over its wake, or what a preempt released. *)
LEMMA AdmitHands ==
  ASSUME NEW a \in Seats, OpensLate, NEW c \in Conversations, NEW id \in Nat,
         id \notin HeldIds(a),
         NEW cancel, cancel.seat \in Seats, Hands(a, cancel.seat, {})
  PROVE  Hands(a, Admit(a, c, id, cancel), {id})
<1>1. Hands(a, Deliver(a, id), {id}) /\ Hands(a, Hold(a, c, id), {id})
  BY DeliverHands, HoldHands
<1>2. Hands(a, Stamp(a, {id}, "refused"), {id})
  BY StampHands DEF Fates
<1>3. id \notin HeldIds(cancel.seat) /\ {id} \cap HeldIds(a) = {}
  BY DEF Hands
<1>4. /\ Hands(cancel.seat, Deliver(cancel.seat, id), {id})
      /\ Hands(cancel.seat, Hold(cancel.seat, c, id), {id})
  BY <1>3, DeliverHands, HoldHands
<1>5. /\ Hands(a, Deliver(cancel.seat, id), {id})
      /\ Hands(a, Hold(cancel.seat, c, id), {id})
  BY <1>3, <1>4, HandsOnce
<1> QED BY <1>1, <1>2, <1>5 DEF Admit, Preempt

-----------------------------------------------------------------------------
(* What a handler leaves *)

(* Turns that were going on are kept by what a handler hands over, and the Run
   of one that streams stays its own. *)
LEMMA AfterIsConsistent ==
  ASSUME tab \in TabsOf, NEW a, a.wire = <<>>,
         NEW b, Sound(b), Serial(b), NEW I, Hands(a, b, I),
         NEW ts, TurnsType(ts), Ready(a, ts, I), Watched(b, ts), After(b, ts)
  PROVE  /\ Consistent(seat', turns')
         /\ seat'.up = b.up /\ seat'.open = b.open /\ seat'.n = b.n
<1> DEFINE new == {b.wire[i] : i \in DOMAIN b.wire}
           one == [NoTurn EXCEPT !.stage = IF tab.peer THEN "called" ELSE "dialing"]
<1>1. /\ seat' = [b EXCEPT !.wire = <<>>]
      /\ turns' = [w \in DOMAIN ts |-> IF w \in new THEN one ELSE ts[w]]
  BY DEF After
<1>2. new = Wired(b) /\ Wired(a) = {}
  <2>1. DOMAIN <<>> = {}
    OBVIOUS
  <2> QED BY <2>1 DEF Wired
<1>3. one \in Turns
  BY DEF NoTurn, Turns, Stages, NoRun, None
<1>4. b \in Seats /\ <<>> \in Seq(Nat)
  BY DEF Sound
<1>5. /\ Sound(seat') /\ seat'.wire = <<>> /\ seat'.up = b.up /\ seat'.cur = b.cur
      /\ seat'.open = b.open /\ seat'.n = b.n
  BY <1>1, <1>4, WireField
<1>6. seat'.held = b.held /\ seat'.wakes = b.wakes
  BY <1>1, <1>4 DEF Seats
<1> HIDE DEF new, one
<1>7. Serial(seat') /\ HeldIds(seat') = HeldIds(b)
  BY <1>5, <1>6 DEF Serial, HeldIds
<1>8. TurnsType(turns') /\ DOMAIN turns' = DOMAIN ts
  BY <1>1, <1>3 DEF TurnsType
<1>9. new \subseteq HeldIds(a) \cup I /\ new \cap HeldIds(b) = {}
  BY <1>2 DEF Hands
<1>10. DOMAIN b.wakes = DOMAIN a.wakes /\ HeldIds(b) \subseteq HeldIds(a) \cup I
  BY DEF Hands, SameHistory
<1>11. Ready(seat', turns', {})
  BY <1>1, <1>6, <1>7, <1>8, <1>9, <1>10 DEF Ready
<1>12. Watched(seat', turns')
  <2> SUFFICES ASSUME NEW r \in b.open
               PROVE  \E w \in DOMAIN ts : turns'[w].stage = "streaming" /\ turns'[w].run = r
    BY <1>5, <1>8 DEF Watched
  <2>1. PICK w \in DOMAIN ts : ts[w].stage = "streaming" /\ ts[w].run = r
    BY DEF Watched
  <2>2. w \notin new
    BY <2>1, <1>9 DEF Ready
  <2> QED BY <2>1, <2>2, <1>1
<1> QED BY <1>5, <1>7, <1>8, <1>11, <1>12 DEF Consistent

(* Turns of which none is new, and whose streams go on under their Runs. *)
LEMMA TurnsGoOn ==
  ASSUME NEW a, NEW ts, NEW us, DOMAIN us = DOMAIN ts,
         \A w \in DOMAIN ts : us[w].stage # "none" => ts[w].stage # "none"
  PROVE  /\ \A I : Ready(a, ts, I) => Ready(a, us, I)
         /\ (\A w \in DOMAIN ts : ts[w].stage = "streaming" =>
               us[w].stage = "streaming" /\ us[w].run = ts[w].run)
            => (Watched(a, ts) => Watched(a, us))
BY DEF Ready, Watched

(* A stream that is told to stop goes on until it throws. *)
LEMMA StoppedGoesOn ==
  ASSUME Inv
  PROVE  /\ TurnsType(Stopped(turns)) /\ DOMAIN Stopped(turns) = DOMAIN turns
         /\ \A w \in DOMAIN turns : /\ Stopped(turns)[w].stage = turns[w].stage
                                    /\ Stopped(turns)[w].run = turns[w].run
<1>1. \A t \in Turns : /\ [t EXCEPT !.cut = TRUE] \in Turns
                        /\ [t EXCEPT !.cut = TRUE].stage = t.stage
                        /\ [t EXCEPT !.cut = TRUE].run = t.run
  BY DEF Turns
<1> QED BY <1>1, InvFacts DEF Stopped, TurnsType

(* What a tab may be left as. *)
LEMMA TabTypes ==
  ASSUME NEW t \in TabsOf
  PROVE  /\ LetGo(t) \in TabsOf /\ LetGo(t).listed = t.listed
         /\ Detached(t) \in TabsOf /\ Detached(t).listed = t.listed
         /\ \A w \in Nat : /\ [t EXCEPT !.abort = w] \in TabsOf
                            /\ [t EXCEPT !.abort = w].listed = t.listed
                            /\ [t EXCEPT !.task = w] \in TabsOf
                            /\ [t EXCEPT !.task = w].listed = t.listed
         /\ \A p \in BOOLEAN : /\ [t EXCEPT !.peer = p] \in TabsOf
                                /\ [t EXCEPT !.peer = p].listed = t.listed
BY DEF TabsOf, LetGo, Detached, None

-----------------------------------------------------------------------------
(* The handlers *)

(* A cancel that is taken settles the Run and hands over what waited. *)
LEMMA CancelFacts ==
  ASSUME NEW a \in Seats, Sound(a), Serial(a)
  PROVE  /\ CancelOf(a).seat \in Seats /\ Sound(CancelOf(a).seat)
         /\ Serial(CancelOf(a).seat) /\ CancelOf(a).seat.n = a.n
         /\ Keeps(a, CancelOf(a).seat) /\ Hands(a, CancelOf(a).seat, {})
         /\ CancelOf(a).seat.open \subseteq a.open
<1> DEFINE s == SettleOpenFor(a)
<1>1. /\ Sound(s) /\ s \in Seats /\ Keeps(a, s) /\ Serial(s) /\ s.n = a.n
      /\ Hands(a, s, {}) /\ s.open = {}
  BY Peer, SettleOpenForIsSound, SettleOpenForIsSerial, SettleOpenForHands DEF Sound
<1>2. Keeps(a, a) /\ Hands(a, a, {})
  BY HandsNothing DEF Keeps, SameHistory
<1>3. CancelOf(a).seat = s \/ CancelOf(a).seat = a
  BY DEF CancelOf
<1> HIDE DEF s
<1> QED BY <1>1, <1>2, <1>3

(* A wake that arrives is newer than every wake held and every turn begun. *)
LEMMA ArrivedFacts ==
  ASSUME Inv, NEW c \in Conversations
  PROVE  LET a == Arrive(seat, c)
         IN  /\ Sound(a) /\ a \in Seats /\ Serial(a) /\ a.up = seat.up /\ a.wire = <<>>
             /\ a.open = seat.open /\ Len(a.wakes) \in Nat
             /\ Len(a.wakes) \notin HeldIds(a)
             /\ \A ts : Ready(seat, ts, {}) => Ready(a, ts, {Len(a.wakes)})
<1> DEFINE a  == Arrive(seat, c)
           ws == Append(seat.wakes, [conv |-> c, fate |-> "held"])
<1>1. Sound(a) /\ a \in Seats /\ a.up = seat.up /\ Len(a.wakes) \in Nat
  BY InvFacts, ArriveIsSound DEF Sound
<1>2. /\ a.wire = seat.wire /\ a.held = seat.held /\ a.wakes = ws /\ SameRuns(seat, a)
  BY InvFacts DEF Arrive, SameRuns, Seats
<1>3. seat.wakes \in Seq(Wakes) /\ Len(seat.wakes) \in Nat
  BY InvFacts, SeatFields
<1>4. /\ Len(ws) = Len(seat.wakes) + 1 /\ DOMAIN ws = 1 .. Len(ws)
      /\ DOMAIN seat.wakes = 1 .. Len(seat.wakes)
  BY <1>3
<1> HIDE DEF ws, a
<1>5. /\ DOMAIN seat.wakes \subseteq DOMAIN a.wakes /\ Len(a.wakes) \in DOMAIN a.wakes
      /\ Len(a.wakes) \notin DOMAIN seat.wakes
  BY <1>2, <1>3, <1>4
<1>6. HeldIds(a) = HeldIds(seat) /\ HeldIds(seat) \subseteq DOMAIN seat.wakes
  BY <1>2, InvFacts DEF HeldIds, Ready
<1>7. \A ts : Ready(seat, ts, {}) => Ready(a, ts, {Len(a.wakes)})
  BY <1>5, <1>6 DEF Ready
<1>8. Serial(a) /\ a.open = seat.open /\ a.wire = <<>>
  BY <1>2, InvFacts DEF SameRuns, Serial
<1> QED BY <1>1, <1>5, <1>6, <1>7, <1>8 DEF a

(* A wake is admitted; a preempt may have stopped the stream before it. *)
LEMMA WakeKeepsInv ==
  ASSUME Inv, NEW c \in Conversations, Wake(c)
  PROVE  Inv'
<1> DEFINE a  == Arrive(seat, c)
           id == Len(a.wakes)
           b  == Admit(a, c, id, CancelOf(a))
<1>1. /\ Sound(a) /\ a \in Seats /\ Serial(a) /\ a.up = seat.up /\ a.wire = <<>>
      /\ a.open = seat.open /\ id \in Nat /\ id \notin HeldIds(a)
      /\ \A ts : Ready(seat, ts, {}) => Ready(a, ts, {id})
  BY ArrivedFacts
<1>2. PICK ts \in {turns, Stopped(turns)} :
        /\ After(b, ts) /\ restarts' = restarts
        /\ tab' = tab \/ tab' = LetGo(tab)
  BY DEF Wake
<1>3. TurnsType(ts) /\ Ready(seat, ts, {}) /\ Watched(seat, ts)
  BY StoppedGoesOn, TurnsGoOn, InvFacts DEF TurnsType
<1> HIDE DEF a, id
<1>4. Sound(b) /\ b.up = seat.up
  BY <1>1, CancelFacts, AdmitIsSound DEF Keeps
<1>5. Serial(b) /\ b.open \subseteq seat.open
  BY <1>1, CancelFacts, AdmitIsSerial, Peer
<1>6. Hands(a, b, {id})
  BY <1>1, CancelFacts, AdmitHands, Peer
<1> HIDE DEF b
<1>7. Watched(b, ts)
  BY <1>3, <1>5 DEF Watched
<1>8. Consistent(seat', turns') /\ seat'.up = b.up
  BY <1>1, <1>2, <1>3, <1>4, <1>5, <1>6, <1>7, InvFacts, AfterIsConsistent
<1>9. tab' \in TabsOf /\ tab'.listed = tab.listed
  BY <1>2, InvFacts, TabTypes
<1> QED BY <1>2, <1>4, <1>8, <1>9, InvFacts, ConsistentIsInv

(* A cancel settles the Run and leaves the stopped stream to end. *)
LEMMA CancelKeepsInv ==
  ASSUME Inv, Cancel
  PROVE  Inv'
<1> DEFINE b == CancelOf(seat).seat
<1>1. /\ Sound(b) /\ Serial(b) /\ Hands(seat, b, {}) /\ b.up = seat.up
      /\ b.open \subseteq seat.open
  BY InvFacts, CancelFacts DEF Keeps
<1>2. /\ After(b, Stopped(turns)) /\ tab' = LetGo(tab) /\ restarts' = restarts
  BY DEF Cancel
<1>3. /\ TurnsType(Stopped(turns)) /\ Ready(seat, Stopped(turns), {})
      /\ Watched(seat, Stopped(turns))
  BY StoppedGoesOn, TurnsGoOn, InvFacts
<1> HIDE DEF b
<1>4. Watched(b, Stopped(turns))
  BY <1>1, <1>3 DEF Watched
<1>5. Consistent(seat', turns') /\ seat'.up = b.up
  BY <1>1, <1>2, <1>3, <1>4, InvFacts, AfterIsConsistent
<1> QED BY <1>1, <1>2, <1>5, InvFacts, TabTypes, ConsistentIsInv

(* A detach takes the far end away, then settles: nothing is left open. *)
LEMMA DetachKeepsInv ==
  ASSUME Inv, Detach
  PROVE  Inv'
<1> DEFINE d == [seat EXCEPT !.up = FALSE]
           b == SettleOpenFor(d)
<1>1. Sound(d) /\ d \in Seats /\ d.up = FALSE
  BY InvFacts, UpField DEF Sound
<1>2. /\ SameRuns(seat, d) /\ d.wire = <<>> /\ d.held = seat.held /\ d.wakes = seat.wakes
  BY InvFacts DEF SameRuns, Seats
<1>3. /\ After(b, Stopped(turns)) /\ restarts' = restarts
      /\ tab' = [LetGo(tab) EXCEPT !.listed = FALSE, !.status = "gone"]
  BY DEF Detach
<1> HIDE DEF d
<1>4. Serial(d) /\ Ready(d, Stopped(turns), {})
  <2>1. Ready(seat, Stopped(turns), {}) /\ HeldIds(d) = HeldIds(seat)
    BY <1>2, StoppedGoesOn, TurnsGoOn, InvFacts DEF HeldIds
  <2> QED BY <2>1, <1>2, InvFacts DEF SameRuns, Serial, Ready
<1>5. /\ Sound(b) /\ b.up = FALSE /\ Serial(b) /\ b.open = {} /\ Hands(d, b, {})
  BY <1>1, <1>4, Peer, SettleOpenForIsSound, SettleOpenForIsSerial, SettleOpenForHands
     DEF Keeps
<1> HIDE DEF b
<1>6. Consistent(seat', turns') /\ seat'.up = b.up
  BY <1>2, <1>3, <1>4, <1>5, InvFacts, StoppedGoesOn, AfterIsConsistent DEF Watched
<1>7. tab' \in TabsOf /\ tab'.listed = FALSE
  BY <1>3, InvFacts DEF TabsOf, LetGo, None
<1> QED BY <1>3, <1>5, <1>6, <1>7, InvFacts, ConsistentIsInv

(* A turn that reaches its client, or that does not, streamed nothing yet. *)
LEMMA DialledKeepsInv ==
  ASSUME Inv, NEW w \in DOMAIN turns, Dialled(w) \/ Unreachable(w)
  PROVE  Inv'
<1>1. /\ turns[w].stage = "dialing" /\ UNCHANGED <<seat, restarts>>
      /\ \/ turns' = [turns EXCEPT ![w].stage = "called"]
         \/ turns' = [turns EXCEPT ![w] = [NoTurn EXCEPT !.stage = "over"]]
  BY DEF Dialled, Unreachable, Over, In
<1>2. TurnsType(turns') /\ DOMAIN turns' = DOMAIN turns
  <2>1. /\ [NoTurn EXCEPT !.stage = "over"] \in Turns
        /\ \A t \in Turns : [t EXCEPT !.stage = "called"] \in Turns
    BY DEF Turns, Stages, NoTurn, NoRun, None
  <2> QED BY <1>1, <2>1, InvFacts DEF TurnsType
<1>3. \A v \in DOMAIN turns : turns'[v] = turns[v] \/ v = w
  BY <1>1, InvFacts
<1>4. Ready(seat, turns', {}) /\ Watched(seat, turns')
  BY <1>1, <1>2, <1>3, InvFacts, TurnsGoOn
<1>5. Consistent(seat', turns')
  BY <1>1, <1>2, <1>4, InvFacts DEF Consistent
<1>6. tab' \in TabsOf /\ tab'.listed = tab.listed
  <2>1. tab' = [tab EXCEPT !.peer = TRUE, !.status = "active"] \/ tab' = Detached(tab)
    BY DEF Dialled, Unreachable
  <2>2. /\ [tab EXCEPT !.peer = TRUE, !.status = "active"] \in TabsOf
        /\ [tab EXCEPT !.peer = TRUE, !.status = "active"].listed = tab.listed
    BY InvFacts DEF TabsOf
  <2>3. Detached(tab) \in TabsOf /\ Detached(tab).listed = tab.listed
    BY InvFacts, TabTypes
  <2> QED BY <2>1, <2>2, <2>3
<1> QED BY <1>1, <1>5, <1>6, InvFacts, ConsistentIsInv

(* A turn opens its Run, the only one then, and streams under it. *)
LEMMA OpenTurnKeepsInv ==
  ASSUME Inv, NEW w \in DOMAIN turns, OpenTurn(w)
  PROVE  Inv'
<1> DEFINE b  == Open(seat)
           ts == [turns EXCEPT ![w].stage = "streaming", ![w].task = tab.task, ![w].run = b.n]
<1>1. /\ turns[w].stage = "called" /\ After(b, ts) /\ restarts' = restarts
      /\ tab' = [tab EXCEPT !.abort = w]
  BY DEF OpenTurn, In
<1>2. /\ Sound(b) /\ b.up = seat.up /\ Serial(b) /\ b.open = {b.n} /\ b.n \in Nat
      /\ Hands(seat, b, {})
  BY InvFacts, Peer, OpenIsSound, OpenIsSerial, OpenHands, SeatFields DEF Keeps, Sound
<1> HIDE DEF b
<1>3. tab.task \in Nat /\ w \in Nat
  BY InvFacts DEF TabsOf
<1>4. TurnsType(ts) /\ DOMAIN ts = DOMAIN turns
  <2>1. TurnsType(turns)
    BY InvFacts DEF TurnsType
  <2>2. [turns[w] EXCEPT !.stage = "streaming", !.task = tab.task, !.run = b.n] \in Turns
    BY <1>2, <1>3, <2>1 DEF TurnsType, Turns, Stages
  <2>3. ts = [turns EXCEPT ![w] = [turns[w] EXCEPT !.stage = "streaming", !.task = tab.task,
                                                   !.run = b.n]]
    BY <2>1 DEF TurnsType
  <2> HIDE DEF ts
  <2> QED BY <2>1, <2>2, <2>3 DEF TurnsType
<1>5. /\ ts[w].stage = "streaming" /\ ts[w].run = b.n
      /\ \A v \in DOMAIN turns : ts[v] = turns[v] \/ v = w
  BY InvFacts DEF Turns
<1> HIDE DEF ts
<1>6. Ready(seat, ts, {})
  BY <1>1, <1>4, <1>5, InvFacts, TurnsGoOn
<1>7. Watched(b, ts)
  BY <1>2, <1>4, <1>5 DEF Watched
<1>8. Consistent(seat', turns') /\ seat'.up = b.up
  BY <1>1, <1>2, <1>4, <1>6, <1>7, InvFacts, AfterIsConsistent
<1>9. tab' \in TabsOf /\ tab'.listed = tab.listed
  BY <1>1, <1>3, InvFacts, TabTypes
<1>10. restarts' \in Nat /\ (seat'.up <=> tab'.listed)
  BY <1>1, <1>2, <1>8, <1>9, InvFacts
<1> QED BY <1>8, <1>9, <1>10, ConsistentIsInv

(* An event names the Task of a stream. *)
LEMMA NoteTaskKeepsInv ==
  ASSUME Inv, NEW w \in DOMAIN turns, NoteTask(w)
  PROVE  Inv'
<1>1. /\ turns' = [turns EXCEPT ![w].task = IF @ = None THEN w ELSE @]
      /\ tab' = [tab EXCEPT !.task = turns'[w].task] /\ UNCHANGED <<seat, restarts>>
  BY DEF NoteTask
<1>2. w \in Nat /\ turns[w].task \in Nat
  BY InvFacts DEF Turns
<1>3. /\ TurnsType(turns') /\ DOMAIN turns' = DOMAIN turns /\ turns'[w].task \in Nat
      /\ \A v \in DOMAIN turns : turns'[v].stage = turns[v].stage /\ turns'[v].run = turns[v].run
  BY <1>1, <1>2, InvFacts DEF TurnsType, Turns
<1>4. Ready(seat, turns', {}) /\ Watched(seat, turns')
  BY <1>3, InvFacts, TurnsGoOn
<1>5. Consistent(seat', turns')
  BY <1>1, <1>3, <1>4, InvFacts DEF Consistent
<1>6. tab' \in TabsOf /\ tab'.listed = tab.listed
  <2> DEFINE task == turns'[w].task
  <2>1. task \in Nat /\ tab' = [tab EXCEPT !.task = task] /\ tab \in TabsOf
    BY <1>1, <1>3, InvFacts
  <2> HIDE DEF task
  <2> QED BY <2>1, TabTypes
<1>7. restarts' \in Nat /\ (seat'.up <=> tab'.listed)
  BY <1>1, <1>6, InvFacts
<1> QED BY <1>5, <1>6, <1>7, ConsistentIsInv

(* The Run a turn settles is its own: another turn's stays, with that turn. *)
LEMMA SettledFacts ==
  ASSUME Inv, NEW w \in DOMAIN turns, turns[w].stage = "streaming"
  PROVE  LET b == Settle(seat, turns[w].run)
         IN  /\ Sound(b) /\ b.up = seat.up /\ Serial(b) /\ Hands(seat, b, {})
             /\ b.open \subseteq seat.open /\ seat.open \ {turns[w].run} \subseteq b.open
             /\ TurnsType(Over(turns, w)) /\ Ready(seat, Over(turns, w), {})
             /\ Watched(b, Over(turns, w))
<1> DEFINE r  == turns[w].run
           b  == Settle(seat, r)
           ts == Over(turns, w)
<1>1. /\ Sound(b) /\ b.up = seat.up /\ Serial(b) /\ Hands(seat, b, {})
      /\ r = seat.cur => b.cur = NoRun
      /\ r # seat.cur => b = seat
  BY InvFacts, Peer, SettleIsSound, SettleIsSerial, SettleHands DEF Keeps
<1>2. seat.open = (IF seat.cur = NoRun THEN {} ELSE {seat.cur})
  BY InvFacts DEF Serial
<1>3. ts = [turns EXCEPT ![w] = [NoTurn EXCEPT !.stage = "over"]]
  BY DEF Over
<1> HIDE DEF b, r, ts
<1>4. b.open \subseteq seat.open \ {r} /\ seat.open \ {r} \subseteq b.open
  <2>1. CASE r = seat.cur
    BY <2>1, <1>1, <1>2 DEF Serial
  <2>2. CASE r # seat.cur
    BY <2>2, <1>1, <1>2
  <2> QED BY <2>1, <2>2
<1>5. /\ TurnsType(ts) /\ DOMAIN ts = DOMAIN turns
      /\ \A v \in DOMAIN turns : ts[v] = turns[v] \/ v = w
  BY <1>3, InvFacts DEF TurnsType, Turns, Stages, NoTurn, NoRun, None
<1>6. Ready(seat, ts, {})
  BY <1>5, InvFacts, TurnsGoOn
<1>7. Watched(b, ts)
  <2> SUFFICES ASSUME NEW q \in b.open
               PROVE  \E v \in DOMAIN ts : ts[v].stage = "streaming" /\ ts[v].run = q
    BY DEF Watched
  <2>1. q \in seat.open /\ q # r
    BY <1>4
  <2>2. PICK v \in DOMAIN turns : turns[v].stage = "streaming" /\ turns[v].run = q
    BY <2>1, InvFacts DEF Watched
  <2>3. v # w
    BY <2>1, <2>2 DEF r
  <2> QED BY <2>2, <2>3, <1>5
<1> QED BY <1>1, <1>4, <1>5, <1>6, <1>7 DEF b, r, ts

(* A turn that ends is over, its Run settled, its handle on the tab given up. *)
LEMMA TurnEndsKeepsInv ==
  ASSUME Inv, NEW w \in DOMAIN turns, TurnEnds(w)
  PROVE  Inv'
<1>1. /\ turns[w].stage = "streaming" /\ After(Settle(seat, turns[w].run), Over(turns, w))
      /\ restarts' = restarts
  BY DEF TurnEnds, Finish, Abort, Fail, In
<1>2. Unhanded(tab, w) \in TabsOf /\ Unhanded(tab, w).listed = tab.listed
  BY InvFacts DEF Unhanded, TabsOf, None
<1>3. tab' \in TabsOf /\ tab'.listed = tab.listed
  <2>1. \/ \E done \in BOOLEAN : tab' = [Unhanded(tab, w) EXCEPT !.task = IF done THEN None ELSE @]
        \/ tab' = Unhanded(tab, w)
        \/ tab' = Detached([Unhanded(tab, w) EXCEPT !.peer = FALSE, !.task = None])
    BY DEF TurnEnds, Finish, Abort, Fail
  <2> HIDE DEF Unhanded
  <2> DEFINE u == Unhanded(tab, w)
  <2> HIDE DEF u
  <2>2. u \in TabsOf /\ u.listed = tab.listed
    BY <1>2 DEF u
  <2>3. \A x \in Nat : [u EXCEPT !.task = x] \in TabsOf /\ [u EXCEPT !.task = x].listed = u.listed
    BY <2>2, TabTypes
  <2>4. \A done \in BOOLEAN : (IF done THEN None ELSE u.task) \in Nat
    BY <2>2 DEF TabsOf, None
  <2>5. LET t == [u EXCEPT !.peer = FALSE, !.task = None]
        IN  t \in TabsOf /\ t.listed = u.listed
    BY <2>2 DEF TabsOf, None
  <2>6. CASE tab' = u
    BY <2>6, <2>2
  <2>7. CASE tab' = Detached([u EXCEPT !.peer = FALSE, !.task = None])
    BY <2>7, <2>2, <2>5, TabTypes
  <2>8. CASE \E done \in BOOLEAN : tab' = [u EXCEPT !.task = IF done THEN None ELSE @]
    BY <2>8, <2>2, <2>3, <2>4
  <2> QED BY <2>1, <2>6, <2>7, <2>8 DEF u
<1>4. Consistent(seat', turns') /\ seat'.up = seat.up
  BY <1>1, InvFacts, SettledFacts, AfterIsConsistent
<1> QED BY <1>1, <1>3, <1>4, InvFacts, ConsistentIsInv

(* A restart leaves nothing open, nothing held and no turn going on. *)
LEMMA RestartKeepsInv ==
  ASSUME Inv, Restart
  PROVE  Inv'
<1> DEFINE s == Stamp(seat, HeldIds(seat), "lost")
<1>1. s \in Seats /\ s.wire = <<>> /\ DOMAIN s.wakes = DOMAIN seat.wakes
  BY InvFacts, StampIsSound, StampSameHistory DEF Fates, SameHistory
<1>2. /\ seat' = [s EXCEPT !.cur = NoRun, !.open = {}, !.held = <<>>, !.up = FALSE,
                           !.riding = FALSE]
      /\ restarts' = restarts + 1
      /\ tab' = [Detached(LetGo(tab)) EXCEPT !.listed = FALSE, !.peer = FALSE]
      /\ turns' = [w \in DOMAIN turns |->
                     IF turns[w].stage = "none" THEN NoTurn ELSE [NoTurn EXCEPT !.stage = "over"]]
  BY DEF Restart
<1> HIDE DEF s
<1>3. <<>> \in Seq([conv : Conversations, id : Nat]) /\ NoRun \in Nat /\ DOMAIN <<>> = {}
  BY DEF NoRun
<1>4. seat' \in Seats
  BY <1>1, <1>2, <1>3 DEF Seats
<1>5. /\ seat'.cur = NoRun /\ seat'.open = {} /\ seat'.held = <<>> /\ seat'.up = FALSE
      /\ seat'.n \in Nat /\ seat'.wire = <<>> /\ seat'.wakes = s.wakes
  BY <1>1, <1>2 DEF Seats
<1>6. Sound(seat') /\ Serial(seat') /\ HeldIds(seat') = {}
  BY <1>3, <1>4, <1>5 DEF Sound, BehindRun, Indexed, Serial, HeldIds, NoRun
<1>7. TurnsType(turns') /\ \A w \in DOMAIN turns :
        turns'[w].stage # "none" => turns[w].stage # "none"
  <2>1. /\ NoTurn \in Turns /\ [NoTurn EXCEPT !.stage = "over"] \in Turns
        /\ NoTurn.stage = "none"
    BY DEF Turns, Stages, NoTurn, NoRun, None
  <2> QED BY <1>2, <2>1, InvFacts DEF TurnsType
<1>8. Ready(seat', turns', {})
  BY <1>1, <1>5, <1>6, <1>7, InvFacts DEF Ready, TurnsType
<1>9. Consistent(seat', turns')
  BY <1>5, <1>6, <1>7, <1>8 DEF Consistent, Watched
<1>10. tab' \in TabsOf /\ tab'.listed = FALSE
  <2>1. Detached(LetGo(tab)) \in TabsOf
    BY InvFacts, TabTypes
  <2> QED BY <2>1, <1>2 DEF TabsOf
<1> QED BY <1>2, <1>5, <1>9, <1>10, InvFacts, ConsistentIsInv

(* A join brings the tab back, without a client. *)
LEMMA ReattachKeepsInv ==
  ASSUME Inv, Reattach
  PROVE  Inv'
<1>1. /\ seat' = [seat EXCEPT !.up = TRUE] /\ UNCHANGED <<turns, restarts>>
      /\ tab' = [LetGo(tab) EXCEPT !.listed = TRUE, !.status = "detached", !.peer = FALSE]
  BY DEF Reattach
<1>2. Sound(seat') /\ seat'.up = TRUE
  BY <1>1, InvFacts, UpField
<1>3. /\ SameRuns(seat, seat') /\ seat'.wire = <<>> /\ seat'.held = seat.held
      /\ seat'.wakes = seat.wakes
  BY <1>1, InvFacts DEF SameRuns, Seats
<1>4. HeldIds(seat') = HeldIds(seat)
  BY <1>3 DEF HeldIds
<1>5. Consistent(seat', turns')
  BY <1>1, <1>2, <1>3, <1>4, InvFacts DEF Consistent, Ready, Watched, SameRuns, Serial
<1>6. tab' \in TabsOf /\ tab'.listed = TRUE
  BY <1>1, InvFacts DEF TabsOf, LetGo, None
<1> QED BY <1>1, <1>2, <1>5, <1>6, InvFacts, ConsistentIsInv

-----------------------------------------------------------------------------
(* A fresh tab holds its client and has no turn. *)
LEMMA InvHoldsInitially == Init => Inv
<1> SUFFICES ASSUME Init PROVE Inv
  OBVIOUS
<1>1. /\ Sound(seat) /\ Serial(seat) /\ seat.up = TRUE /\ seat.open = {}
      /\ seat.held = <<>> /\ seat.wire = <<>>
  BY FreshSeatIsSound DEF Init, FreshSeat, Serial, NoRun
<1>2. HeldIds(seat) = {}
  <2>1. DOMAIN <<>> = {}
    OBVIOUS
  <2> QED BY <1>1, <2>1 DEF HeldIds
<1>3. /\ TurnsType(turns) /\ \A w \in DOMAIN turns : turns[w].stage = "none"
  <2>1. NoTurn \in Turns /\ NoTurn.stage = "none"
    BY DEF Turns, Stages, NoTurn, NoRun, None
  <2> QED BY <2>1 DEF Init, TurnsType
<1>4. Consistent(seat, turns)
  BY <1>1, <1>2, <1>3 DEF Consistent, Ready, Watched
<1>5. tab \in TabsOf /\ tab.listed = TRUE /\ restarts \in Nat
  BY DEF Init, TabsOf, None
<1> QED BY <1>1, <1>3, <1>4, <1>5 DEF Inv, TypeOK, Sound, TurnsType

(* Every handler keeps Inv. *)
LEMMA InvIsInductive == Inv /\ [Next]_vars => Inv'
<1> SUFFICES ASSUME Inv, [Next]_vars PROVE Inv'
  OBVIOUS
<1>1. CASE \E c \in Conversations : Wake(c)
  BY <1>1, WakeKeepsInv
<1>2. CASE Cancel \/ Detach \/ Restart \/ Reattach
  BY <1>2, CancelKeepsInv, DetachKeepsInv, RestartKeepsInv, ReattachKeepsInv
<1>3. CASE \E w \in DOMAIN turns : TurnStep(w)
  <2> SUFFICES ASSUME NEW w \in DOMAIN turns, TurnStep(w) PROVE Inv'
    BY <1>3
  <2> QED
    BY DialledKeepsInv, OpenTurnKeepsInv, NoteTaskKeepsInv, TurnEndsKeepsInv
       DEF TurnStep, TurnMoves
<1>4. CASE UNCHANGED vars
  BY <1>4, InvFacts, ConsistentIsInv DEF vars
<1> QED BY <1>1, <1>2, <1>3, <1>4 DEF Next

(* Inv is an invariant of the specification. *)
LEMMA InvHolds == Spec => []Inv
BY InvHoldsInitially, InvIsInductive, PTL DEF Spec

(* The seat, the tab and every turn keep their types, and the seat is up exactly
   when the tab is on the roster. *)
THEOREM PeerTypeOK == Spec => []TypeOK
BY InvHolds, PTL DEF Inv

(* No wake is held for a peer with no Run open (admission.ts). *)
THEOREM PeerHeldBehindRun == Spec => []HeldBehindRun
<1>1. Inv => HeldBehindRun
  BY DEF Inv, Consistent, Sound, HeldBehindRun
<1> QED BY <1>1, InvHolds, PTL

(* Runs are serial on this connector, however the turns of its deliveries
   overlap (RunRegistry.open). *)
THEOREM PeerOneOpenRun == Spec => []OneOpenRun
<1>1. Inv => OneOpenRun
  <2> SUFFICES ASSUME Inv PROVE OneOpenRun
    OBVIOUS
  <2>1. seat.open = {} \/ seat.open = {seat.cur}
    BY InvFacts DEF Serial
  <2>2. Cardinality({}) = 0 /\ Cardinality({seat.cur}) = 1
    BY FS_EmptySet, FS_Singleton
  <2> QED BY <2>1, <2>2 DEF OneOpenRun
<1> QED BY <1>1, InvHolds, PTL

(* An open Run has a stream whose end settles it, whatever was cancelled,
   detached or released meanwhile (A2aPeerGateway.runTurn). *)
THEOREM PeerOpenRunHasTurn == Spec => []OpenRunHasTurn
<1>1. Inv => OpenRunHasTurn
  BY DEF Inv, Consistent, Watched, OpenRunHasTurn, In
<1> QED BY <1>1, InvHolds, PTL

(* A turn that ends settles its own Run and no other, however late it ends
   (A2aPeerGateway.finishTurn, abortTurn and failTurn settle by Run id). *)
THEOREM PeerEndsOnlyItsRun == Spec => EndsOnlyItsRun
<1>1. Inv => [\A w \in DOMAIN turns :
                TurnEnds(w) => (seat.open \ {turns[w].run}) \subseteq seat'.open]_vars
  <2> SUFFICES ASSUME Inv, NEW w \in DOMAIN turns, TurnEnds(w)
               PROVE  (seat.open \ {turns[w].run}) \subseteq seat'.open
    OBVIOUS
  <2>1. turns[w].stage = "streaming" /\ After(Settle(seat, turns[w].run), Over(turns, w))
    BY DEF TurnEnds, Finish, Abort, Fail, In
  <2>2. seat'.open = Settle(seat, turns[w].run).open
    BY <2>1, InvFacts, SettledFacts, AfterIsConsistent
  <2> QED BY <2>1, <2>2, SettledFacts
<1> QED BY <1>1, InvHolds, PTL DEF Spec, EndsOnlyItsRun

-----------------------------------------------------------------------------
(* Each handler is a step of WakeLedger, or leaves the ledger alone. *)

(* Letting held wakes go is the ledger's release. *)
LEMMA FreedIsReleased ==
  ASSUME seat \in Seats, Freed(seat.wakes, seat'.wakes)
  PROVE  [Ledger!Next]_(seat.wakes)
<1>1. PICK ids \in SUBSET Waiting(seat.wakes), f \in {"sent", "lost"} :
        seat'.wakes = Restamped(seat.wakes, ids, f)
  BY DEF Freed
<1>2. CASE ids = {}
  BY <1>1, <1>2, SeatFields, RestampedNone
<1>3. CASE ids # {}
  <2>1. Ledger!Released(ids, f)
    BY <1>1, <1>3 DEF Ledger!Released, Ledger!Stamped, Restamped
  <2>2. ids \in SUBSET Ledger!Held
    BY <1>1 DEF Ledger!Held, Waiting
  <2> QED BY <2>1, <2>2 DEF Ledger!Next
<1> QED BY <1>2, <1>3

(* A wake that is answered is put off, refused or handed over in the ledger. *)
LEMMA PostedIsAnswered ==
  ASSUME seat \in Seats, NEW c \in Conversations, Len(seat.wakes) < MaxWakes,
         Posted(seat.wakes, c, seat'.wakes)
  PROVE  Ledger!Next
<1> DEFINE mine == {i \in Waiting(seat.wakes) : seat.wakes[i].conv = c}
<1>1. mine = Ledger!Held \cap Ledger!Of(c) /\ Waiting(seat.wakes) = Ledger!Held
  BY DEF Ledger!Held, Ledger!Of, Waiting
<1>2. \A ids, f : Restamped(seat.wakes, ids, f) = Ledger!Stamped(ids, f)
  BY DEF Restamped, Ledger!Stamped
<1>3. \/ seat'.wakes = Append(Restamped(seat.wakes, mine, "merged"), [conv |-> c, fate |-> "held"])
      \/ seat'.wakes = Append(seat.wakes, [conv |-> c, fate |-> "refused"])
      \/ \E ids \in SUBSET Waiting(seat.wakes) :
           /\ mine \subseteq ids
           /\ seat'.wakes = Append(Restamped(seat.wakes, ids, "sent"),
                                   [conv |-> c, fate |-> "sent"])
  BY DEF Posted
<1> HIDE DEF mine
<1>4. \/ Ledger!PutOff(c) \/ Ledger!Refused(c)
      \/ \E ids \in SUBSET Ledger!Held : Ledger!HandedOver(c, ids)
  BY <1>1, <1>2, <1>3 DEF Ledger!PutOff, Ledger!Refused, Ledger!HandedOver
<1> QED BY <1>4 DEF Ledger!Next

(* What After leaves of a seat: the deliveries begin their turns. *)
LEMMA AfterFollows ==
  ASSUME NEW b \in Seats, NEW ts, After(b, ts)
  PROVE  seat'.held = b.held /\ seat'.wakes = b.wakes
BY DEF After, Seats

(* A wake is admitted; the connector may have settled the Run it preempts. *)
LEMMA WakeIsAnswered ==
  ASSUME Inv, Recorded(seat, 0), NEW c \in Conversations, Wake(c)
  PROVE  Recorded(seat', 0) /\ Ledger!Next
<1> DEFINE a == Arrive(seat, c)
           b == Admit(a, c, Len(a.wakes), CancelOf(a))
<1>1. seat \in Seats /\ Sound(seat) /\ Len(seat.wakes) < MaxWakes
  BY InvFacts DEF Wake
<1>2. Sound(a) /\ a \in Seats /\ Serial(a) /\ a.up = seat.up /\ Len(a.wakes) \in Nat
  BY ArrivedFacts
<1>3. PICK ts : After(b, ts)
  BY DEF Wake
<1> HIDE DEF a
<1>4. \/ CancelOf(a).seat = a
      \/ /\ a.up /\ CancelOf(a).seat = SettleOpenFor(a)
         /\ CancelOf(a).cancelled => CancelOf(a).seat.cur = NoRun
  BY <1>2, Peer, SettleOpenForIsSerial DEF CancelOf
<1>5. b \in Seats
  BY <1>2, CancelFacts, AdmitIsSound DEF Sound
<1>6. Recorded(b, 0) /\ Posted(seat.wakes, c, b.wakes)
  BY <1>1, <1>2, <1>4, AdmitPosts DEF a
<1> HIDE DEF b
<1>7. seat'.held = b.held /\ seat'.wakes = b.wakes
  BY <1>3, <1>5, AfterFollows
<1>8. Recorded(seat', 0)
  BY <1>6, <1>7, RecordedSame
<1> QED BY <1>1, <1>6, <1>7, <1>8, PostedIsAnswered

(* A cancel settles the Run it stops. *)
LEMMA CancelFollows ==
  ASSUME Inv, Recorded(seat, 0), Cancel
  PROVE  Follows(seat, seat')
<1> DEFINE b == SettleOpenFor(seat)
<1>1. seat \in Seats /\ Sound(seat) /\ b \in Seats
  BY InvFacts, SettleOpenForIsSound DEF Sound
<1>2. After(b, Stopped(turns))
  BY DEF Cancel, CancelOf
<1>3. Follows(seat, b)
  BY <1>1, OpenForFollows
<1> HIDE DEF b
<1>4. seat'.held = b.held /\ seat'.wakes = b.wakes
  BY <1>1, <1>2, AfterFollows
<1> QED BY <1>3, <1>4, FollowsFrom

(* A detach takes the far end away before it settles. *)
LEMMA DetachFollows ==
  ASSUME Inv, Recorded(seat, 0), Detach
  PROVE  Follows(seat, seat')
<1> DEFINE p == [seat EXCEPT !.up = FALSE]
           b == SettleOpenFor(p)
<1>1. seat \in Seats /\ Sound(seat)
  BY InvFacts
<1>2. Sound(p) /\ p \in Seats /\ p.held = seat.held /\ p.wakes = seat.wakes
  <2>1. Sound(p)
    BY <1>1, UpField
  <2> QED BY <2>1, <1>1 DEF Seats, Sound
<1>3. After(b, Stopped(turns))
  BY DEF Detach
<1> HIDE DEF p
<1>4. Recorded(p, 0)
  BY <1>2, RecordedSame
<1>5. Follows(p, b) /\ b \in Seats
  BY <1>2, <1>4, OpenForFollows, SettleOpenForIsSound DEF Sound
<1> HIDE DEF b
<1>6. seat'.held = b.held /\ seat'.wakes = b.wakes
  BY <1>3, <1>5, AfterFollows
<1> QED BY <1>2, <1>5, <1>6, FollowsFrom

(* A turn opens its Run, or ends and settles it; the other steps of a turn leave
   the seat alone. *)
LEMMA TurnFollows ==
  ASSUME Inv, Recorded(seat, 0), NEW w \in DOMAIN turns, TurnStep(w)
  PROVE  Follows(seat, seat')
<1>1. seat \in Seats /\ Sound(seat)
  BY InvFacts
<1>2. CASE OpenTurn(w)
  <2> DEFINE b == Open(seat)
  <2>1. \E ts : After(b, ts)
    BY <1>2 DEF OpenTurn
  <2>2. Follows(seat, b) /\ b \in Seats
    BY <1>1, OpenForFollows, OpenIsSound DEF Sound
  <2> HIDE DEF b
  <2>3. seat'.held = b.held /\ seat'.wakes = b.wakes
    BY <2>1, <2>2, AfterFollows
  <2> QED BY <2>2, <2>3, FollowsFrom
<1>3. CASE TurnEnds(w)
  <2> DEFINE b == Settle(seat, turns[w].run)
  <2>1. After(b, Over(turns, w))
    BY <1>3 DEF TurnEnds, Finish, Abort, Fail
  <2>2. Follows(seat, b) /\ b \in Seats
    BY <1>1, SettleFollows, SettleIsSound DEF Sound
  <2> HIDE DEF b
  <2>3. seat'.held = b.held /\ seat'.wakes = b.wakes
    BY <2>1, <2>2, AfterFollows
  <2> QED BY <2>2, <2>3, FollowsFrom
<1>4. CASE Dialled(w) \/ Unreachable(w) \/ NoteTask(w)
  <2>1. seat' = seat
    BY <1>4 DEF Dialled, Unreachable, NoteTask
  <2> QED BY <2>1, <1>1, SameFollows
<1> QED BY <1>2, <1>3, <1>4 DEF TurnStep, TurnMoves

(* A restart drops what was held back. *)
LEMMA RestartFollows ==
  ASSUME Inv, Recorded(seat, 0), Restart
  PROVE  Follows(seat, seat')
<1> DEFINE s == Stamp(seat, HeldIds(seat), "lost")
<1>1. s \in Seats /\ seat \in Seats
  BY InvFacts, StampIsSound DEF Fates
<1>2. seat' = [s EXCEPT !.cur = NoRun, !.open = {}, !.held = <<>>, !.up = FALSE,
                        !.riding = FALSE]
  BY DEF Restart
<1>3. seat' \in Seats
  BY RestartKeepsInv DEF Inv, TypeOK
<1> HIDE DEF s
<1>4. seat'.held = <<>> /\ seat'.wakes = s.wakes
  BY <1>1, <1>2 DEF Seats
<1> QED BY <1>1, <1>3, <1>4, LostFollows DEF s

(* A join touches no wake. *)
LEMMA ReattachFollows ==
  ASSUME Inv, Recorded(seat, 0), Reattach \/ UNCHANGED vars
  PROVE  Follows(seat, seat')
<1>1. seat'.held = seat.held /\ seat'.wakes = seat.wakes
  BY InvFacts DEF Reattach, Seats, vars
<1> QED BY <1>1, InvFacts, SameFollows

(* Each handler keeps the seat on record, and is a step of the ledger or none. *)
LEMMA EveryStepIsTheLedgers ==
  Inv /\ Recorded(seat, 0) /\ [Next]_vars => Recorded(seat, 0)' /\ [Ledger!Next]_(seat.wakes)
<1> SUFFICES ASSUME Inv, Recorded(seat, 0), [Next]_vars
             PROVE  Recorded(seat', 0) /\ [Ledger!Next]_(seat.wakes)
  BY DEF Recorded, HeldIds
<1>1. CASE \E c \in Conversations : Wake(c)
  BY <1>1, WakeIsAnswered
<1>2. CASE ~\E c \in Conversations : Wake(c)
  <2>1. Follows(seat, seat')
    BY <1>2, CancelFollows, DetachFollows, TurnFollows, RestartFollows, ReattachFollows DEF Next
  <2> QED BY <2>1, InvFacts, FreedIsReleased DEF Follows
<1> QED BY <1>1, <1>2

(* However a peer's turns overlap, are cancelled, cut or outlived by a restart,
   the senders of its wakes get what AdmissionEngine promises (WakeLedger). *)
THEOREM PeerRefinesLedger == Spec => RefinesLedger
<1>1. Init => Recorded(seat, 0) /\ Ledger!Init
  BY FreshSeatIsRecorded DEF Init, Ledger!Init, FreshSeat
<1> QED
  BY <1>1, EveryStepIsTheLedgers, InvHolds, PTL DEF Spec, RefinesLedger, Ledger!Spec

-----------------------------------------------------------------------------
(* What the ledger promises, of this seat. *)
Promise == INSTANCE WakeLedger_proofs WITH wakes <- seat.wakes

(* So what is proved of the ledger is true of an attached peer: of the wakes of a
   Conversation at most one waits, it is the latest, and none newer was handed
   over (admission.ts: hold, release). *)
THEOREM PeerKeepsItsPromise ==
  Spec => [](Ledger!OneHeldEach /\ Ledger!LatestIsKept /\ Ledger!NoOvertaking)
<1>1. Promise!Spec => [](Promise!OneHeldEach /\ Promise!LatestIsKept /\ Promise!NoOvertaking)
  <2>1. Promise!LedgerAssumption
    BY PeerAssumption DEF Promise!LedgerAssumption
  <2> QED
    BY <2>1, Promise!LedgerOneHeldEach, Promise!LedgerLatestIsKept,
       Promise!LedgerNoOvertaking, PTL
<1>2. Ledger!Init <=> Promise!Init
  BY DEF Ledger!Init, Promise!Init
<1>3. [Ledger!Next]_(seat.wakes) <=> [Promise!Next]_(seat.wakes)
  BY DEF Ledger!Next, Promise!Next, Ledger!Released, Promise!Released, Ledger!PutOff,
         Promise!PutOff, Ledger!Refused, Promise!Refused, Ledger!HandedOver,
         Promise!HandedOver, Ledger!Stamped, Promise!Stamped, Ledger!Held, Promise!Held,
         Ledger!Of, Promise!Of
<1>4. (Promise!OneHeldEach <=> Ledger!OneHeldEach)
      /\ (Promise!LatestIsKept <=> Ledger!LatestIsKept)
      /\ (Promise!NoOvertaking <=> Ledger!NoOvertaking)
  BY DEF Promise!OneHeldEach, Ledger!OneHeldEach, Promise!LatestIsKept, Ledger!LatestIsKept,
         Promise!NoOvertaking, Ledger!NoOvertaking, Ledger!Held, Promise!Held
<1> QED
  BY <1>1, <1>2, <1>3, <1>4, PeerRefinesLedger, PTL
     DEF RefinesLedger, Ledger!Spec, Promise!Spec
=============================================================================
