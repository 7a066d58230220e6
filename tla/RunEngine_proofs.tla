--------------------------- MODULE RunEngine_proofs --------------------------
(***************************************************************************)
(* What RunEngine's operators preserve of a seat, for any Conversations,   *)
(* policies and connector.  Sound is what every connector's safety rests   *)
(* on; Keeps is the part of a seat that only the connector may change.     *)
(* Recorded ties the held wakes to the history, so that a release or an    *)
(* admission can be read as a step of the ledger: Follows, Posted.  At the *)
(* end stand the facts about sequences and filters the delivery parts use, *)
(* with induction over a set in place of a predicate.                      *)
(***************************************************************************)
EXTENDS RunEngine, Filters, TLAPS, WellFoundedInduction, SequenceTheorems

\* A well-typed seat whose held wakes wait behind a Run the registry knows.
Sound(a) == a \in Seats /\ BehindRun(a) /\ Indexed(a)

\* The cascade neither makes a far end nor breaks it off, ends no Pi turn, and
\* prompts no process that is not there.
Keeps(a, b) ==
  /\ b.up = a.up
  /\ a.busy => b.busy
  /\ b.busy => a.busy \/ a.up

-----------------------------------------------------------------------------
(* Fields of a seat *)

(* The fields of a seat have the types of Seats. *)
LEMMA SeatFields ==
  ASSUME NEW a \in Seats
  PROVE  /\ a.cur \in Nat /\ a.open \in SUBSET Nat /\ a.n \in Nat
         /\ a.held \in Seq([conv : Conversations, id : Nat])
         /\ a.up \in BOOLEAN /\ a.busy \in BOOLEAN /\ a.riding \in BOOLEAN
         /\ a.wire \in Seq(Nat) /\ a.wakes \in Seq(Wakes)
BY DEF Seats

(* Sequences of any set. *)
LEMMA SequenceTypes ==
  ASSUME NEW S, NEW s \in Seq(S), NEW x \in S
  PROVE  /\ Append(s, x) \in Seq(S)
         /\ Len(s) \in Nat /\ Len(Append(s, x)) = Len(s) + 1
OBVIOUS

(* The two parts of a sequence that is not empty. *)
LEMMA RestTypes ==
  ASSUME NEW S, NEW s \in Seq(S), s # <<>>
  PROVE  Head(s) \in S /\ Tail(s) \in Seq(S)
OBVIOUS

(* The held wakes, and their ids in the order they fire. *)
Entries == [conv : Conversations, id : Nat]

(* The held wakes are records with a numeric id. *)
LEMMA HeldTypes ==
  ASSUME NEW a \in Seats
  PROVE  /\ a.held \in Seq(Entries)
         /\ \A i \in DOMAIN a.held : a.held[i] \in Entries /\ a.held[i].id \in Nat
         /\ [i \in DOMAIN a.held |-> a.held[i].id] \in Seq(Nat)
         /\ HeldIds(a) \subseteq Nat
<1>1. a.held \in Seq(Entries)
  BY DEF Seats, Entries
<1>2. \A i \in DOMAIN a.held : a.held[i] \in Entries
  BY <1>1
<1>3. \A i \in DOMAIN a.held : a.held[i].id \in Nat
  BY <1>2 DEF Entries
<1>4. [i \in DOMAIN a.held |-> a.held[i].id] \in Seq(Nat)
  BY <1>1, <1>3
<1> QED BY <1>1, <1>2, <1>3, <1>4 DEF HeldIds

(* A participant starts with nothing held and no Run. *)
LEMMA FreshSeatIsSound == Sound(FreshSeat)
<1>1. /\ <<>> \in Seq([conv : Conversations, id : Nat])
      /\ <<>> \in Seq(Nat) /\ <<>> \in Seq(Wakes)
  OBVIOUS
<1>2. FreshSeat \in Seats
  BY <1>1 DEF FreshSeat, Seats, NoRun
<1> QED BY <1>2 DEF Sound, FreshSeat, BehindRun, Indexed, NoRun

(* Stamping touches the history only. *)
LEMMA StampFacts ==
  ASSUME NEW a \in Seats, NEW ids, NEW f \in Fates
  PROVE  /\ Stamp(a, ids, f) \in Seats
         /\ Stamp(a, ids, f) = [a EXCEPT !.wakes = Stamp(a, ids, f).wakes]
<1> DEFINE ws == [i \in DOMAIN a.wakes |->
                    IF i \in ids THEN [a.wakes[i] EXCEPT !.fate = f] ELSE a.wakes[i]]
<1>1. a.wakes \in Seq(Wakes)
  BY SeatFields
<1>2. \A i \in DOMAIN a.wakes : a.wakes[i] \in Wakes
  BY <1>1
<1>3. \A i \in DOMAIN a.wakes : [a.wakes[i] EXCEPT !.fate = f] \in Wakes
  BY <1>2 DEF Wakes
<1>4. ws \in Seq(Wakes)
  <2>1. DOMAIN ws = 1 .. Len(a.wakes) /\ Len(a.wakes) \in Nat
    BY <1>1
  <2>2. ASSUME NEW i \in 1 .. Len(a.wakes) PROVE ws[i] \in Wakes
    <3>1. i \in DOMAIN a.wakes
      BY <1>1
    <3>2. ws[i] = IF i \in ids THEN [a.wakes[i] EXCEPT !.fate = f] ELSE a.wakes[i]
      BY <3>1
    <3> QED BY <1>2, <1>3, <3>1, <3>2, Zenon
  <2>3. ws = [i \in 1 .. Len(a.wakes) |-> ws[i]]
    BY <2>1
  <2> HIDE DEF ws
  <2> QED BY <2>1, <2>2, <2>3
<1>5. Stamp(a, ids, f) = [a EXCEPT !.wakes = ws]
  BY DEF Stamp
<1> HIDE DEF ws
<1>6. [a EXCEPT !.wakes = ws] \in Seats
  BY <1>4 DEF Seats
<1>7. [a EXCEPT !.wakes = ws].wakes = ws
  BY DEF Seats
<1> QED BY <1>5, <1>6, <1>7

(* Stamping leaves every other field, and so the soundness, of a seat. *)
LEMMA StampIsSound ==
  ASSUME NEW a \in Seats, NEW ids, NEW f \in Fates
  PROVE  /\ Stamp(a, ids, f) \in Seats
         /\ Keeps(a, Stamp(a, ids, f))
         /\ Stamp(a, ids, f).cur = a.cur /\ Stamp(a, ids, f).open = a.open
         /\ Stamp(a, ids, f).held = a.held /\ Stamp(a, ids, f).n = a.n
         /\ Stamp(a, ids, f).busy = a.busy /\ Stamp(a, ids, f).wire = a.wire
         /\ Stamp(a, ids, f).up = a.up
         /\ Sound(a) => Sound(Stamp(a, ids, f))
<1> DEFINE ws == Stamp(a, ids, f).wakes
<1>1. Stamp(a, ids, f) \in Seats /\ Stamp(a, ids, f) = [a EXCEPT !.wakes = ws]
  BY StampFacts
<1> HIDE DEF ws
<1> QED BY <1>1 DEF Seats, Sound, Keeps, BehindRun, Indexed

(* Stamping the history on the way leaves what was reached sound. *)
LEMMA StampedIsSound ==
  ASSUME NEW a, NEW b, Sound(b), Keeps(a, b), NEW ids, NEW f \in Fates
  PROVE  Sound(Stamp(b, ids, f)) /\ Keeps(a, Stamp(b, ids, f))
<1>1. b \in Seats
  BY DEF Sound
<1>2. Sound(Stamp(b, ids, f)) /\ Stamp(b, ids, f).up = b.up /\ Stamp(b, ids, f).busy = b.busy
  BY <1>1, StampIsSound
<1> QED BY <1>2 DEF Keeps

(* What only the connectors change: the far end they reach, and its turn. *)
LEMMA UpField ==
  ASSUME NEW a \in Seats, Sound(a), NEW p \in BOOLEAN
  PROVE  /\ Sound([a EXCEPT !.up = p]) /\ [a EXCEPT !.up = p].up = p
         /\ [a EXCEPT !.up = p].busy = a.busy /\ [a EXCEPT !.up = p].cur = a.cur
         /\ [a EXCEPT !.up = p].open = a.open /\ [a EXCEPT !.up = p].n = a.n
BY DEF Seats, Sound, BehindRun, Indexed

(* The process's busy flag is no part of soundness. *)
LEMMA BusyField ==
  ASSUME NEW a \in Seats, Sound(a), NEW b \in BOOLEAN
  PROVE  /\ Sound([a EXCEPT !.busy = b]) /\ [a EXCEPT !.busy = b].busy = b
         /\ [a EXCEPT !.busy = b].up = a.up
BY DEF Seats, Sound, BehindRun, Indexed

(* Nor is what was handed over without a Run yet. *)
LEMMA WireField ==
  ASSUME NEW a \in Seats, Sound(a), NEW w \in Seq(Nat)
  PROVE  /\ Sound([a EXCEPT !.wire = w]) /\ [a EXCEPT !.wire = w].wire = w
         /\ [a EXCEPT !.wire = w].up = a.up /\ [a EXCEPT !.wire = w].cur = a.cur
         /\ [a EXCEPT !.wire = w].open = a.open /\ [a EXCEPT !.wire = w].n = a.n
BY DEF Seats, Sound, BehindRun, Indexed

-----------------------------------------------------------------------------
(* RunRegistry *)

(* A registered Run is current and indexed, whatever is held. *)
LEMMA RegisterIsSound ==
  ASSUME NEW a \in Seats
  PROVE  Sound(Register(a)) /\ Keeps(a, Register(a)) /\ Register(a).cur # NoRun
<1> DEFINE b == Register(a)
<1>1. /\ b.n = a.n + 1 /\ b.cur = a.n + 1 /\ b.open = a.open \cup {a.n + 1}
      /\ b.up = a.up /\ b.busy = a.busy
  BY DEF Register, Seats
<1>2. b \in Seats
  <2>1. a.n + 1 \in Nat /\ a.open \cup {a.n + 1} \in SUBSET Nat
    BY SeatFields
  <2> DEFINE k == a.n + 1  more == a.open \cup {a.n + 1}
  <2>2. b = [a EXCEPT !.n = k, !.cur = k, !.open = more]
    BY DEF Register
  <2> HIDE DEF k, more, b
  <2> QED BY <2>1, <2>2 DEF Seats, k, more
<1>3. b.cur # NoRun /\ b.cur \in b.open
  BY <1>1, SeatFields DEF NoRun
<1> QED BY <1>1, <1>2, <1>3 DEF Sound, Keeps, BehindRun, Indexed

(* A delivery that starts a turn busies the process, if it has one. *)
LEMMA StartIsSound ==
  ASSUME NEW a \in Seats
  PROVE  /\ Start(a) \in Seats
         /\ Start(a).up = a.up
         /\ Sound(a) => Sound(Start(a))
         /\ ~a.busy /\ a.up => Keeps(a, Start(a))
BY SeatFields DEF Start, Sound, Keeps, Seats, BehindRun, Indexed

(* A release leaves nothing held behind no Run. *)
LEMMA FireHeldIsSound ==
  ASSUME NEW a \in Seats, Indexed(a)
  PROVE  Sound(FireHeld(a)) /\ Keeps(a, FireHeld(a))
<1> DEFINE ids == HeldIds(a)
           all == [a EXCEPT !.held = <<>>]
           tail == [a EXCEPT !.held = Tail(@)]
<1>1. Sound(all) /\ Keeps(a, all)
  <2>1. <<>> \in Seq([conv : Conversations, id : Nat])
    OBVIOUS
  <2>2. all \in Seats
    BY <2>1 DEF Seats
  <2>3. /\ all.held = <<>> /\ all.cur = a.cur /\ all.open = a.open
        /\ all.up = a.up /\ all.busy = a.busy
    BY DEF Seats
  <2> QED BY <2>2, <2>3 DEF Sound, Keeps, BehindRun, Indexed
<1>2. CASE a.held = <<>>
  BY <1>2 DEF FireHeld, Sound, Keeps, BehindRun
<1>3. CASE a.held # <<>> /\ ~a.up
  <2>1. FireHeld(a) = Stamp(all, ids, "lost")
    BY <1>3 DEF FireHeld
  <2> QED BY <2>1, <1>1, StampedIsSound DEF Fates
<1>4. CASE a.held # <<>> /\ a.up /\ OpensLate
  <2> DEFINE more == [i \in DOMAIN a.held |-> a.held[i].id]
             wired == [all EXCEPT !.wire = @ \o more]
  <2>1. more \in Seq(Nat)
    BY HeldTypes
  <2>2. all.wire \o more \in Seq(Nat)
    BY <2>1, SeatFields DEF Seats
  <2> HIDE DEF more
  <2>3. Sound(wired) /\ Keeps(a, wired)
    BY <2>2, <1>1 DEF Sound, Keeps, Seats, BehindRun, Indexed
  <2>4. FireHeld(a) = Stamp(wired, ids, "sent")
    BY <1>4 DEF FireHeld, more
  <2> HIDE DEF wired, ids
  <2> QED BY <2>3, <2>4, StampedIsSound DEF Fates
<1>5. CASE a.held # <<>> /\ a.up /\ ~OpensLate /\ a.busy
  <2>1. FireHeld(a) = Stamp(all, ids, "sent")
    BY <1>5 DEF FireHeld
  <2> QED BY <2>1, <1>1, StampedIsSound DEF Fates
<1>6. CASE a.held # <<>> /\ a.up /\ ~OpensLate /\ ~a.busy
  <2> DEFINE rest == Tail(a.held)
  <2>0. rest \in Seq([conv : Conversations, id : Nat])
    BY <1>6, SeatFields, RestTypes
  <2> HIDE DEF rest
  <2>1. tail \in Seats /\ tail.up = a.up /\ tail.busy = a.busy
    <3>1. [a EXCEPT !.held = rest] \in Seats
      BY <2>0 DEF Seats
    <3>2. [a EXCEPT !.held = rest].up = a.up /\ [a EXCEPT !.held = rest].busy = a.busy
      BY DEF Seats
    <3> QED BY <3>1, <3>2 DEF rest
  <2>2. Sound(Register(tail)) /\ Register(tail).up = a.up
    BY <2>1, RegisterIsSound DEF Keeps
  <2>3. Sound(Start(Register(tail))) /\ Start(Register(tail)).up = a.up
    BY <2>2, StartIsSound DEF Sound
  <2>4. FireHeld(a) = Stamp(Start(Register(tail)), {Head(a.held).id}, "sent")
    BY <1>6 DEF FireHeld
  <2> HIDE DEF tail
  <2>5. Keeps(a, Start(Register(tail)))
    BY <2>3, <1>6 DEF Keeps
  <2> QED BY <2>3, <2>4, <2>5, StampedIsSound DEF Fates
<1> QED BY <1>2, <1>3, <1>4, <1>5, <1>6, SeatFields

(* Leaving a wave touches nothing but the ride. *)
LEMMA EndChainIsSound ==
  ASSUME NEW a \in Seats
  PROVE  /\ EndChain(a) \in Seats /\ Keeps(a, EndChain(a))
         /\ Sound(a) => Sound(EndChain(a))
BY SeatFields DEF EndChain, Sound, Keeps, Seats, BehindRun, Indexed

(* Settling a Run releases what it held back, or leaves the current Run. *)
LEMMA SettleIsSound ==
  ASSUME NEW a \in Seats, Sound(a), NEW r
  PROVE  Sound(Settle(a, r)) /\ Keeps(a, Settle(a, r))
<1> DEFINE f == Forget(a, r)
<1>1. CASE r \notin a.open
  BY <1>1 DEF Settle, Keeps
<1>2. CASE r \in a.open
  <2>1. /\ f \in Seats /\ Indexed(f) /\ f.up = a.up /\ f.busy = a.busy
        /\ f.held = a.held /\ f.cur = (IF a.cur = r THEN NoRun ELSE a.cur)
    BY SeatFields DEF Forget, Seats, Sound, Indexed, NoRun
  <2>2. Sound(Release(f)) /\ Keeps(f, Release(f))
    <3>1. CASE f.cur = NoRun
      BY <3>1, <2>1, FireHeldIsSound DEF Release
    <3>2. CASE f.cur # NoRun
      BY <3>2, <2>1 DEF Release, Sound, Keeps, BehindRun
    <3> QED BY <3>1, <3>2
  <2>3. Settle(a, r) = EndChain(Release(f))
    BY <1>2 DEF Settle
  <2>4. Release(f) \in Seats
    BY <2>2 DEF Sound
  <2> HIDE DEF f
  <2>5. Sound(EndChain(Release(f))) /\ Keeps(Release(f), EndChain(Release(f)))
    BY <2>2, <2>4, EndChainIsSound
  <2> QED BY <2>1, <2>2, <2>3, <2>5 DEF Keeps
<1> QED BY <1>1, <1>2

(* Settling whatever Run is open keeps a seat sound. *)
LEMMA SettleOpenForIsSound ==
  ASSUME NEW a \in Seats, Sound(a)
  PROVE  Sound(SettleOpenFor(a)) /\ Keeps(a, SettleOpenFor(a))
BY SettleIsSound DEF SettleOpenFor, Keeps

(* Opening a Run settles the one before it and leaves a current one. *)
LEMMA OpenIsSound ==
  ASSUME NEW a \in Seats, Sound(a)
  PROVE  Sound(Open(a)) /\ Keeps(a, Open(a)) /\ Open(a).cur # NoRun
<1>1. SettleOpenFor(a) \in Seats /\ Keeps(a, SettleOpenFor(a))
  BY SettleOpenForIsSound DEF Sound
<1>2. /\ Sound(Register(SettleOpenFor(a))) /\ Register(SettleOpenFor(a)).cur # NoRun
      /\ Keeps(SettleOpenFor(a), Register(SettleOpenFor(a)))
  BY <1>1, RegisterIsSound
<1> QED BY <1>1, <1>2 DEF Open, Keeps

-----------------------------------------------------------------------------
(* AdmissionEngine *)

(* A delivery keeps a seat sound, refused, joined or opening a Run. *)
LEMMA DeliverIsSound ==
  ASSUME NEW a \in Seats, Sound(a), NEW id \in Nat
  PROVE  Sound(Deliver(a, id)) /\ Keeps(a, Deliver(a, id))
<1>1. CASE ~a.up
  BY <1>1, StampIsSound DEF Deliver, Fates
<1>2. CASE a.up /\ OpensLate
  <2> DEFINE b == [a EXCEPT !.wire = Append(@, id)]
  <2>1. Append(a.wire, id) \in Seq(Nat)
    BY SeatFields
  <2>2. Sound(b) /\ Keeps(a, b)
    BY <2>1 DEF Sound, Keeps, Seats, BehindRun, Indexed
  <2>3. Deliver(a, id) = Stamp(b, {id}, "sent")
    BY <1>2 DEF Deliver
  <2> HIDE DEF b
  <2> QED BY <2>2, <2>3, StampedIsSound DEF Fates
<1>3. CASE a.up /\ ~OpensLate /\ a.busy
  BY <1>3, StampIsSound DEF Deliver, Fates
<1>4. CASE a.up /\ ~OpensLate /\ ~a.busy
  <2>1. Sound(Open(a)) /\ Open(a).up = a.up
    BY OpenIsSound DEF Keeps
  <2>2. Sound(Start(Open(a))) /\ Start(Open(a)).up = a.up
    BY <2>1, StartIsSound DEF Sound
  <2>3. Deliver(a, id) = Stamp(Start(Open(a)), {id}, "sent")
    BY <1>4 DEF Deliver
  <2>4. Keeps(a, Start(Open(a)))
    BY <2>2, <1>4 DEF Keeps
  <2> QED BY <2>2, <2>3, <2>4, StampedIsSound DEF Fates
<1> QED BY <1>1, <1>2, <1>3, <1>4, SeatFields

(* A wake is only held behind a Run: the participant has one when it is. *)
LEMMA HoldIsSound ==
  ASSUME NEW a \in Seats, Sound(a), a.cur # NoRun,
         NEW c \in Conversations, NEW id \in Nat
  PROVE  Sound(Hold(a, c, id)) /\ Keeps(a, Hold(a, c, id))
<1> DEFINE slots == {i \in DOMAIN a.held : a.held[i].conv = c}
           mine  == [conv |-> c, id |-> id]
           more  == [a EXCEPT !.held = Append(@, mine)]
           same  == [i \in DOMAIN a.held |-> IF i \in slots THEN mine ELSE a.held[i]]
           put   == [a EXCEPT !.held = same]
<1>1. mine \in [conv : Conversations, id : Nat]
  OBVIOUS
<1>2. Append(a.held, mine) \in Seq([conv : Conversations, id : Nat])
  BY <1>1, SeatFields, SequenceTypes
<1>3. same \in Seq([conv : Conversations, id : Nat])
  <2>1. a.held \in Seq([conv : Conversations, id : Nat])
    BY SeatFields
  <2> HIDE DEF mine, slots
  <2> QED BY <1>1, <2>1
<1>4. Hold(a, c, id) = IF slots = {} THEN more
                       ELSE Stamp(put, {a.held[i].id : i \in slots}, "merged")
  BY DEF Hold
<1> HIDE DEF same, mine
<1>5. Sound(more) /\ Keeps(a, more)
  BY <1>2 DEF Sound, Keeps, Seats, BehindRun, Indexed
<1>6. Sound(put) /\ Keeps(a, put)
  BY <1>3 DEF Sound, Keeps, Seats, BehindRun, Indexed
<1> HIDE DEF slots, more, put
<1>7. Sound(Stamp(put, {a.held[i].id : i \in slots}, "merged"))
      /\ Keeps(a, Stamp(put, {a.held[i].id : i \in slots}, "merged"))
  BY <1>6, StampedIsSound DEF Fates
<1> QED BY <1>4, <1>5, <1>7

(* Admission keeps a seat sound, whatever its connector's cancelRun did. *)
LEMMA AdmitIsSound ==
  ASSUME NEW a \in Seats, Sound(a), NEW c \in Conversations, NEW id \in Nat,
         NEW cancel, cancel.seat \in Seats, Sound(cancel.seat), Keeps(a, cancel.seat)
  PROVE  Sound(Admit(a, c, id, cancel)) /\ Keeps(a, Admit(a, c, id, cancel))
<1> DEFINE s == cancel.seat
<1>1. CASE a.cur = NoRun \/ Policy[c] = "queue"
  BY <1>1, DeliverIsSound DEF Admit
<1>2. CASE a.cur # NoRun /\ Policy[c] = "reject"
  BY <1>2, StampIsSound DEF Admit, Fates
<1>3. CASE a.cur # NoRun /\ Policy[c] = "coalesce"
  BY <1>3, HoldIsSound DEF Admit
<1>4. CASE a.cur # NoRun /\ Policy[c] \notin {"queue", "reject", "coalesce"}
  <2>1. CASE ~cancel.cancelled
    BY <1>4, <2>1, StampIsSound DEF Admit, Preempt, Fates
  <2>2. CASE cancel.cancelled /\ s.cur = NoRun
    BY <1>4, <2>2, DeliverIsSound DEF Admit, Preempt, Keeps
  <2>3. CASE cancel.cancelled /\ s.cur # NoRun
    BY <1>4, <2>3, HoldIsSound DEF Admit, Preempt, Keeps
  <2> QED BY <2>1, <2>2, <2>3
<1> QED BY <1>1, <1>2, <1>3, <1>4

(* The arrival of a wake is recorded and changes nothing else. *)
LEMMA ArriveIsSound ==
  ASSUME NEW a \in Seats, Sound(a), NEW c \in Conversations
  PROVE  /\ Sound(Arrive(a, c)) /\ Arrive(a, c).up = a.up
         /\ Arrive(a, c).busy = a.busy /\ Arrive(a, c).cur = a.cur
         /\ Len(Arrive(a, c).wakes) \in Nat
<1> DEFINE ws == Append(a.wakes, [conv |-> c, fate |-> "held"])
<1>1. ws \in Seq(Wakes) /\ Len(ws) \in Nat
  <2>1. [conv |-> c, fate |-> "held"] \in Wakes
    BY DEF Wakes, Fates
  <2>2. a.wakes \in Seq(Wakes)
    BY SeatFields
  <2> QED BY <2>1, <2>2, SequenceTypes
<1>2. Arrive(a, c) = [a EXCEPT !.riding = TRUE, !.wakes = ws]
  BY DEF Arrive
<1> HIDE DEF ws
<1>3. [a EXCEPT !.riding = TRUE, !.wakes = ws] \in Seats
  BY <1>1 DEF Seats
<1>4. /\ Arrive(a, c).up = a.up /\ Arrive(a, c).busy = a.busy
      /\ Arrive(a, c).cur = a.cur /\ Arrive(a, c).open = a.open
      /\ Arrive(a, c).held = a.held /\ Arrive(a, c).wakes = ws
  BY <1>2 DEF Seats
<1> QED BY <1>1, <1>2, <1>3, <1>4 DEF Sound, BehindRun, Indexed
-----------------------------------------------------------------------------
(* A connector that opens late: no delivery of a release opens a Run, so the *)
(* registry's two indexes never part.                                        *)

\* The open Runs are the current one, and no Run is numbered ahead.
Serial(a) ==
  /\ a.open = IF a.cur = NoRun THEN {} ELSE {a.cur}
  /\ a.cur <= a.n

(* The part of a seat the registry owns is the same in both. *)
SameRuns(a, b) == b.cur = a.cur /\ b.open = a.open /\ b.n = a.n

(* A release that opens no Run: late connectors, and far ends that are gone. *)
LEMMA FireHeldSameRuns ==
  ASSUME NEW a \in Seats, OpensLate \/ ~a.up
  PROVE  SameRuns(a, FireHeld(a))
<1> DEFINE ids == HeldIds(a)
           all == [a EXCEPT !.held = <<>>]
<1>1. CASE a.held = <<>>
  BY <1>1 DEF FireHeld, SameRuns
<1>2. CASE a.held # <<>> /\ ~a.up
  <2>1. FireHeld(a) = Stamp(all, ids, "lost")
    BY <1>2 DEF FireHeld
  <2> HIDE DEF ids
  <2> QED BY <2>1 DEF Stamp, SameRuns, Seats
<1>3. CASE a.held # <<>> /\ a.up
  <2> DEFINE more == [i \in DOMAIN a.held |-> a.held[i].id]
             wired == [all EXCEPT !.wire = @ \o more]
  <2>1. FireHeld(a) = Stamp(wired, ids, "sent")
    BY <1>3 DEF FireHeld
  <2> HIDE DEF ids, more
  <2> QED BY <2>1 DEF Stamp, SameRuns, Seats
<1> QED BY <1>1, <1>2, <1>3, SeatFields

(* Settling a Run of a serial seat leaves none open, or changes nothing. *)
LEMMA SettleIsSerial ==
  ASSUME NEW a \in Seats, Serial(a), OpensLate, NEW r
  PROVE  /\ Serial(Settle(a, r)) /\ Settle(a, r).n = a.n
         /\ r = a.cur => Settle(a, r).cur = NoRun
         /\ r # a.cur => Settle(a, r) = a
<1> DEFINE f == Forget(a, r)
<1>1. CASE r \notin a.open
  BY <1>1 DEF Settle, Serial
<1>2. CASE r \in a.open
  <2>1. r = a.cur /\ a.cur # NoRun /\ a.n \in Nat
    BY <1>2, SeatFields DEF Serial
  <2>2. f \in Seats /\ f.cur = NoRun /\ f.open = {} /\ f.n = a.n
    BY <2>1, SeatFields DEF Forget, Seats, Serial, NoRun
  <2> HIDE DEF f
  <2>3. SameRuns(f, Release(f))
    BY <2>2, FireHeldSameRuns DEF Release, SameRuns
  <2>4. SameRuns(Release(f), EndChain(Release(f)))
    <3> DEFINE b == Release(f)
    <3>1. b \in Seats
      BY <2>2, FireHeldIsSound DEF Release, Sound, Indexed
    <3> HIDE DEF b
    <3> QED BY <3>1 DEF EndChain, SameRuns, Seats, b
  <2>5. Settle(a, r) = EndChain(Release(f))
    BY <1>2 DEF Settle, f
  <2> QED BY <2>1, <2>2, <2>3, <2>4, <2>5 DEF SameRuns, Serial, NoRun
<1> QED BY <1>1, <1>2

(* A serial seat has no Run open once its Run is settled. *)
LEMMA SettleOpenForIsSerial ==
  ASSUME NEW a \in Seats, Serial(a), OpensLate
  PROVE  /\ Serial(SettleOpenFor(a)) /\ SettleOpenFor(a).cur = NoRun
         /\ SettleOpenFor(a).open = {} /\ SettleOpenFor(a).n = a.n
BY SettleIsSerial DEF SettleOpenFor, Serial

(* The Run that is opened is the only one. *)
LEMMA OpenIsSerial ==
  ASSUME NEW a \in Seats, Sound(a), Serial(a), OpensLate
  PROVE  /\ Serial(Open(a)) /\ Open(a).n = a.n + 1
         /\ Open(a).cur = a.n + 1 /\ Open(a).open = {a.n + 1}
<1> DEFINE b == SettleOpenFor(a)
<1>1. b \in Seats /\ b.open = {} /\ b.n = a.n
  BY SettleOpenForIsSerial, SettleOpenForIsSound DEF Sound
<1>2. Open(a) = Register(b)
  BY DEF Open
<1> HIDE DEF b
<1>3. Open(a).n = a.n + 1 /\ Open(a).cur = a.n + 1 /\ Open(a).open = {a.n + 1}
  BY <1>1, <1>2 DEF Register, Seats
<1> QED BY <1>3, SeatFields DEF Serial, NoRun

(* No admission of a late connector opens a Run. *)
LEMMA AdmitIsSerial ==
  ASSUME NEW a \in Seats, Serial(a), OpensLate, NEW c \in Conversations, NEW id \in Nat,
         NEW cancel, cancel.seat \in Seats, Serial(cancel.seat), cancel.seat.n = a.n
  PROVE  /\ Serial(Admit(a, c, id, cancel)) /\ Admit(a, c, id, cancel).n = a.n
         /\ \/ Admit(a, c, id, cancel).open = a.open
            \/ Admit(a, c, id, cancel).open = cancel.seat.open
<1> DEFINE s == cancel.seat
<1>1. \A b \in Seats : SameRuns(b, Deliver(b, id))
  BY DEF Deliver, Stamp, SameRuns, Seats
<1>2. \A b \in Seats : SameRuns(b, Hold(b, c, id))
  BY DEF Hold, Stamp, SameRuns, Seats
<1>3. SameRuns(a, Stamp(a, {id}, "refused"))
  BY DEF Stamp, SameRuns, Seats
<1>4. \/ SameRuns(a, Admit(a, c, id, cancel))
      \/ SameRuns(s, Admit(a, c, id, cancel))
  BY <1>1, <1>2, <1>3 DEF Admit, Preempt
<1> QED BY <1>4 DEF SameRuns, Serial

-----------------------------------------------------------------------------
(* A far end that is gone: whatever is released goes nowhere. *)

(* Once its Run is settled, a participant nobody can reach has none. *)
LEMMA SettleWithoutFarEnd ==
  ASSUME NEW a \in Seats, Sound(a), ~a.up
  PROVE  SettleOpenFor(a).cur = NoRun
<1> DEFINE f == Forget(a, a.cur)
<1>1. CASE a.cur = NoRun
  BY <1>1 DEF SettleOpenFor
<1>2. CASE a.cur # NoRun
  <2>1. f \in Seats /\ f.cur = NoRun /\ ~f.up
    BY <1>2, SeatFields DEF Forget, Seats, NoRun
  <2> HIDE DEF f
  <2>2. Release(f) \in Seats /\ Release(f).cur = NoRun
    BY <2>1, FireHeldSameRuns, FireHeldIsSound DEF Release, SameRuns, Sound, Indexed
  <2>3. EndChain(Release(f)).cur = NoRun
    <3> DEFINE b == Release(f)
    <3> HIDE DEF b
    <3> QED BY <2>2 DEF EndChain, Seats, b
  <2>4. SettleOpenFor(a) = EndChain(Release(f))
    BY <1>2 DEF SettleOpenFor, Settle, Sound, Indexed, f
  <2> QED BY <2>3, <2>4
<1> QED BY <1>1, <1>2

(* A wake for an idle participant nobody can reach opens no Run. *)
LEMMA AdmitWithoutFarEnd ==
  ASSUME NEW a \in Seats, ~a.up, a.cur = NoRun, NEW c, NEW id, NEW cancel
  PROVE  Admit(a, c, id, cancel).cur = NoRun
BY DEF Admit, Deliver, Stamp, Seats
-----------------------------------------------------------------------------
(* The history: what becomes of a wake is stamped, nothing is recorded twice. *)

\* The same wakes are on record.
SameHistory(a, b) == DOMAIN b.wakes = DOMAIN a.wakes

(* Stamping records no wake. *)
LEMMA StampSameHistory ==
  ASSUME NEW a \in Seats, NEW ids, NEW f
  PROVE  SameHistory(a, Stamp(a, ids, f))
BY DEF Stamp, SameHistory, Seats

(* A release records no wake. *)
LEMMA FireHeldSameHistory ==
  ASSUME NEW a \in Seats
  PROVE  SameHistory(a, FireHeld(a))
<1> DEFINE all == [a EXCEPT !.held = <<>>]
           ids == HeldIds(a)
<1>1. CASE a.held = <<>>
  BY <1>1 DEF FireHeld, SameHistory
<1>2. CASE a.held # <<>> /\ ~a.up
  <2>1. FireHeld(a) = Stamp(all, ids, "lost")
    BY <1>2 DEF FireHeld
  <2> HIDE DEF ids
  <2> QED BY <2>1 DEF Stamp, SameHistory, Seats
<1>3. CASE a.held # <<>> /\ a.up /\ OpensLate
  <2> DEFINE more == [i \in DOMAIN a.held |-> a.held[i].id]
  <2>1. FireHeld(a) = Stamp([all EXCEPT !.wire = @ \o more], ids, "sent")
    BY <1>3 DEF FireHeld
  <2> HIDE DEF ids, more
  <2> QED BY <2>1 DEF Stamp, SameHistory, Seats
<1>4. CASE a.held # <<>> /\ a.up /\ ~OpensLate /\ a.busy
  <2>1. FireHeld(a) = Stamp(all, ids, "sent")
    BY <1>4 DEF FireHeld
  <2> HIDE DEF ids
  <2> QED BY <2>1 DEF Stamp, SameHistory, Seats
<1>5. CASE a.held # <<>> /\ a.up /\ ~OpensLate /\ ~a.busy
  <2> DEFINE rest == Tail(a.held)
             one  == {Head(a.held).id}
  <2>1. FireHeld(a) = Stamp(Start(Register([a EXCEPT !.held = rest])), one, "sent")
    BY <1>5 DEF FireHeld
  <2> HIDE DEF rest, one
  <2> QED BY <2>1 DEF Stamp, Start, Register, SameHistory, Seats
<1> QED BY <1>1, <1>2, <1>3, <1>4, <1>5, SeatFields

(* Nor does settling a Run. *)
LEMMA SettleSameHistory ==
  ASSUME NEW a \in Seats, Sound(a), NEW r
  PROVE  SameHistory(a, Settle(a, r))
<1> DEFINE f == Forget(a, r)
           b == Release(f)
<1>1. CASE r \notin a.open
  BY <1>1 DEF Settle, SameHistory
<1>2. CASE r \in a.open
  <2>1. f \in Seats /\ Indexed(f) /\ f.wakes = a.wakes
    BY SeatFields DEF Forget, Seats, Sound, Indexed, NoRun
  <2>2. Settle(a, r) = EndChain(b)
    BY <1>2 DEF Settle
  <2> HIDE DEF f
  <2>3. b \in Seats /\ SameHistory(f, b)
    BY <2>1, FireHeldSameHistory, FireHeldIsSound DEF Release, Sound, SameHistory
  <2> HIDE DEF b
  <2>4. SameHistory(b, EndChain(b))
    BY <2>3 DEF EndChain, SameHistory, Seats
  <2> QED BY <2>1, <2>2, <2>3, <2>4 DEF SameHistory
<1> QED BY <1>1, <1>2

(* Nor does opening one. *)
LEMMA OpenSameHistory ==
  ASSUME NEW a \in Seats, Sound(a)
  PROVE  SameHistory(a, Open(a))
<1> DEFINE b == SettleOpenFor(a)
<1>1. b \in Seats
  BY SettleOpenForIsSound DEF Sound
<1>2. SameHistory(a, b)
  BY SettleSameHistory DEF SettleOpenFor, SameHistory
<1>3. Open(a) = Register(b)
  BY DEF Open
<1> HIDE DEF b
<1>4. SameHistory(b, Register(b))
  BY <1>1 DEF Register, SameHistory, Seats
<1> QED BY <1>2, <1>3, <1>4 DEF SameHistory

(* Nor does a delivery. *)
LEMMA DeliverSameHistory ==
  ASSUME NEW a \in Seats, Sound(a), NEW id \in Nat
  PROVE  SameHistory(a, Deliver(a, id))
<1>1. CASE ~a.up \/ OpensLate \/ a.busy
  BY <1>1 DEF Deliver, Stamp, SameHistory, Seats
<1>2. CASE ~(~a.up \/ OpensLate \/ a.busy)
  <2> DEFINE b == Open(a)
  <2>1. b \in Seats /\ SameHistory(a, b)
    BY OpenSameHistory, OpenIsSound DEF Sound
  <2>2. Deliver(a, id) = Stamp(Start(b), {id}, "sent")
    BY <1>2 DEF Deliver
  <2> HIDE DEF b
  <2> QED BY <2>1, <2>2 DEF Stamp, Start, SameHistory, Seats
<1> QED BY <1>1, <1>2

(* An admission stamps the wake that arrived, and those it touches. *)
LEMMA AdmitSameHistory ==
  ASSUME NEW a \in Seats, Sound(a), NEW c \in Conversations, NEW id \in Nat,
         NEW cancel, cancel.seat \in Seats, Sound(cancel.seat), SameHistory(a, cancel.seat)
  PROVE  SameHistory(a, Admit(a, c, id, cancel))
<1>1. \A b \in Seats : SameHistory(b, Hold(b, c, id))
  BY DEF Hold, Stamp, SameHistory, Seats
<1> QED BY <1>1, DeliverSameHistory, StampSameHistory DEF Admit, Preempt, SameHistory

(* A wake that arrives is recorded. *)
LEMMA ArriveHistory ==
  ASSUME NEW a \in Seats, NEW c \in Conversations
  PROVE  DOMAIN Arrive(a, c).wakes # DOMAIN a.wakes
<1> DEFINE ws == Append(a.wakes, [conv |-> c, fate |-> "held"])
<1>1. Arrive(a, c).wakes = ws
  BY DEF Arrive, Seats
<1>2. a.wakes \in Seq(Wakes) /\ Len(a.wakes) \in Nat
  BY SeatFields
<1>3. Len(ws) = Len(a.wakes) + 1 /\ DOMAIN ws = 1 .. Len(ws) /\ DOMAIN a.wakes = 1 .. Len(a.wakes)
  BY <1>2
<1>4. Len(a.wakes) + 1 \in DOMAIN ws /\ Len(a.wakes) + 1 \notin DOMAIN a.wakes
  BY <1>2, <1>3
<1> QED BY <1>1, <1>4
-----------------------------------------------------------------------------
(* What the senders are told: the wakes that wait are the ones on record as *)
(* waiting.                                                                 *)

\* A history in which some wakes were stamped.
Restamped(ws, ids, f) ==
  [i \in DOMAIN ws |-> IF i \in ids THEN [ws[i] EXCEPT !.fate = f] ELSE ws[i]]

\* The wakes held back are those whose fate is still open, one of a Conversation,
\* and of a Conversation whose policy holds wakes back; arriving is the wake that
\* is being admitted (or 0).
Recorded(a, arriving) ==
  /\ \A k \in DOMAIN a.held :
       /\ a.held[k].id \in DOMAIN a.wakes /\ a.held[k].id # arriving
       /\ a.wakes[a.held[k].id].fate = "held"
       /\ a.wakes[a.held[k].id].conv = a.held[k].conv
       /\ Policy[a.held[k].conv] \in {"coalesce", "preempt"}
  /\ \A i \in DOMAIN a.wakes : a.wakes[i].fate = "held" /\ i # arriving => i \in HeldIds(a)
  /\ \A k, l \in DOMAIN a.held : a.held[k].conv = a.held[l].conv => k = l

\* Some of the wakes held back were passed on together, or dropped for want of a
\* far end.
Passed(a, b) ==
  \E ids \in SUBSET HeldIds(a) :
    b.wakes = Restamped(a.wakes, ids, IF a.up THEN "sent" ELSE "lost")

(* Stamping a history changes fates and nothing else. *)
LEMMA RestampedFacts ==
  ASSUME NEW ws \in Seq(Wakes), NEW ids, NEW f \in Fates
  PROVE  /\ Restamped(ws, ids, f) \in Seq(Wakes)
         /\ Len(Restamped(ws, ids, f)) = Len(ws)
         /\ DOMAIN Restamped(ws, ids, f) = DOMAIN ws
         /\ \A i \in DOMAIN ws :
              /\ Restamped(ws, ids, f)[i].conv = ws[i].conv
              /\ Restamped(ws, ids, f)[i].fate = IF i \in ids THEN f ELSE ws[i].fate
<1>1. \A i \in DOMAIN ws : ws[i] \in Wakes
  OBVIOUS
<1>2. \A i \in DOMAIN ws : [ws[i] EXCEPT !.fate = f] \in Wakes
  BY <1>1 DEF Wakes
<1>3. DOMAIN Restamped(ws, ids, f) = 1 .. Len(ws) /\ Len(ws) \in Nat
  BY DEF Restamped
<1>4. Restamped(ws, ids, f) \in Seq(Wakes)
  BY <1>1, <1>2, <1>3 DEF Restamped
<1>5. Len(Restamped(ws, ids, f)) = Len(ws)
  BY <1>3, <1>4
<1>6. \A i \in DOMAIN ws :
        /\ Restamped(ws, ids, f)[i].conv = ws[i].conv
        /\ Restamped(ws, ids, f)[i].fate = IF i \in ids THEN f ELSE ws[i].fate
  BY <1>1 DEF Restamped, Wakes
<1> QED BY <1>3, <1>4, <1>5, <1>6

(* Stamping no wake changes nothing. *)
LEMMA RestampedNone ==
  ASSUME NEW ws \in Seq(Wakes), NEW f
  PROVE  Restamped(ws, {}, f) = ws
BY DEF Restamped

(* A stamp of a seat is a stamp of its history. *)
LEMMA StampHistory ==
  ASSUME NEW a \in Seats, NEW ids, NEW f \in Fates
  PROVE  /\ Stamp(a, ids, f) \in Seats /\ Stamp(a, ids, f).held = a.held
         /\ Stamp(a, ids, f).up = a.up
         /\ Stamp(a, ids, f).wakes = Restamped(a.wakes, ids, f)
<1> DEFINE ws == Restamped(a.wakes, ids, f)
<1>1. Stamp(a, ids, f) = [a EXCEPT !.wakes = ws]
  BY DEF Stamp, Restamped
<1> HIDE DEF ws
<1>2. Stamp(a, ids, f).wakes = ws
  BY <1>1 DEF Seats
<1> QED BY <1>2, StampIsSound DEF ws

(* Whether a seat is on record is a matter of its held wakes and its history. *)
LEMMA RecordedSame ==
  ASSUME NEW a, NEW b, NEW x, Recorded(a, x), b.held = a.held, b.wakes = a.wakes
  PROVE  Recorded(b, x)
BY DEF Recorded, HeldIds

(* Every wake held back leaves. *)
LEMMA AllPassed ==
  ASSUME NEW a \in Seats, NEW b \in Seats, NEW x, Recorded(a, x), NEW f \in {"sent", "lost"},
         b.held = <<>>, b.wakes = Restamped(a.wakes, HeldIds(a), f)
  PROVE  Recorded(b, x)
<1>1. /\ DOMAIN b.wakes = DOMAIN a.wakes
      /\ \A i \in DOMAIN a.wakes :
           b.wakes[i].fate = IF i \in HeldIds(a) THEN f ELSE a.wakes[i].fate
  BY SeatFields, RestampedFacts DEF Fates
<1>2. DOMAIN b.held = {} /\ HeldIds(b) = {}
  BY DEF HeldIds
<1>3. \A i \in DOMAIN b.wakes : b.wakes[i].fate = "held" => i = x
  BY <1>1 DEF Recorded
<1> QED BY <1>2, <1>3 DEF Recorded

(* The first of them leaves. *)
LEMMA FirstPassed ==
  ASSUME NEW a \in Seats, NEW b \in Seats, NEW x, Recorded(a, x), NEW f \in {"sent", "lost"},
         a.held # <<>>, b.held = Tail(a.held),
         b.wakes = Restamped(a.wakes, {Head(a.held).id}, f)
  PROVE  Recorded(b, x)
<1> DEFINE first == a.held[1].id
<1>1. /\ DOMAIN b.wakes = DOMAIN a.wakes
      /\ \A i \in DOMAIN a.wakes :
           /\ b.wakes[i].fate = IF i = first THEN f ELSE a.wakes[i].fate
           /\ b.wakes[i].conv = a.wakes[i].conv
  <2>1. Head(a.held).id = first
    BY SeatFields
  <2> HIDE DEF first
  <2>2. b.wakes = Restamped(a.wakes, {first}, f)
    BY <2>1
  <2>3. a.wakes \in Seq(Wakes) /\ f \in Fates
    BY SeatFields DEF Fates
  <2>4. \A i : i \in {first} <=> i = first
    OBVIOUS
  <2> QED BY <2>2, <2>3, <2>4, RestampedFacts
<1>2. /\ a.held \in Seq(Entries) /\ Len(a.held) \in Nat /\ DOMAIN a.held = 1 .. Len(a.held)
      /\ Len(a.held) > 0
  <2>1. a.held \in Seq(Entries)
    BY HeldTypes
  <2> QED BY <2>1
<1>3. /\ DOMAIN b.held = 1 .. (Len(a.held) - 1)
      /\ \A k \in DOMAIN b.held : k + 1 \in DOMAIN a.held /\ b.held[k] = a.held[k + 1]
  BY <1>2
<1>4. \A k \in DOMAIN a.held : k # 1 => a.held[k].id # first
  BY <1>2 DEF Recorded
<1> HIDE DEF first
<1>5. \A k \in DOMAIN b.held :
       /\ b.held[k].id \in DOMAIN b.wakes /\ b.held[k].id # x
       /\ b.wakes[b.held[k].id].fate = "held"
       /\ b.wakes[b.held[k].id].conv = b.held[k].conv
       /\ Policy[b.held[k].conv] \in {"coalesce", "preempt"}
  <2> SUFFICES ASSUME NEW k \in DOMAIN b.held
               PROVE  /\ b.held[k].id \in DOMAIN b.wakes /\ b.held[k].id # x
                      /\ b.wakes[b.held[k].id].fate = "held"
                      /\ b.wakes[b.held[k].id].conv = b.held[k].conv
                      /\ Policy[b.held[k].conv] \in {"coalesce", "preempt"}
    OBVIOUS
  <2> DEFINE e == a.held[k + 1]
  <2>1. b.held[k] = e /\ k + 1 \in DOMAIN a.held /\ k + 1 # 1
    BY <1>2, <1>3
  <2>2. /\ e.id \in DOMAIN a.wakes /\ e.id # x /\ e.id # first
        /\ a.wakes[e.id].fate = "held" /\ a.wakes[e.id].conv = e.conv
        /\ Policy[e.conv] \in {"coalesce", "preempt"}
    BY <2>1, <1>4 DEF Recorded
  <2> HIDE DEF e
  <2> QED BY <2>1, <2>2, <1>1
<1>6. ASSUME NEW i \in DOMAIN b.wakes, b.wakes[i].fate = "held", i # x
      PROVE  i \in HeldIds(b)
  <2>1. i # first /\ i \in HeldIds(a)
    BY <1>1, <1>6 DEF Recorded
  <2>2. PICK k \in DOMAIN a.held : a.held[k].id = i
    BY <2>1 DEF HeldIds
  <2>3. k # 1
    BY <2>1, <2>2 DEF first
  <2>4. k - 1 \in DOMAIN b.held /\ b.held[k - 1] = a.held[k]
    BY <1>2, <1>3, <2>3
  <2> QED BY <2>2, <2>4 DEF HeldIds
<1>7. ASSUME NEW k \in DOMAIN b.held, NEW l \in DOMAIN b.held, b.held[k].conv = b.held[l].conv
      PROVE  k = l
  <2>1. k \in Nat /\ l \in Nat /\ k + 1 \in DOMAIN a.held /\ l + 1 \in DOMAIN a.held
    BY <1>2, <1>3
  <2>2. a.held[k + 1].conv = a.held[l + 1].conv
    BY <1>2, <1>3, <1>7
  <2>3. k + 1 = l + 1
    BY <2>1, <2>2 DEF Recorded
  <2> QED BY <2>1, <2>3
<1> QED BY <1>5, <1>6, <1>7 DEF Recorded

(* A release passes on every wake held back, or the first of them. *)
LEMMA FireHeldPasses ==
  ASSUME NEW a \in Seats, Indexed(a), NEW x, Recorded(a, x)
  PROVE  Recorded(FireHeld(a), x) /\ Passed(a, FireHeld(a))
<1> DEFINE ids == HeldIds(a)
           all == [a EXCEPT !.held = <<>>]
           b   == FireHeld(a)
<1>1. b \in Seats
  BY FireHeldIsSound DEF Sound
<1>2. all \in Seats /\ all.held = <<>> /\ all.wakes = a.wakes /\ all.wire = a.wire
  <2>1. <<>> \in Seq([conv : Conversations, id : Nat])
    OBVIOUS
  <2> QED BY <2>1 DEF Seats
<1>3. CASE a.held = <<>>
  <2>1. b = a
    BY <1>3 DEF FireHeld
  <2>2. Restamped(a.wakes, {}, IF a.up THEN "sent" ELSE "lost") = a.wakes
    BY SeatFields, RestampedNone
  <2> HIDE DEF all, ids, b
  <2>3. Recorded(b, x)
    BY <2>1
  <2>4. {} \in SUBSET HeldIds(a) /\ b.wakes = Restamped(a.wakes, {}, IF a.up THEN "sent" ELSE "lost")
    BY <2>1, <2>2
  <2> QED BY <2>3, <2>4 DEF Passed, b
<1>4. CASE a.held # <<>> /\ ~a.up
  <2>1. b = Stamp(all, ids, "lost")
    BY <1>4 DEF FireHeld
  <2> HIDE DEF all, ids, b
  <2>2. b.held = <<>> /\ b.wakes = Restamped(a.wakes, ids, "lost")
    BY <2>1, <1>2, StampHistory DEF Fates
  <2>3. Recorded(b, x)
    BY <2>2, <1>1, AllPassed DEF ids
  <2> QED BY <2>2, <2>3, <1>4 DEF Passed, ids, b
<1>5. CASE a.held # <<>> /\ a.up /\ OpensLate
  <2> DEFINE more  == [i \in DOMAIN a.held |-> a.held[i].id]
             wires == all.wire \o more
             wired == [all EXCEPT !.wire = wires]
  <2>1. b = Stamp(wired, ids, "sent")
    BY <1>5 DEF FireHeld
  <2>2. wires \in Seq(Nat)
    <3>1. more \in Seq(Nat) /\ all.wire \in Seq(Nat)
      BY <1>2, HeldTypes, SeatFields
    <3> HIDE DEF more, all
    <3> QED BY <3>1
  <2> HIDE DEF wires, all
  <2>3. wired \in Seats /\ wired.held = <<>> /\ wired.wakes = a.wakes
    BY <2>2, <1>2 DEF Seats
  <2> HIDE DEF wired, ids, b
  <2>4. b.held = <<>> /\ b.wakes = Restamped(a.wakes, ids, "sent")
    BY <2>1, <2>3, StampHistory DEF Fates
  <2>5. Recorded(b, x)
    BY <2>4, <1>1, AllPassed DEF ids
  <2> QED BY <2>4, <2>5, <1>5 DEF Passed, ids, b
<1>6. CASE a.held # <<>> /\ a.up /\ ~OpensLate /\ a.busy
  <2>1. b = Stamp(all, ids, "sent")
    BY <1>6 DEF FireHeld
  <2> HIDE DEF all, ids, b
  <2>2. b.held = <<>> /\ b.wakes = Restamped(a.wakes, ids, "sent")
    BY <2>1, <1>2, StampHistory DEF Fates
  <2>3. Recorded(b, x)
    BY <2>2, <1>1, AllPassed DEF ids
  <2> QED BY <2>2, <2>3, <1>6 DEF Passed, ids, b
<1>7. CASE a.held # <<>> /\ a.up /\ ~OpensLate /\ ~a.busy
  <2> DEFINE rest == Tail(a.held)
             one  == {Head(a.held).id}
             tail == [a EXCEPT !.held = rest]
             s    == Start(Register(tail))
  <2>1. b = Stamp(s, one, "sent")
    BY <1>7 DEF FireHeld
  <2>2. rest \in Seq([conv : Conversations, id : Nat])
    BY <1>7, SeatFields, RestTypes
  <2> HIDE DEF rest
  <2>3. tail \in Seats /\ tail.held = rest /\ tail.wakes = a.wakes
    BY <2>2 DEF Seats
  <2> HIDE DEF tail
  <2>4. s \in Seats /\ s.held = rest /\ s.wakes = a.wakes
    <3>1. Register(tail) \in Seats
      BY <2>3, RegisterIsSound DEF Sound
    <3>2. Register(tail).held = rest /\ Register(tail).wakes = a.wakes
      BY <2>3 DEF Register, Seats
    <3> DEFINE r == Register(tail)
    <3> HIDE DEF r
    <3>3. Start(r) \in Seats /\ Start(r).held = rest /\ Start(r).wakes = a.wakes
      BY <3>1, <3>2, StartIsSound DEF Start, Seats, r
    <3> QED BY <3>3 DEF r
  <2> HIDE DEF s, one, b
  <2>5. b.held = Tail(a.held) /\ b.wakes = Restamped(a.wakes, one, "sent")
    BY <2>1, <2>4, StampHistory DEF Fates, rest
  <2>6. Recorded(b, x)
    BY <2>5, <1>1, <1>7, FirstPassed DEF one
  <2>7. one \in SUBSET HeldIds(a)
    <3>1. a.held \in Seq([conv : Conversations, id : Nat])
      BY SeatFields
    <3>2. 1 \in DOMAIN a.held /\ Head(a.held) = a.held[1]
      BY <3>1, <1>7
    <3> QED BY <3>2 DEF one, HeldIds
  <2> QED BY <2>5, <2>6, <2>7, <1>7 DEF Passed, b
<1> QED BY <1>3, <1>4, <1>5, <1>6, <1>7, SeatFields

(* Settling whatever Run is open passes them on, or holds them on. *)
LEMMA SettleOpenForPasses ==
  ASSUME NEW a \in Seats, Sound(a), NEW x, Recorded(a, x)
  PROVE  Recorded(SettleOpenFor(a), x) /\ Passed(a, SettleOpenFor(a))
<1> DEFINE f == Forget(a, a.cur)
           b == FireHeld(f)
<1>1. CASE a.cur = NoRun
  <2>1. Restamped(a.wakes, {}, IF a.up THEN "sent" ELSE "lost") = a.wakes
    BY SeatFields, RestampedNone
  <2> QED BY <1>1, <2>1 DEF SettleOpenFor, Passed
<1>2. CASE a.cur # NoRun
  <2>1. f \in Seats /\ f.cur = NoRun /\ f.held = a.held /\ f.wakes = a.wakes /\ f.up = a.up
    BY <1>2, SeatFields DEF Forget, Seats, NoRun
  <2>2. SettleOpenFor(a) = EndChain(b)
    BY <1>2, <2>1 DEF SettleOpenFor, Settle, Release, Sound, Indexed
  <2> HIDE DEF f
  <2>3. Recorded(f, x) /\ Indexed(f) /\ HeldIds(f) = HeldIds(a)
    BY <2>1, RecordedSame DEF Indexed, HeldIds
  <2>4. Recorded(b, x) /\ Passed(f, b) /\ b \in Seats
    BY <2>1, <2>3, FireHeldPasses, FireHeldIsSound DEF Sound
  <2> HIDE DEF b
  <2>5. EndChain(b).held = b.held /\ EndChain(b).wakes = b.wakes
    BY <2>4 DEF EndChain, Seats
  <2> HIDE DEF EndChain
  <2>6. Recorded(EndChain(b), x)
    BY <2>4, <2>5, RecordedSame
  <2> QED BY <2>1, <2>2, <2>3, <2>4, <2>5, <2>6 DEF Passed
<1> QED BY <1>1, <1>2

(* So does opening one, which settles the one before. *)
LEMMA OpenPasses ==
  ASSUME NEW a \in Seats, Sound(a), NEW x, Recorded(a, x)
  PROVE  Recorded(Open(a), x) /\ Passed(a, Open(a))
<1> DEFINE b == SettleOpenFor(a)
<1>1. b \in Seats /\ Recorded(b, x) /\ Passed(a, b)
  BY SettleOpenForIsSound, SettleOpenForPasses DEF Sound
<1>2. Open(a) = Register(b)
  BY DEF Open
<1> HIDE DEF b
<1>3. Register(b).held = b.held /\ Register(b).wakes = b.wakes
  BY <1>1 DEF Register, Seats
<1> HIDE DEF Register
<1>4. Recorded(Register(b), x)
  BY <1>1, <1>3, RecordedSame
<1> QED BY <1>1, <1>2, <1>3, <1>4 DEF Passed

(* The wake that is being admitted gets its answer. *)
LEMMA AnswerIsRecorded ==
  ASSUME NEW b \in Seats, NEW x \in DOMAIN b.wakes, Recorded(b, x),
         NEW f \in {"sent", "refused"}
  PROVE  Recorded(Stamp(b, {x}, f), 0)
<1> DEFINE s == Stamp(b, {x}, f)
<1>1. s.held = b.held /\ s.wakes = Restamped(b.wakes, {x}, f)
  BY StampHistory DEF Fates
<1>2. b.wakes \in Seq(Wakes) /\ f \in Fates
  BY SeatFields DEF Fates
<1> HIDE DEF s
<1>3. /\ DOMAIN s.wakes = DOMAIN b.wakes
      /\ \A i \in DOMAIN b.wakes :
           /\ s.wakes[i].fate = IF i \in {x} THEN f ELSE b.wakes[i].fate
           /\ s.wakes[i].conv = b.wakes[i].conv
  BY <1>1, <1>2, RestampedFacts
<1>4. \A i \in DOMAIN b.wakes : i # 0
  BY <1>2
<1>5. HeldIds(s) = HeldIds(b)
  BY <1>1 DEF HeldIds
<1>6. \A k \in DOMAIN s.held :
        /\ s.held[k].id \in DOMAIN s.wakes /\ s.held[k].id # 0
        /\ s.wakes[s.held[k].id].fate = "held"
        /\ s.wakes[s.held[k].id].conv = s.held[k].conv
        /\ Policy[s.held[k].conv] \in {"coalesce", "preempt"}
  <2> SUFFICES ASSUME NEW k \in DOMAIN s.held
               PROVE  /\ s.held[k].id \in DOMAIN s.wakes /\ s.held[k].id # 0
                      /\ s.wakes[s.held[k].id].fate = "held"
                      /\ s.wakes[s.held[k].id].conv = s.held[k].conv
                      /\ Policy[s.held[k].conv] \in {"coalesce", "preempt"}
    OBVIOUS
  <2> DEFINE e == b.held[k]
  <2>1. /\ e.id \in DOMAIN b.wakes /\ e.id \notin {x}
        /\ b.wakes[e.id].fate = "held" /\ b.wakes[e.id].conv = e.conv
        /\ Policy[e.conv] \in {"coalesce", "preempt"}
    BY <1>1 DEF Recorded
  <2>2. s.held[k] = e
    BY <1>1
  <2> HIDE DEF e
  <2> QED BY <2>1, <2>2, <1>3, <1>4
<1>7. \A i \in DOMAIN s.wakes : s.wakes[i].fate = "held" /\ i # 0 => i \in HeldIds(s)
  BY <1>3, <1>5 DEF Recorded
<1>8. \A k, l \in DOMAIN s.held : s.held[k].conv = s.held[l].conv => k = l
  BY <1>1 DEF Recorded
<1>9. Recorded(s, 0)
  BY <1>6, <1>7, <1>8 DEF Recorded
<1> QED BY <1>9 DEF s

\* A wake was handed over, after some that were held back.
HandedOn(a, b, x) ==
  \E ids \in SUBSET HeldIds(a) :
    b.wakes = Restamped(Restamped(a.wakes, ids, "sent"), {x}, "sent")

(* A delivery is refused, or hands the wake over. *)
LEMMA DeliverAnswers ==
  ASSUME NEW a \in Seats, Sound(a), NEW x \in DOMAIN a.wakes, Recorded(a, x)
  PROVE  /\ Recorded(Deliver(a, x), 0)
         /\ IF a.up THEN HandedOn(a, Deliver(a, x), x)
            ELSE Deliver(a, x).wakes = Restamped(a.wakes, {x}, "refused")
<1>0. a.wakes \in Seq(Wakes) /\ x \in Nat
  <2>1. a.wakes \in Seq(Wakes)
    BY SeatFields
  <2> QED BY <2>1
<1>1. CASE ~a.up
  BY <1>1, AnswerIsRecorded, StampHistory DEF Deliver, Fates
<1>2. ASSUME a.up, NEW b \in Seats, Recorded(b, x), Passed(a, b), Deliver(a, x) = Stamp(b, {x}, "sent")
      PROVE  Recorded(Deliver(a, x), 0) /\ HandedOn(a, Deliver(a, x), x)
  <2>1. PICK ids \in SUBSET HeldIds(a) : b.wakes = Restamped(a.wakes, ids, "sent")
    BY <1>2 DEF Passed
  <2>2. x \in DOMAIN b.wakes
    BY <2>1 DEF Restamped
  <2>3. Deliver(a, x).wakes = Restamped(b.wakes, {x}, "sent")
    BY <1>2, StampHistory DEF Fates
  <2> QED BY <1>2, <2>1, <2>2, <2>3, AnswerIsRecorded DEF HandedOn
<1>3. Passed(a, a)
  BY <1>0, RestampedNone DEF Passed
<1>4. CASE a.up /\ OpensLate
  <2> DEFINE w == Append(a.wire, x)
             b == [a EXCEPT !.wire = w]
  <2>1. w \in Seq(Nat)
    BY <1>0, SeatFields
  <2>2. Deliver(a, x) = Stamp(b, {x}, "sent")
    BY <1>4 DEF Deliver
  <2> HIDE DEF w
  <2>3. b \in Seats /\ b.held = a.held /\ b.wakes = a.wakes
    BY <2>1 DEF Seats
  <2> HIDE DEF b
  <2>4. Recorded(b, x) /\ Passed(a, b)
    BY <1>3, <2>3, RecordedSame DEF Passed
  <2> QED BY <1>2, <1>4, <2>2, <2>3, <2>4
<1>5. CASE a.up /\ ~OpensLate /\ a.busy
  <2>1. Deliver(a, x) = Stamp(a, {x}, "sent")
    BY <1>5 DEF Deliver
  <2> QED BY <1>2, <1>3, <1>5, <2>1
<1>6. CASE a.up /\ ~OpensLate /\ ~a.busy
  <2> DEFINE o == Open(a)
             b == Start(o)
  <2>1. Deliver(a, x) = Stamp(b, {x}, "sent")
    BY <1>6 DEF Deliver
  <2>2. o \in Seats /\ Recorded(o, x) /\ Passed(a, o)
    BY OpenIsSound, OpenPasses DEF Sound
  <2> HIDE DEF o
  <2>3. b \in Seats /\ b.held = o.held /\ b.wakes = o.wakes
    BY <2>2, StartIsSound DEF Start, Seats
  <2> HIDE DEF b
  <2>4. Recorded(b, x) /\ Passed(a, b)
    BY <2>2, <2>3, RecordedSame DEF Passed
  <2> QED BY <1>2, <1>6, <2>1, <2>3, <2>4
<1> QED BY <1>1, <1>2, <1>4, <1>5, <1>6, SeatFields

(* A wake that is held back takes the place of the one its Conversation has. *)
LEMMA HoldAnswers ==
  ASSUME NEW a \in Seats, NEW c \in Conversations, Policy[c] \in {"coalesce", "preempt"},
         NEW x \in DOMAIN a.wakes, a.wakes[x] = [conv |-> c, fate |-> "held"], Recorded(a, x)
  PROVE  /\ Recorded(Hold(a, c, x), 0)
         /\ Hold(a, c, x).wakes =
              Restamped(a.wakes, {i \in HeldIds(a) : a.wakes[i].conv = c}, "merged")
<1> DEFINE slots == {i \in DOMAIN a.held : a.held[i].conv = c}
           mine  == [conv |-> c, id |-> x]
           ids   == {i \in HeldIds(a) : a.wakes[i].conv = c}
           b     == Hold(a, c, x)
<1>1. /\ a.wakes \in Seq(Wakes) /\ x \in Nat /\ x # 0 /\ \A i \in DOMAIN a.wakes : i # 0
      /\ a.held \in Seq(Entries) /\ mine \in Entries
  <2>1. a.wakes \in Seq(Wakes) /\ a.held \in Seq(Entries)
    BY SeatFields, HeldTypes
  <2>2. x \in Nat /\ x # 0 /\ \A i \in DOMAIN a.wakes : i # 0
    BY <2>1
  <2> QED BY <2>1, <2>2 DEF Entries
<1>2. \A k \in DOMAIN a.held :
        /\ a.held[k].id \in DOMAIN a.wakes /\ a.held[k].id # x /\ a.held[k].id \in HeldIds(a)
        /\ a.wakes[a.held[k].id].fate = "held"
        /\ a.wakes[a.held[k].id].conv = a.held[k].conv
        /\ Policy[a.held[k].conv] \in {"coalesce", "preempt"}
  BY DEF Recorded, HeldIds
<1>3. x \notin ids /\ mine.conv = c /\ mine.id = x
  BY <1>2 DEF HeldIds
<1>4. CASE slots = {}
  <2> DEFINE more == Append(a.held, mine)
  <2>1. b = [a EXCEPT !.held = more]
    BY <1>4 DEF Hold
  <2>2. /\ more \in Seq(Entries) /\ DOMAIN more = 1 .. (Len(a.held) + 1)
        /\ DOMAIN a.held = 1 .. Len(a.held) /\ Len(a.held) \in Nat
        /\ more[Len(a.held) + 1] = mine
        /\ \A k \in DOMAIN a.held : more[k] = a.held[k]
    <3> HIDE DEF mine
    <3> QED BY <1>1
  <2> HIDE DEF more, mine, b
  <2>3. b.held = more /\ b.wakes = a.wakes
    BY <2>1 DEF Seats
  <2>4. ids = {}
    BY <1>2, <1>4 DEF HeldIds
  <2>5. b.wakes = Restamped(a.wakes, ids, "merged")
    BY <2>3, <2>4, <1>1, RestampedNone
  <2>6. \A k \in DOMAIN more : k = Len(a.held) + 1 \/ k \in DOMAIN a.held
    BY <2>2
  <2>7. Len(a.held) + 1 \in DOMAIN more /\ \A k \in DOMAIN a.held : k \in DOMAIN more
    BY <2>2
  <2>8. \A k \in DOMAIN b.held :
          /\ b.held[k].id \in DOMAIN b.wakes /\ b.held[k].id # 0
          /\ b.wakes[b.held[k].id].fate = "held"
          /\ b.wakes[b.held[k].id].conv = b.held[k].conv
          /\ Policy[b.held[k].conv] \in {"coalesce", "preempt"}
    <3> SUFFICES ASSUME NEW k \in DOMAIN more
                 PROVE  /\ more[k].id \in DOMAIN a.wakes /\ more[k].id # 0
                        /\ a.wakes[more[k].id].fate = "held"
                        /\ a.wakes[more[k].id].conv = more[k].conv
                        /\ Policy[more[k].conv] \in {"coalesce", "preempt"}
      BY <2>3
    <3>1. CASE k = Len(a.held) + 1
      BY <3>1, <2>2, <1>1, <1>3
    <3>2. CASE k \in DOMAIN a.held
      BY <3>2, <2>2, <1>1, <1>2
    <3> QED BY <3>1, <3>2, <2>6
  <2>9. ASSUME NEW i \in DOMAIN b.wakes, b.wakes[i].fate = "held", i # 0
        PROVE  i \in HeldIds(b)
    <3>1. CASE i = x
      BY <3>1, <2>2, <2>3, <2>7, <1>3 DEF HeldIds
    <3>2. CASE i # x
      <4>1. i \in HeldIds(a)
        BY <3>2, <2>9, <2>3 DEF Recorded
      <4>2. PICK k \in DOMAIN a.held : i = a.held[k].id
        BY <4>1 DEF HeldIds
      <4> QED BY <4>2, <2>2, <2>3, <2>7 DEF HeldIds
    <3> QED BY <3>1, <3>2
  <2>10. \A k, l \in DOMAIN b.held : b.held[k].conv = b.held[l].conv => k = l
    <3> SUFFICES ASSUME NEW k \in DOMAIN more, NEW l \in DOMAIN more, more[k].conv = more[l].conv
                 PROVE  k = l
      BY <2>3
    <3>1. \A m \in DOMAIN a.held : a.held[m].conv # c
      BY <1>4
    <3> QED BY <3>1, <2>2, <2>6, <1>3 DEF Recorded
  <2>11. Recorded(b, 0)
    BY <2>8, <2>9, <2>10 DEF Recorded
  <2> QED BY <2>5, <2>11 DEF b
<1>5. CASE slots # {}
  <2> DEFINE same == [k \in DOMAIN a.held |-> IF k \in slots THEN mine ELSE a.held[k]]
             put  == [a EXCEPT !.held = same]
             off  == {a.held[k].id : k \in slots}
  <2>1. b = Stamp(put, off, "merged")
    BY <1>5 DEF Hold
  <2>2. same \in Seq(Entries)
    <3> HIDE DEF mine, slots
    <3> QED BY <1>1
  <2>3. /\ DOMAIN same = DOMAIN a.held
        /\ \A k \in DOMAIN a.held : k \in slots => same[k] = mine
        /\ \A k \in DOMAIN a.held : k \notin slots => same[k] = a.held[k]
    OBVIOUS
  <2>4. off = ids
    <3>1. \A i \in off : i \in ids
      BY <1>2
    <3>2. ASSUME NEW i \in ids PROVE i \in off
      <4>1. PICK k \in DOMAIN a.held : i = a.held[k].id
        BY <3>2 DEF HeldIds
      <4> QED BY <4>1, <3>2, <1>2
    <3> QED BY <3>1, <3>2
  <2>5. PICK p \in DOMAIN a.held : a.held[p].conv = c
    BY <1>5
  <2>6. \A k \in DOMAIN a.held : k \in slots <=> a.held[k].conv = c
    OBVIOUS
  <2> HIDE DEF same
  <2>7. put \in Seats /\ put.held = same /\ put.wakes = a.wakes
    BY <2>2 DEF Seats, Entries
  <2> HIDE DEF put, off, slots, b
  <2>8. b.held = same /\ b.wakes = Restamped(a.wakes, ids, "merged")
    BY <2>1, <2>4, <2>7, StampHistory DEF Fates
  <2> HIDE DEF mine, ids
  <2>9. /\ DOMAIN b.wakes = DOMAIN a.wakes
        /\ \A i \in DOMAIN a.wakes :
             /\ b.wakes[i].fate = IF i \in ids THEN "merged" ELSE a.wakes[i].fate
             /\ b.wakes[i].conv = a.wakes[i].conv
    BY <2>8, <1>1, RestampedFacts DEF Fates
  <2>10. \A k \in DOMAIN a.held : k \notin slots => a.held[k].id \notin ids
    BY <1>2, <2>6 DEF ids
  <2>11. \A k \in DOMAIN b.held :
          /\ b.held[k].id \in DOMAIN b.wakes /\ b.held[k].id # 0
          /\ b.wakes[b.held[k].id].fate = "held"
          /\ b.wakes[b.held[k].id].conv = b.held[k].conv
          /\ Policy[b.held[k].conv] \in {"coalesce", "preempt"}
    <3> SUFFICES ASSUME NEW k \in DOMAIN a.held
                 PROVE  /\ same[k].id \in DOMAIN b.wakes /\ same[k].id # 0
                        /\ b.wakes[same[k].id].fate = "held"
                        /\ b.wakes[same[k].id].conv = same[k].conv
                        /\ Policy[same[k].conv] \in {"coalesce", "preempt"}
      BY <2>3, <2>8
    <3>1. CASE k \in slots
      <4>1. same[k] = mine
        BY <3>1, <2>3
      <4> QED BY <4>1, <1>1, <1>3, <2>9
    <3>2. CASE k \notin slots
      <4> DEFINE e == a.held[k]
      <4>1. /\ same[k] = e /\ e.id \in DOMAIN a.wakes /\ e.id \notin ids
            /\ a.wakes[e.id].fate = "held" /\ a.wakes[e.id].conv = e.conv
            /\ Policy[e.conv] \in {"coalesce", "preempt"}
        BY <3>2, <2>3, <2>10, <1>2
      <4> HIDE DEF e
      <4> QED BY <4>1, <1>1, <2>9
    <3> QED BY <3>1, <3>2
  <2>12. ASSUME NEW i \in DOMAIN b.wakes, b.wakes[i].fate = "held", i # 0
         PROVE  i \in HeldIds(b)
    <3>1. CASE i = x
      <4>1. p \in DOMAIN b.held /\ b.held[p].id = x
        BY <2>3, <2>5, <2>6, <2>8, <1>3
      <4> QED BY <4>1, <3>1 DEF HeldIds
    <3>2. CASE i # x
      <4>1. i \notin ids /\ i \in HeldIds(a)
        BY <3>2, <2>9, <2>12 DEF Recorded
      <4>2. PICK k \in DOMAIN a.held : i = a.held[k].id
        BY <4>1 DEF HeldIds
      <4>3. k \notin slots
        BY <4>1, <4>2, <1>2, <2>6 DEF ids
      <4>4. k \in DOMAIN b.held /\ b.held[k].id = i
        BY <4>2, <4>3, <2>3, <2>8
      <4> QED BY <4>4 DEF HeldIds
    <3> QED BY <3>1, <3>2
  <2>13. \A k, l \in DOMAIN b.held : b.held[k].conv = b.held[l].conv => k = l
    <3>1. \A k \in DOMAIN a.held : same[k].conv = a.held[k].conv
      BY <2>3, <2>6, <1>3
    <3> QED BY <3>1, <2>3, <2>8 DEF Recorded
  <2>14. Recorded(b, 0)
    BY <2>11, <2>12, <2>13 DEF Recorded
  <2> QED BY <2>8, <2>14 DEF b, ids
<1> QED BY <1>4, <1>5

-----------------------------------------------------------------------------
(* The steps of a history. *)

\* The wakes whose fate is open.
Waiting(ws) == {i \in DOMAIN ws : ws[i].fate = "held"}

\* One more wake, put off, refused or handed over as the ledger allows.
Posted(ws, c, vs) ==
  LET mine == {i \in Waiting(ws) : ws[i].conv = c}
  IN  \/ vs = Append(Restamped(ws, mine, "merged"), [conv |-> c, fate |-> "held"])
      \/ vs = Append(ws, [conv |-> c, fate |-> "refused"])
      \/ \E ids \in SUBSET Waiting(ws) :
           /\ mine \subseteq ids
           /\ vs = Append(Restamped(ws, ids, "sent"), [conv |-> c, fate |-> "sent"])

(* A seat on record holds exactly the wakes whose fate is open. *)
LEMMA HeldAreWaiting ==
  ASSUME NEW a \in Seats, NEW x, Recorded(a, x)
  PROVE  HeldIds(a) = Waiting(a.wakes) \ {x}
BY DEF Recorded, HeldIds, Waiting

(* Stamping older wakes and posting one commute. *)
LEMMA RestampedAppend ==
  ASSUME NEW ws \in Seq(Wakes), NEW w \in Wakes, NEW ids \in SUBSET DOMAIN ws, NEW f \in Fates
  PROVE  Restamped(Append(ws, w), ids, f) = Append(Restamped(ws, ids, f), w)
<1> DEFINE l == Restamped(Append(ws, w), ids, f)
           r == Append(Restamped(ws, ids, f), w)
           n == Len(ws)
<1>1. /\ Append(ws, w) \in Seq(Wakes) /\ n \in Nat /\ DOMAIN ws = 1 .. n
      /\ Len(Append(ws, w)) = n + 1 /\ DOMAIN Append(ws, w) = 1 .. (n + 1)
      /\ Append(ws, w)[n + 1] = w /\ \A i \in 1 .. n : Append(ws, w)[i] = ws[i]
  OBVIOUS
<1>2. Restamped(ws, ids, f) \in Seq(Wakes) /\ Len(Restamped(ws, ids, f)) = n
  BY RestampedFacts
<1>3. /\ r \in Seq(Wakes) /\ Len(r) = n + 1
      /\ r[n + 1] = w /\ \A i \in 1 .. n : r[i] = Restamped(ws, ids, f)[i]
  BY <1>2
<1>4. l \in Seq(Wakes) /\ Len(l) = n + 1
  BY <1>1, RestampedFacts
<1>5. \A i \in 1 .. (n + 1) : l[i] = IF i \in ids THEN [Append(ws, w)[i] EXCEPT !.fate = f]
                                     ELSE Append(ws, w)[i]
  BY <1>1 DEF Restamped
<1>6. \A i \in 1 .. n : Restamped(ws, ids, f)[i] = IF i \in ids THEN [ws[i] EXCEPT !.fate = f]
                                                   ELSE ws[i]
  BY <1>1 DEF Restamped
<1>7. ids \subseteq 1 .. n /\ n + 1 \notin ids
  BY <1>1
<1> HIDE DEF l, r, n
<1>8. ASSUME NEW i \in 1 .. (n + 1) PROVE l[i] = r[i]
  <2>1. CASE i = n + 1
    BY <2>1, <1>1, <1>3, <1>5, <1>7
  <2>2. CASE i \in 1 .. n
    <3>1. Append(ws, w)[i] = ws[i]
      BY <2>2, <1>1
    <3> QED BY <3>1, <2>2, <1>3, <1>5, <1>6
  <2> QED BY <2>1, <2>2, <1>1
<1>9. l = r
  BY <1>3, <1>4, <1>8
<1> QED BY <1>9 DEF l, r

(* What is stamped twice alike is stamped once. *)
LEMMA RestampedTwice ==
  ASSUME NEW ws \in Seq(Wakes), NEW ids, NEW more, NEW f \in Fates
  PROVE  Restamped(Restamped(ws, ids, f), more, f) = Restamped(ws, ids \cup more, f)
<1> DEFINE l == Restamped(Restamped(ws, ids, f), more, f)
           r == Restamped(ws, ids \cup more, f)
<1>1. \A i \in DOMAIN ws : ws[i] \in Wakes
  OBVIOUS
<1>2. \A i \in DOMAIN ws : [[ws[i] EXCEPT !.fate = f] EXCEPT !.fate = f] = [ws[i] EXCEPT !.fate = f]
  BY <1>1 DEF Wakes
<1>3. l = [i \in DOMAIN ws |-> IF i \in ids \cup more THEN [ws[i] EXCEPT !.fate = f] ELSE ws[i]]
  BY <1>2 DEF Restamped
<1> QED BY <1>3 DEF Restamped

(* Stamping the wake that was posted last. *)
LEMMA RestampedLast ==
  ASSUME NEW ws \in Seq(Wakes), NEW c \in Conversations, NEW g \in Fates, NEW f \in Fates
  PROVE  Restamped(Append(ws, [conv |-> c, fate |-> g]), {Len(ws) + 1}, f)
           = Append(ws, [conv |-> c, fate |-> f])
<1> DEFINE w == [conv |-> c, fate |-> g]
           v == [conv |-> c, fate |-> f]
           n == Len(ws)
           l == Restamped(Append(ws, w), {n + 1}, f)
           r == Append(ws, v)
<1>1. w \in Wakes /\ v \in Wakes /\ [w EXCEPT !.fate = f] = v
  BY DEF Wakes
<1> HIDE DEF w, v
<1>2. /\ Append(ws, w) \in Seq(Wakes) /\ n \in Nat /\ DOMAIN ws = 1 .. n
      /\ Len(Append(ws, w)) = n + 1 /\ DOMAIN Append(ws, w) = 1 .. (n + 1)
      /\ Append(ws, w)[n + 1] = w /\ \A i \in 1 .. n : Append(ws, w)[i] = ws[i]
  BY <1>1
<1>3. r \in Seq(Wakes) /\ Len(r) = n + 1 /\ r[n + 1] = v /\ \A i \in 1 .. n : r[i] = ws[i]
  BY <1>1
<1>4. l \in Seq(Wakes) /\ Len(l) = n + 1
  <2> DEFINE q == Append(ws, w)
             ids == {n + 1}
  <2>1. q \in Seq(Wakes) /\ Len(q) = n + 1
    BY <1>2
  <2> HIDE DEF q, ids
  <2>2. Restamped(q, ids, f) \in Seq(Wakes) /\ Len(Restamped(q, ids, f)) = n + 1
    BY <2>1, RestampedFacts
  <2> QED BY <2>2 DEF q, ids
<1>5. \A i \in 1 .. (n + 1) : l[i] = IF i \in {n + 1} THEN [Append(ws, w)[i] EXCEPT !.fate = f]
                                     ELSE Append(ws, w)[i]
  BY <1>2 DEF Restamped
<1> HIDE DEF l, r, n
<1>6. ASSUME NEW i \in 1 .. (n + 1) PROVE l[i] = r[i]
  <2>1. CASE i = n + 1
    BY <2>1, <1>1, <1>2, <1>3, <1>5
  <2>2. CASE i \in 1 .. n /\ i # n + 1
    BY <2>2, <1>2, <1>3, <1>5
  <2> QED BY <2>1, <2>2, <1>2
<1>7. l = r
  BY <1>3, <1>4, <1>6
<1> QED BY <1>7 DEF l, r, w, v, n

(* What arrives is on record as arriving. *)
LEMMA ArriveRecorded ==
  ASSUME NEW a \in Seats, Recorded(a, 0), NEW c \in Conversations
  PROVE  /\ Recorded(Arrive(a, c), Len(a.wakes) + 1)
         /\ Arrive(a, c).wakes = Append(a.wakes, [conv |-> c, fate |-> "held"])
         /\ Len(Arrive(a, c).wakes) = Len(a.wakes) + 1
         /\ Len(a.wakes) + 1 \in DOMAIN Arrive(a, c).wakes
         /\ Arrive(a, c).wakes[Len(a.wakes) + 1] = [conv |-> c, fate |-> "held"]
         /\ Arrive(a, c).held = a.held /\ HeldIds(Arrive(a, c)) = HeldIds(a)
<1> DEFINE w == [conv |-> c, fate |-> "held"]
           ws == Append(a.wakes, w)
           b == Arrive(a, c)
           n == Len(a.wakes)
<1>1. b = [a EXCEPT !.riding = TRUE, !.wakes = ws]
  BY DEF Arrive
<1>2. w \in Wakes /\ a.wakes \in Seq(Wakes)
  BY SeatFields DEF Wakes, Fates
<1> HIDE DEF w
<1>3. /\ n \in Nat /\ DOMAIN a.wakes = 1 .. n
      /\ Len(ws) = n + 1 /\ DOMAIN ws = 1 .. (n + 1)
      /\ ws[n + 1] = w /\ \A i \in 1 .. n : ws[i] = a.wakes[i]
  BY <1>2
<1> HIDE DEF ws, b
<1>4. b.wakes = ws /\ b.held = a.held
  BY <1>1 DEF Seats
<1> HIDE DEF n
<1>5. HeldIds(b) = HeldIds(a)
  BY <1>4 DEF HeldIds
<1>6. \A i \in DOMAIN a.wakes : i \in DOMAIN ws /\ i # n + 1 /\ ws[i] = a.wakes[i] /\ i # 0
  BY <1>3
<1>7. \A k \in DOMAIN b.held :
        /\ b.held[k].id \in DOMAIN b.wakes /\ b.held[k].id # n + 1
        /\ b.wakes[b.held[k].id].fate = "held"
        /\ b.wakes[b.held[k].id].conv = b.held[k].conv
        /\ Policy[b.held[k].conv] \in {"coalesce", "preempt"}
  <2> SUFFICES ASSUME NEW k \in DOMAIN a.held
               PROVE  /\ a.held[k].id \in DOMAIN ws /\ a.held[k].id # n + 1
                      /\ ws[a.held[k].id].fate = "held"
                      /\ ws[a.held[k].id].conv = a.held[k].conv
                      /\ Policy[a.held[k].conv] \in {"coalesce", "preempt"}
    BY <1>4
  <2> DEFINE e == a.held[k]
  <2>1. /\ e.id \in DOMAIN a.wakes
        /\ a.wakes[e.id].fate = "held" /\ a.wakes[e.id].conv = e.conv
        /\ Policy[e.conv] \in {"coalesce", "preempt"}
    BY DEF Recorded
  <2> HIDE DEF e
  <2> QED BY <2>1, <1>6 DEF e
<1>8. ASSUME NEW i \in DOMAIN b.wakes, b.wakes[i].fate = "held", i # n + 1
      PROVE  i \in HeldIds(b)
  <2>1. i \in DOMAIN a.wakes
    BY <1>8, <1>3, <1>4
  <2> QED BY <2>1, <1>8, <1>4, <1>5, <1>6 DEF Recorded
<1>9. \A k, l \in DOMAIN b.held : b.held[k].conv = b.held[l].conv => k = l
  BY <1>4 DEF Recorded
<1>10. Recorded(b, n + 1)
  BY <1>7, <1>8, <1>9 DEF Recorded
<1>11. n + 1 \in DOMAIN ws
  BY <1>3
<1> QED BY <1>3, <1>4, <1>5, <1>10, <1>11 DEF b, n, ws, w

(* A delivery after a cancelled Run, or with none open, or of a Conversation whose
   wakes are never held back. *)
LEMMA DeliveredPosts ==
  ASSUME NEW a \in Seats, NEW b \in Seats, Sound(b), NEW c \in Conversations, Recorded(a, 0),
         NEW x, x = Len(a.wakes) + 1, Recorded(b, x),
         b.wakes = Restamped(Arrive(a, c).wakes, Waiting(a.wakes) \ HeldIds(b), "sent"),
         HeldIds(b) \subseteq Waiting(a.wakes),
         b.held = <<>> \/ Policy[c] = "queue",
         ~b.up => b.wakes = Arrive(a, c).wakes
  PROVE  Recorded(Deliver(b, x), 0) /\ Posted(a.wakes, c, Deliver(b, x).wakes)
<1> DEFINE w    == [conv |-> c, fate |-> "held"]
           gone == Waiting(a.wakes) \ HeldIds(b)
           d    == Deliver(b, x)
           mine == {i \in Waiting(a.wakes) : a.wakes[i].conv = c}
<1>1. Arrive(a, c).wakes = Append(a.wakes, w) /\ a.wakes \in Seq(Wakes) /\ w \in Wakes
      /\ x \in DOMAIN Arrive(a, c).wakes
  BY ArriveRecorded, SeatFields DEF Wakes, Fates
<1>2. gone \in SUBSET DOMAIN a.wakes /\ "sent" \in Fates /\ "refused" \in Fates /\ "held" \in Fates
  BY DEF Waiting, Fates
<1>3. x \in DOMAIN b.wakes
  BY <1>1 DEF Restamped
<1>4. /\ Recorded(d, 0)
      /\ IF b.up THEN HandedOn(b, d, x) ELSE d.wakes = Restamped(b.wakes, {x}, "refused")
  BY <1>3, DeliverAnswers
<1>5. CASE ~b.up
  <2>1. d.wakes = Restamped(Append(a.wakes, w), {Len(a.wakes) + 1}, "refused")
    BY <1>1, <1>4, <1>5
  <2>2. d.wakes = Append(a.wakes, [conv |-> c, fate |-> "refused"])
    BY <2>1, <1>1, <1>2, RestampedLast
  <2> QED BY <2>2, <1>4 DEF Posted
<1>6. CASE b.up
  <2>1. PICK more \in SUBSET HeldIds(b) :
          d.wakes = Restamped(Restamped(b.wakes, more, "sent"), {x}, "sent")
    BY <1>4, <1>6 DEF HandedOn
  <2> DEFINE ids == gone \cup more
             old == Restamped(a.wakes, ids, "sent")
  <2>2. ids \in SUBSET Waiting(a.wakes) /\ ids \in SUBSET DOMAIN a.wakes
    BY DEF Waiting
  <2>3. Restamped(b.wakes, more, "sent") = Restamped(Append(a.wakes, w), ids, "sent")
    <3> DEFINE v == Append(a.wakes, w)
    <3>1. v \in Seq(Wakes) /\ b.wakes = Restamped(v, gone, "sent")
      BY <1>1
    <3> HIDE DEF v, gone
    <3>2. Restamped(Restamped(v, gone, "sent"), more, "sent") = Restamped(v, gone \cup more, "sent")
      BY <3>1, <1>2, RestampedTwice
    <3>3. Restamped(b.wakes, more, "sent") = Restamped(v, ids, "sent")
      BY <3>1, <3>2
    <3> QED BY <3>3 DEF v
  <2>4. Restamped(Append(a.wakes, w), ids, "sent") = Append(old, w)
    <3> HIDE DEF ids, w
    <3> QED BY <2>2, <1>1, <1>2, RestampedAppend
  <2>5. old \in Seq(Wakes) /\ Len(old) = Len(a.wakes)
    <3> HIDE DEF ids
    <3> QED BY <1>1, <1>2, RestampedFacts
  <2>6. d.wakes = Append(old, [conv |-> c, fate |-> "sent"])
    <3>1. d.wakes = Restamped(Append(old, w), {Len(old) + 1}, "sent")
      <4> HIDE DEF old, w, d, ids
      <4> QED BY <2>1, <2>3, <2>4, <2>5
    <3> HIDE DEF old
    <3> QED BY <3>1, <2>5, <1>2, RestampedLast
  <2>7. mine \subseteq ids
    <3> SUFFICES ASSUME NEW i \in mine, i \in HeldIds(b) PROVE FALSE
      OBVIOUS
    <3>1. PICK k \in DOMAIN b.held : b.held[k].id = i
      BY DEF HeldIds
    <3>2. b.held # <<>>
      BY <3>1
    <3>3. Policy[b.held[k].conv] # "queue" /\ b.wakes[i].conv = b.held[k].conv
      BY <3>1 DEF Recorded
    <3>4. b.wakes[i].conv = a.wakes[i].conv
      <4>1. i \in DOMAIN a.wakes /\ i \notin gone
        BY DEF Waiting
      <4>2. Append(a.wakes, w)[i] = a.wakes[i] /\ i \in DOMAIN Append(a.wakes, w)
        <5> HIDE DEF w
        <5> QED BY <4>1, <1>1
      <4> QED BY <4>1, <4>2, <1>1 DEF Restamped
    <3> QED BY <3>2, <3>3, <3>4
  <2> HIDE DEF ids
  <2>8. Posted(a.wakes, c, d.wakes)
    BY <2>2, <2>6, <2>7 DEF Posted
  <2> QED BY <2>8, <1>4
<1> QED BY <1>5, <1>6, SeatFields

(* What admission tells the sender of a wake is what the ledger allows: it is refused,
   put off in the place of an older one, or handed over, and with it what the Run it
   ends held back.  The connector's cancelRun did nothing, or settled the Run and left
   none open. *)
LEMMA AdmitPosts ==
  ASSUME NEW a \in Seats, Sound(a), Recorded(a, 0), NEW c \in Conversations,
         NEW cancel,
         \/ cancel.seat = Arrive(a, c)
         \/ /\ a.up /\ cancel.seat = SettleOpenFor(Arrive(a, c))
            /\ cancel.cancelled => cancel.seat.cur = NoRun
  PROVE  LET b == Admit(Arrive(a, c), c, Len(Arrive(a, c).wakes), cancel)
         IN  Recorded(b, 0) /\ Posted(a.wakes, c, b.wakes)
<1> DEFINE r == Arrive(a, c)
           x == Len(a.wakes) + 1
           s == cancel.seat
           b == Admit(r, c, x, cancel)
           w == [conv |-> c, fate |-> "held"]
<1>1. /\ r \in Seats /\ Sound(r) /\ r.cur = a.cur /\ r.up = a.up
      /\ Recorded(r, x) /\ r.wakes = Append(a.wakes, w) /\ Len(r.wakes) = x
      /\ x \in DOMAIN r.wakes /\ r.wakes[x] = w
      /\ r.held = a.held /\ HeldIds(r) = HeldIds(a)
  BY ArriveIsSound, ArriveRecorded DEF Sound
<1>2. a.wakes \in Seq(Wakes) /\ r.wakes \in Seq(Wakes) /\ w \in Wakes
  BY <1>1, SeatFields DEF Wakes, Fates
<1>3. HeldIds(a) = Waiting(a.wakes)
  <2>1. 0 \notin Waiting(a.wakes)
    BY <1>2 DEF Waiting
  <2> QED BY <2>1, HeldAreWaiting
<1>4. ASSUME r.cur = NoRun \/ Policy[c] = "queue"
      PROVE  Recorded(Deliver(r, x), 0) /\ Posted(a.wakes, c, Deliver(r, x).wakes)
  <2>1. Waiting(a.wakes) \ HeldIds(r) = {}
    BY <1>1, <1>3
  <2>2. r.wakes = Restamped(r.wakes, Waiting(a.wakes) \ HeldIds(r), "sent")
    BY <2>1, <1>2, RestampedNone
  <2>3. r.held = <<>> \/ Policy[c] = "queue"
    BY <1>1, <1>4 DEF Sound, BehindRun
  <2>4. HeldIds(r) \subseteq Waiting(a.wakes)
    BY <1>1, <1>3
  <2> HIDE DEF x, w
  <2> QED BY <1>1, <2>2, <2>3, <2>4, DeliveredPosts DEF x
<1>5. ASSUME s # r, cancel.cancelled
      PROVE  Recorded(Deliver(s, x), 0) /\ Posted(a.wakes, c, Deliver(s, x).wakes)
  <2>1. a.up /\ s = SettleOpenFor(r) /\ s.cur = NoRun
    BY <1>5
  <2> HIDE DEF s, r, x, w
  <2>2. s \in Seats /\ Sound(s) /\ Recorded(s, x) /\ Passed(r, s) /\ s.up = r.up
    BY <1>1, <2>1, SettleOpenForIsSound, SettleOpenForPasses DEF Sound, Keeps
  <2>3. s.held = <<>> /\ HeldIds(s) = {}
    BY <2>1, <2>2 DEF Sound, BehindRun, HeldIds
  <2>4. PICK ids \in SUBSET HeldIds(r) : s.wakes = Restamped(r.wakes, ids, "sent")
    BY <1>1, <2>1, <2>2 DEF Passed
  <2>5. ASSUME NEW i \in HeldIds(r) PROVE i \in ids
    <3>1. i \in Waiting(r.wakes) /\ i # x
      <4>1. HeldIds(r) = Waiting(r.wakes) \ {x}
        BY <1>1, HeldAreWaiting
      <4> QED BY <4>1
    <3>2. i \notin Waiting(s.wakes)
      <4>1. HeldIds(s) = Waiting(s.wakes) \ {x}
        BY <2>2, HeldAreWaiting
      <4> QED BY <4>1, <2>3, <3>1
    <3>3. s.wakes[i].fate = IF i \in ids THEN "sent" ELSE r.wakes[i].fate
      BY <2>4, <3>1, <1>2, RestampedFacts DEF Waiting, Fates
    <3>4. DOMAIN s.wakes = DOMAIN r.wakes
      BY <2>4 DEF Restamped
    <3> QED BY <3>1, <3>2, <3>3, <3>4 DEF Waiting
  <2>6. ids = Waiting(a.wakes) \ HeldIds(s)
    BY <1>1, <1>3, <2>3, <2>5
  <2>7. s.up
    BY <1>1, <2>1, <2>2
  <2> QED BY <2>2, <2>3, <2>4, <2>6, <2>7, DeliveredPosts DEF r, x
<1>6. ASSUME r.cur # NoRun, Policy[c] \in {"coalesce", "preempt"}
      PROVE  Recorded(Hold(r, c, x), 0) /\ Posted(a.wakes, c, Hold(r, c, x).wakes)
  <2> DEFINE mine == {i \in Waiting(a.wakes) : a.wakes[i].conv = c}
  <2>1. /\ Recorded(Hold(r, c, x), 0)
        /\ Hold(r, c, x).wakes =
             Restamped(r.wakes, {i \in HeldIds(r) : r.wakes[i].conv = c}, "merged")
    <3> HIDE DEF r, x
    <3> QED BY <1>1, <1>6, HoldAnswers DEF w
  <2>2. {i \in HeldIds(r) : r.wakes[i].conv = c} = mine
    <3>1. \A i \in Waiting(a.wakes) : r.wakes[i] = a.wakes[i]
      <4> HIDE DEF w
      <4> QED BY <1>1, <1>2 DEF Waiting
    <3> QED BY <3>1, <1>1, <1>3
  <2>3. mine \in SUBSET DOMAIN a.wakes
    BY DEF Waiting
  <2> HIDE DEF mine, r, w, x
  <2>4. Hold(r, c, x).wakes = Append(Restamped(a.wakes, mine, "merged"), w)
    <3>1. Hold(r, c, x).wakes = Restamped(Append(a.wakes, w), mine, "merged")
      BY <1>1, <2>1, <2>2
    <3>2. "merged" \in Fates
      BY DEF Fates
    <3> QED BY <3>1, <3>2, <1>2, <2>3, RestampedAppend
  <2> QED BY <2>1, <2>4 DEF Posted, mine, w
<1>7. Recorded(Stamp(r, {x}, "refused"), 0) /\ Posted(a.wakes, c, Stamp(r, {x}, "refused").wakes)
  <2>1. Stamp(r, {x}, "refused").wakes = Restamped(Append(a.wakes, w), {Len(a.wakes) + 1}, "refused")
    <3> HIDE DEF r, w
    <3>1. "refused" \in Fates
      BY DEF Fates
    <3>2. Stamp(r, {x}, "refused").wakes = Restamped(r.wakes, {x}, "refused")
      BY <3>1, <1>1, StampHistory
    <3> QED BY <3>2, <1>1
  <2>2. Stamp(r, {x}, "refused").wakes = Append(a.wakes, [conv |-> c, fate |-> "refused"])
    BY <2>1, <1>2, RestampedLast DEF Fates
  <2> HIDE DEF x, r
  <2> QED BY <2>2, <1>1, AnswerIsRecorded DEF Posted
<1> HIDE DEF r, x, w
<1>8. Recorded(b, 0) /\ Posted(a.wakes, c, b.wakes)
  <2>0. Policy[c] \in Policies
    BY EngineAssumption
  <2>1. CASE r.cur = NoRun \/ Policy[c] = "queue"
    BY <2>1, <1>4 DEF Admit
  <2>2. CASE r.cur # NoRun /\ Policy[c] = "reject"
    BY <2>2, <1>7 DEF Admit
  <2>3. CASE r.cur # NoRun /\ Policy[c] = "coalesce"
    BY <2>3, <1>6 DEF Admit
  <2>4. CASE r.cur # NoRun /\ Policy[c] = "preempt"
    <3>1. b = Preempt(r, c, x, cancel)
      BY <2>4 DEF Admit
    <3>2. CASE ~cancel.cancelled
      BY <3>1, <3>2, <1>7 DEF Preempt
    <3>3. CASE cancel.cancelled /\ s = r
      BY <3>1, <3>3, <2>4, <1>6 DEF Preempt
    <3>4. CASE cancel.cancelled /\ s # r
      <4>1. s.cur = NoRun
        BY <3>4 DEF r
      <4> QED BY <4>1, <3>1, <3>4, <1>5 DEF Preempt
    <3> QED BY <3>2, <3>3, <3>4
  <2> QED BY <2>0, <2>1, <2>2, <2>3, <2>4 DEF Policies
<1> QED BY <1>1, <1>8 DEF r, x

\* Some of the wakes whose fate was open left together; none was posted.
Freed(ws, vs) ==
  \E ids \in SUBSET Waiting(ws), f \in {"sent", "lost"} : vs = Restamped(ws, ids, f)

\* A handler that posts no wake: the seat is still on record, and what it held
\* back waits on or was let go.
Follows(a, b) == Recorded(b, 0) /\ Freed(a.wakes, b.wakes)

(* A participant starts with nothing on record. *)
LEMMA FreshSeatIsRecorded == Recorded(FreshSeat, 0)
BY DEF FreshSeat, Recorded, HeldIds

(* A seat on record holds the wakes whose fate is open. *)
LEMMA HeldAreFreed ==
  ASSUME NEW a \in Seats, Recorded(a, 0)
  PROVE  HeldIds(a) = Waiting(a.wakes)
<1>1. a.wakes \in Seq(Wakes)
  BY SeatFields
<1>2. 0 \notin Waiting(a.wakes)
  BY <1>1 DEF Waiting
<1>3. HeldIds(a) = Waiting(a.wakes) \ {0}
  BY HeldAreWaiting
<1> QED BY <1>2, <1>3

(* What is passed on or dropped by a release is let go. *)
LEMMA PassedFollows ==
  ASSUME NEW a \in Seats, Recorded(a, 0), NEW b, Recorded(b, 0), Passed(a, b)
  PROVE  Follows(a, b)
BY HeldAreFreed DEF Passed, Freed, Follows

(* What leaves the held wakes and the history alone lets nothing go. *)
LEMMA SameFollows ==
  ASSUME NEW a \in Seats, Recorded(a, 0), NEW b, b.held = a.held, b.wakes = a.wakes
  PROVE  Follows(a, b)
<1>1. Recorded(b, 0)
  BY RecordedSame
<1>2. a.wakes = Restamped(a.wakes, {}, "sent")
  BY SeatFields, RestampedNone
<1>3. Freed(a.wakes, b.wakes)
  BY <1>2 DEF Freed
<1> QED BY <1>1, <1>3 DEF Follows

(* Nor does it between two handlers' halves. *)
LEMMA FollowsFrom ==
  ASSUME NEW a, NEW p, p.wakes = a.wakes, NEW q, Follows(p, q),
         NEW b, b.held = q.held, b.wakes = q.wakes
  PROVE  Follows(a, b)
<1>1. Recorded(b, 0)
  BY RecordedSame DEF Follows
<1> QED BY <1>1 DEF Follows

(* Settling whatever Run is open, and opening one. *)
LEMMA OpenForFollows ==
  ASSUME NEW a \in Seats, Sound(a), Recorded(a, 0)
  PROVE  Follows(a, SettleOpenFor(a)) /\ Follows(a, Open(a))
BY SettleOpenForPasses, OpenPasses, PassedFollows

(* Settling a Run by its id: the current one, or one that holds nothing back. *)
LEMMA SettleFollows ==
  ASSUME NEW a \in Seats, Sound(a), Recorded(a, 0), NEW r
  PROVE  Follows(a, Settle(a, r))
<1> DEFINE f == Forget(a, r)
<1>1. CASE r \notin a.open
  BY <1>1, SameFollows DEF Settle
<1>2. CASE r \in a.open /\ r = a.cur /\ a.cur # NoRun
  <2>1. Settle(a, r) = SettleOpenFor(a)
    BY <1>2 DEF SettleOpenFor
  <2> QED BY <2>1, OpenForFollows
<1>3. CASE r \in a.open /\ (r # a.cur \/ a.cur = NoRun)
  <2>1. /\ f \in Seats /\ f.held = a.held /\ f.wakes = a.wakes
        /\ f.cur = a.cur
    BY <1>3, SeatFields DEF Forget, Seats, NoRun
  <2>2. Release(f) = f
    BY <2>1 DEF Release, FireHeld, Sound, BehindRun
  <2>3. Settle(a, r) = EndChain(f)
    BY <1>3, <2>2 DEF Settle
  <2> HIDE DEF f
  <2>4. EndChain(f).held = f.held /\ EndChain(f).wakes = f.wakes
    BY <2>1 DEF EndChain, Seats
  <2> QED BY <2>1, <2>3, <2>4, SameFollows
<1> QED BY <1>1, <1>2, <1>3

(* A server that restarts drops every wake it held back. *)
LEMMA LostFollows ==
  ASSUME NEW a \in Seats, Recorded(a, 0), NEW b \in Seats,
         b.held = <<>>, b.wakes = Stamp(a, HeldIds(a), "lost").wakes
  PROVE  Follows(a, b)
<1>1. b.wakes = Restamped(a.wakes, HeldIds(a), "lost")
  BY StampHistory DEF Fates
<1>2. Recorded(b, 0)
  BY <1>1, AllPassed
<1>3. Freed(a.wakes, b.wakes)
  BY <1>1, HeldAreFreed DEF Freed
<1> QED BY <1>2, <1>3 DEF Follows

-----------------------------------------------------------------------------
(* Induction, over a set in place of a predicate *)

\* The order of the numbers, as a relation.
Below == {pair \in Nat \X Nat : pair[1] < pair[2]}

(* Every set of numbers has a least one. *)
LEMMA LeastNumber ==
  ASSUME NEW T \in SUBSET Nat, T # {}
  PROVE  \E n \in T : \A m \in T : n <= m
<1>1. IsWellFoundedOn(Below, Nat)
  BY NatLessThanWellFounded DEF OpToRel, Below
<1>2. PICK n \in T : \A m \in T : <<m, n>> \notin Below
  BY <1>1, WFMin
<1>3. ASSUME NEW m \in T, m < n PROVE FALSE
  <2>1. <<m, n>> \in Nat \X Nat /\ <<m, n>>[1] = m /\ <<m, n>>[2] = n
    OBVIOUS
  <2>2. <<m, n>> \in Below
    BY <2>1, <1>3 DEF Below
  <2> QED BY <2>2, <1>2
<1> QED BY <1>3

(* A set with zero and with the successor of each of its numbers has them all. *)
LEMMA NumbersFrom ==
  ASSUME NEW S, 0 \in S, \A n \in Nat : n \in S => n + 1 \in S
  PROVE  Nat \subseteq S
<1> SUFFICES ASSUME Nat \ S # {} PROVE FALSE
  OBVIOUS
<1>1. PICK n \in Nat \ S : \A m \in Nat \ S : n <= m
  BY LeastNumber
<1>2. n # 0 /\ n - 1 \in Nat /\ n - 1 \in S /\ n = (n - 1) + 1
  BY <1>1
<1> QED BY <1>1, <1>2

(* A set with the empty sequence and with every extension of its sequences has  *)
(* all of them.                                                                 *)
LEMMA SequencesFrom ==
  ASSUME NEW T, NEW S, <<>> \in S,
         \A s \in Seq(T) : \A e \in T : s \in S => Append(s, e) \in S
  PROVE  Seq(T) \subseteq S
<1> DEFINE N == {n \in Nat : \A s \in Seq(T) : Len(s) = n => s \in S}
<1>1. 0 \in N
  BY EmptySeq
<1>2. ASSUME NEW n \in Nat, n \in N PROVE n + 1 \in N
  <2> SUFFICES ASSUME NEW s \in Seq(T), Len(s) = n + 1 PROVE s \in S
    OBVIOUS
  <2> DEFINE t == [i \in 1 .. n |-> s[i]]
  <2>1. t \in Seq(T) /\ Len(t) = n /\ s[n + 1] \in T /\ s = Append(t, s[n + 1])
    OBVIOUS
  <2> HIDE DEF t
  <2>2. t \in S
    BY <1>2, <2>1
  <2> QED BY <2>1, <2>2
<1>3. Nat \subseteq N
  <2> HIDE DEF N
  <2> QED BY <1>1, <1>2, NumbersFrom
<1> QED BY <1>3

-----------------------------------------------------------------------------
(* Filters *)

\* The first n elements of s, filtered one after the other.
Filtering(s, S, n, f) ==
  f = [m \in 0 .. n |-> IF m = 0 THEN <<>>
                        ELSE IF s[m] \in S THEN Append(f[m - 1], s[m]) ELSE f[m - 1]]

(* There is such a function, however long the sequence. *)
LEMMA FilteringExists ==
  ASSUME NEW s, NEW S
  PROVE  \A n \in Nat : \E f : Filtering(s, S, n, f)
<1> DEFINE Step(g, i) == IF s[i] \in S THEN Append(g, s[i]) ELSE g
           N == {n \in Nat : \E f : Filtering(s, S, n, f)}
<1>1. 0 \in N
  <2> SUFFICES ASSUME NEW n \in Nat, n = 0 PROVE n \in N
    OBVIOUS
  <2> DEFINE g == [i \in 0 .. n |-> IF i = 0 THEN <<>> ELSE Step(<<>>, i)]
  <2>1. \A i \in 0 .. n : g[i] = IF i = 0 THEN <<>> ELSE Step(g[i - 1], i)
    OBVIOUS
  <2>2. g = [i \in 0 .. n |-> g[i]]
    OBVIOUS
  <2> HIDE DEF g
  <2>3. Filtering(s, S, n, g)
    BY <2>1, <2>2 DEF Filtering
  <2> QED BY <2>3
<1>2. ASSUME NEW n \in Nat, n \in N PROVE n + 1 \in N
  <2>1. PICK f : Filtering(s, S, n, f)
    BY <1>2
  <2> DEFINE g == [i \in 0 .. n + 1 |-> IF i = n + 1 THEN Step(f[n], i) ELSE f[i]]
  <2>2. \A i \in 0 .. n + 1 : g[i] = IF i = 0 THEN <<>> ELSE Step(g[i - 1], i)
    <3> SUFFICES ASSUME NEW i \in 0 .. n + 1
                 PROVE  g[i] = IF i = 0 THEN <<>> ELSE Step(g[i - 1], i)
      OBVIOUS
    <3>1. CASE i = n + 1
      <4>1. i # 0 /\ i - 1 = n /\ n \in 0 .. n + 1 /\ n # n + 1
        BY <3>1
      <4>2. g[i] = Step(f[n], i) /\ g[n] = f[n]
        BY <3>1, <4>1
      <4> QED BY <4>1, <4>2
    <3>2. CASE i # n + 1
      <4>1. i \in 0 .. n /\ (i # 0 => i - 1 \in 0 .. n /\ i - 1 \in 0 .. n + 1 /\ i - 1 # n + 1)
        BY <3>2
      <4>2. g[i] = f[i] /\ (i # 0 => g[i - 1] = f[i - 1])
        BY <3>2, <4>1
      <4>3. f[i] = IF i = 0 THEN <<>> ELSE Step(f[i - 1], i)
        BY <2>1, <4>1 DEF Filtering
      <4> QED BY <4>2, <4>3
    <3> QED BY <3>1, <3>2
  <2>3. g = [i \in 0 .. n + 1 |-> g[i]]
    OBVIOUS
  <2> HIDE DEF g
  <2>4. Filtering(s, S, n + 1, g)
    BY <2>2, <2>3 DEF Filtering
  <2> QED BY <2>4
<1>3. Nat \subseteq N
  <2> HIDE DEF N
  <2> QED BY <1>1, <1>2, NumbersFrom
<1> QED BY <1>3

(* And one only. *)
LEMMA FilteringAgrees ==
  ASSUME NEW s, NEW t, NEW S, NEW n \in Nat, NEW k \in Nat, n <= k,
         \A i \in 1 .. n : s[i] = t[i],
         NEW f, Filtering(s, S, n, f), NEW g, Filtering(t, S, k, g)
  PROVE  f[n] = g[n]
<1> DEFINE N == {m \in Nat : m <= n => f[m] = g[m]}
<1>1. /\ \A m \in 0 .. n : f[m] = IF m = 0 THEN <<>>
                                  ELSE IF s[m] \in S THEN Append(f[m - 1], s[m]) ELSE f[m - 1]
      /\ \A m \in 0 .. k : g[m] = IF m = 0 THEN <<>>
                                  ELSE IF t[m] \in S THEN Append(g[m - 1], t[m]) ELSE g[m - 1]
  BY DEF Filtering
<1>2. 0 \in N
  BY <1>1
<1>3. ASSUME NEW m \in Nat, m \in N PROVE m + 1 \in N
  <2> SUFFICES ASSUME m + 1 <= n PROVE f[m + 1] = g[m + 1]
    OBVIOUS
  <2>1. /\ m + 1 \in 0 .. n /\ m + 1 \in 0 .. k /\ m + 1 \in 1 .. n /\ m + 1 # 0
        /\ (m + 1) - 1 = m /\ f[m] = g[m]
    BY <1>3
  <2> QED BY <1>1, <2>1
<1>4. Nat \subseteq N
  <2> HIDE DEF N
  <2> QED BY <1>2, <1>3, NumbersFrom
<1> QED BY <1>4

(* What a filter gives is the last of them. *)
LEMMA OnlyIs ==
  ASSUME NEW s, Len(s) \in Nat, NEW S
  PROVE  \E f : Filtering(s, S, Len(s), f) /\ Only(s, S) = f[Len(s)]
<1> DEFINE n == Len(s)
           kept[m \in 0 .. n] ==
             IF m = 0 THEN <<>>
             ELSE IF s[m] \in S THEN Append(kept[m - 1], s[m]) ELSE kept[m - 1]
<1>1. Only(s, S) = kept[n]
  BY DEF Only
<1>2. Filtering(s, S, n, kept)
  <2>1. \E f : Filtering(s, S, n, f)
    BY FilteringExists
  <2> QED BY <2>1 DEF Filtering
<1> QED BY <1>1, <1>2

(* Nothing is left of nothing. *)
LEMMA OnlyOfEmpty ==
  ASSUME NEW S PROVE Only(<<>>, S) = <<>>
<1>1. PICK f : Filtering(<<>>, S, Len(<<>>), f) /\ Only(<<>>, S) = f[Len(<<>>)]
  BY OnlyIs, EmptySeq
<1> QED BY <1>1 DEF Filtering

(* One more element is kept or not. *)
LEMMA OnlyOfAppend ==
  ASSUME NEW T, NEW s \in Seq(T), NEW e \in T, NEW S
  PROVE  Only(Append(s, e), S) = IF e \in S THEN Append(Only(s, S), e) ELSE Only(s, S)
<1> DEFINE n == Len(s)
           t == Append(s, e)
<1>1. n \in Nat /\ Len(t) = n + 1 /\ t[n + 1] = e /\ \A i \in 1 .. n : s[i] = t[i]
  OBVIOUS
<1> HIDE DEF t, n
<1>2. PICK f : Filtering(s, S, n, f) /\ Only(s, S) = f[n]
  BY <1>1, OnlyIs DEF n
<1>3. PICK g : Filtering(t, S, n + 1, g) /\ Only(t, S) = g[n + 1]
  BY <1>1, OnlyIs
<1>4. f[n] = g[n]
  BY <1>1, <1>2, <1>3, FilteringAgrees
<1>5. g[n + 1] = IF e \in S THEN Append(g[n], e) ELSE g[n]
  <2>1. \A m \in 0 .. n + 1 : g[m] = IF m = 0 THEN <<>>
                                      ELSE IF t[m] \in S THEN Append(g[m - 1], t[m]) ELSE g[m - 1]
    BY <1>3 DEF Filtering
  <2>2. n + 1 \in 0 .. n + 1 /\ n + 1 # 0 /\ (n + 1) - 1 = n
    BY <1>1
  <2> QED BY <2>1, <2>2, <1>1
<1> QED BY <1>2, <1>3, <1>4, <1>5 DEF t

Elements(s) == {s[i] : i \in DOMAIN s}

\* What holds of no element twice.
Distinct(s) == \A i, j \in DOMAIN s : s[i] = s[j] => i = j

(* An extension has one element more. *)
LEMMA ElementsOfAppend ==
  ASSUME NEW T, NEW s \in Seq(T), NEW e \in T
  PROVE  /\ Append(s, e) \in Seq(T) /\ Elements(Append(s, e)) = Elements(s) \cup {e}
         /\ Elements(s) \subseteq T
<1>1. Append(s, e) \in Seq(T) /\ Len(Append(s, e)) = Len(s) + 1
  OBVIOUS
<1>2. /\ \A i \in 1 .. Len(s) : Append(s, e)[i] = s[i]
      /\ Append(s, e)[Len(s) + 1] = e /\ Len(s) \in Nat
  OBVIOUS
<1>3. /\ DOMAIN Append(s, e) = 1 .. (Len(s) + 1) /\ DOMAIN s = 1 .. Len(s)
      /\ 1 .. (Len(s) + 1) = (1 .. Len(s)) \cup {Len(s) + 1}
  BY <1>1, <1>2
<1>4. Elements(Append(s, e)) = Elements(s) \cup {e}
  <2> DEFINE t == Append(s, e)
  <2>1. /\ DOMAIN t = DOMAIN s \cup {Len(s) + 1} /\ t[Len(s) + 1] = e
        /\ \A i \in DOMAIN s : t[i] = s[i]
    BY <1>2, <1>3
  <2> HIDE DEF t
  <2> QED BY <2>1 DEF Elements
<1> QED BY <1>1, <1>4 DEF Elements

(* A filter leaves the elements that are in its set. *)
LEMMA OnlyFacts ==
  ASSUME NEW T, NEW S
  PROVE  \A s \in Seq(T) : /\ Only(s, S) \in Seq(T)
                           /\ Elements(Only(s, S)) = Elements(s) \cap S
<1> DEFINE Q == {s \in Seq(T) : /\ Only(s, S) \in Seq(T)
                                /\ Elements(Only(s, S)) = Elements(s) \cap S}
<1>1. <<>> \in Q
  <2>1. Elements(<<>>) = {} /\ <<>> \in Seq(T)
    BY EmptySeq DEF Elements
  <2> QED BY <2>1, OnlyOfEmpty
<1>2. ASSUME NEW s \in Seq(T), NEW e \in T, s \in Q PROVE Append(s, e) \in Q
  <2>1. Only(s, S) \in Seq(T) /\ Elements(Only(s, S)) = Elements(s) \cap S
    BY <1>2
  <2>2. Only(Append(s, e), S) = IF e \in S THEN Append(Only(s, S), e) ELSE Only(s, S)
    BY OnlyOfAppend
  <2>3. /\ Append(s, e) \in Seq(T) /\ Elements(Append(s, e)) = Elements(s) \cup {e}
        /\ Append(Only(s, S), e) \in Seq(T)
        /\ Elements(Append(Only(s, S), e)) = Elements(Only(s, S)) \cup {e}
    BY <2>1, ElementsOfAppend
  <2> QED BY <2>1, <2>2, <2>3
<1>3. Seq(T) \subseteq Q
  <2> HIDE DEF Q
  <2> QED BY <1>1, <1>2, SequencesFrom
<1> QED BY <1>3

(* Two sets that agree on the elements filter alike. *)
LEMMA OnlyAgrees ==
  ASSUME NEW T, NEW S, NEW R
  PROVE  \A s \in Seq(T) : Elements(s) \cap S = Elements(s) \cap R => Only(s, S) = Only(s, R)
<1> DEFINE Q == {s \in Seq(T) : Elements(s) \cap S = Elements(s) \cap R => Only(s, S) = Only(s, R)}
<1>1. <<>> \in Q
  BY OnlyOfEmpty, EmptySeq
<1>2. ASSUME NEW s \in Seq(T), NEW e \in T, s \in Q PROVE Append(s, e) \in Q
  <2>1. /\ Only(Append(s, e), S) = IF e \in S THEN Append(Only(s, S), e) ELSE Only(s, S)
        /\ Only(Append(s, e), R) = IF e \in R THEN Append(Only(s, R), e) ELSE Only(s, R)
    BY OnlyOfAppend
  <2>2. Append(s, e) \in Seq(T) /\ Elements(Append(s, e)) = Elements(s) \cup {e}
    BY ElementsOfAppend
  <2> QED BY <1>2, <2>1, <2>2
<1>3. Seq(T) \subseteq Q
  <2> HIDE DEF Q
  <2> QED BY <1>1, <1>2, SequencesFrom
<1> QED BY <1>3

(* A filter that lets everything pass changes nothing. *)
LEMMA OnlyOfAll ==
  ASSUME NEW T, NEW S
  PROVE  \A s \in Seq(T) : Elements(s) \subseteq S => Only(s, S) = s
<1> DEFINE Q == {s \in Seq(T) : Elements(s) \subseteq S => Only(s, S) = s}
<1>1. <<>> \in Q
  BY OnlyOfEmpty, EmptySeq
<1>2. ASSUME NEW s \in Seq(T), NEW e \in T, s \in Q PROVE Append(s, e) \in Q
  BY <1>2, OnlyOfAppend, ElementsOfAppend
<1>3. Seq(T) \subseteq Q
  <2> HIDE DEF Q
  <2> QED BY <1>1, <1>2, SequencesFrom
<1> QED BY <1>3

(* One that lets nothing pass leaves nothing. *)
LEMMA OnlyOfNone ==
  ASSUME NEW T, NEW S
  PROVE  \A s \in Seq(T) : Elements(s) \cap S = {} => Only(s, S) = <<>>
<1> DEFINE Q == {s \in Seq(T) : Elements(s) \cap S = {} => Only(s, S) = <<>>}
<1>1. <<>> \in Q
  BY OnlyOfEmpty, EmptySeq
<1>2. ASSUME NEW s \in Seq(T), NEW e \in T, s \in Q PROVE Append(s, e) \in Q
  BY <1>2, OnlyOfAppend, ElementsOfAppend
<1>3. Seq(T) \subseteq Q
  <2> HIDE DEF Q
  <2> QED BY <1>1, <1>2, SequencesFrom
<1> QED BY <1>3

(* Appending to a concatenation is appending to its second part. *)
LEMMA AppendOfConcat ==
  ASSUME NEW T, NEW s \in Seq(T), NEW t \in Seq(T), NEW e \in T
  PROVE  s \o Append(t, e) = Append(s \o t, e)
<1>1. Append(t, e) = t \o <<e>> /\ <<e>> \in Seq(T)
  BY AppendIsConcat
<1>2. s \o t \in Seq(T) /\ Append(s \o t, e) = (s \o t) \o <<e>>
  BY AppendIsConcat, ConcatProperties
<1> QED BY <1>1, <1>2, ConcatAssociative

(* Two sequences are filtered one after the other. *)
LEMMA OnlyOfConcat ==
  ASSUME NEW T, NEW S, NEW s \in Seq(T)
  PROVE  \A t \in Seq(T) : Only(s \o t, S) = Only(s, S) \o Only(t, S)
<1> DEFINE Q == {t \in Seq(T) : Only(s \o t, S) = Only(s, S) \o Only(t, S)}
<1>0. Only(s, S) \in Seq(T)
  BY OnlyFacts
<1>1. <<>> \in Q
  <2>1. s \o <<>> = s /\ Only(s, S) \o <<>> = Only(s, S)
    BY <1>0, ConcatEmptySeq
  <2> QED BY <2>1, OnlyOfEmpty, EmptySeq
<1>2. ASSUME NEW t \in Seq(T), NEW e \in T, t \in Q PROVE Append(t, e) \in Q
  <2>1. s \o t \in Seq(T) /\ Only(t, S) \in Seq(T) /\ Append(t, e) \in Seq(T)
    BY ConcatProperties, OnlyFacts, ElementsOfAppend
  <2>2. s \o Append(t, e) = Append(s \o t, e)
    BY AppendOfConcat
  <2>3. Only(s \o t, S) = Only(s, S) \o Only(t, S)
    BY <1>2
  <2>4. /\ Only(Append(t, e), S) = IF e \in S THEN Append(Only(t, S), e) ELSE Only(t, S)
        /\ Only(Append(s \o t, e), S)
             = IF e \in S THEN Append(Only(s \o t, S), e) ELSE Only(s \o t, S)
    BY <2>1, OnlyOfAppend
  <2>5. Only(s, S) \o Append(Only(t, S), e) = Append(Only(s, S) \o Only(t, S), e)
    BY <1>0, <2>1, AppendOfConcat
  <2>6. Only(s \o Append(t, e), S) = Only(s, S) \o Only(Append(t, e), S)
    BY <2>2, <2>3, <2>4, <2>5
  <2> QED BY <2>1, <2>6
<1>3. Seq(T) \subseteq Q
  <2> HIDE DEF Q
  <2> QED BY <1>1, <1>2, SequencesFrom
<1> QED BY <1>3

(* Filtering twice is filtering by both sets. *)
LEMMA OnlyOfOnly ==
  ASSUME NEW T, NEW S, NEW R
  PROVE  \A s \in Seq(T) : Only(Only(s, S), R) = Only(s, S \cap R)
<1> DEFINE Q == {s \in Seq(T) : Only(Only(s, S), R) = Only(s, S \cap R)}
<1>1. <<>> \in Q
  BY OnlyOfEmpty, EmptySeq
<1>2. ASSUME NEW s \in Seq(T), NEW e \in T, s \in Q PROVE Append(s, e) \in Q
  <2>1. Only(s, S) \in Seq(T) /\ Append(s, e) \in Seq(T)
    BY OnlyFacts, ElementsOfAppend
  <2>2. /\ Only(Append(s, e), S) = IF e \in S THEN Append(Only(s, S), e) ELSE Only(s, S)
        /\ Only(Append(s, e), S \cap R)
             = IF e \in S \cap R THEN Append(Only(s, S \cap R), e) ELSE Only(s, S \cap R)
    BY OnlyOfAppend
  <2>3. Only(Append(Only(s, S), e), R)
          = IF e \in R THEN Append(Only(Only(s, S), R), e) ELSE Only(Only(s, S), R)
    BY <2>1, OnlyOfAppend
  <2>4. Only(Only(s, S), R) = Only(s, S \cap R)
    BY <1>2
  <2>5. Only(Only(Append(s, e), S), R) = Only(Append(s, e), S \cap R)
    <3>1. CASE e \in S
      <4>1. Only(Append(s, e), S) = Append(Only(s, S), e) /\ (e \in R <=> e \in S \cap R)
        BY <3>1, <2>2
      <4> QED BY <4>1, <2>2, <2>3, <2>4, Zenon
    <3>2. CASE e \notin S
      BY <3>2, <2>2, <2>4
    <3> QED BY <3>1, <3>2
  <2> QED BY <2>1, <2>5
<1>3. Seq(T) \subseteq Q
  <2> HIDE DEF Q
  <2> QED BY <1>1, <1>2, SequencesFrom
<1> QED BY <1>3

(* What is left of distinct elements is distinct. *)
LEMMA OnlyDistinct ==
  ASSUME NEW T, NEW S
  PROVE  \A s \in Seq(T) : Distinct(s) => Distinct(Only(s, S))
<1> DEFINE Q == {s \in Seq(T) : Distinct(s) => Distinct(Only(s, S))}
<1>1. <<>> \in Q
  BY OnlyOfEmpty, EmptySeq
<1>2. ASSUME NEW s \in Seq(T), NEW e \in T, s \in Q PROVE Append(s, e) \in Q
  <2> SUFFICES ASSUME Distinct(Append(s, e)) PROVE Distinct(Only(Append(s, e), S))
    BY ElementsOfAppend
  <2>1. Distinct(s) /\ e \notin Elements(s)
    <3>1. /\ \A i \in DOMAIN s : Append(s, e)[i] = s[i] /\ i \in DOMAIN Append(s, e)
                                  /\ i # Len(s) + 1
          /\ Append(s, e)[Len(s) + 1] = e /\ Len(s) + 1 \in DOMAIN Append(s, e)
      OBVIOUS
    <3> QED BY <3>1, Zenon DEF Distinct, Elements
  <2> DEFINE t == Only(s, S)
  <2>2. t \in Seq(T) /\ Elements(t) \subseteq Elements(s) /\ Distinct(t)
    BY <1>2, <2>1, OnlyFacts
  <2>3. Only(Append(s, e), S) = IF e \in S THEN Append(t, e) ELSE t
    BY OnlyOfAppend
  <2> HIDE DEF t
  <2>4. \A i \in DOMAIN t : t[i] # e
    BY <2>1, <2>2 DEF Elements
  <2>5. Distinct(Append(t, e))
    BY <2>2, <2>4 DEF Distinct
  <2> QED BY <2>2, <2>3, <2>5
<1>3. Seq(T) \subseteq Q
  <2> HIDE DEF Q
  <2> QED BY <1>1, <1>2, SequencesFrom
<1> QED BY <1>3

(* The others are left by Without, and one more is left behind them. *)
LEMMA WithoutFacts ==
  ASSUME NEW T, NEW S, NEW s \in Seq(T)
  PROVE  /\ Without(s, S) \in Seq(T) /\ Elements(Without(s, S)) = Elements(s) \ S
         /\ \A e \in T \ S : Without(Append(s, e), S) = Append(Without(s, S), e)
<1>1. Without(s, S) = Only(s, Elements(s) \ S)
  BY DEF Without, Elements
<1>2. ASSUME NEW e \in T \ S PROVE Without(Append(s, e), S) = Append(Without(s, S), e)
  <2> DEFINE R == Elements(Append(s, e)) \ S
  <2>1. Without(Append(s, e), S) = Only(Append(s, e), R)
    BY DEF Without, Elements
  <2>2. R = (Elements(s) \ S) \cup {e}
    BY ElementsOfAppend
  <2>3. Only(Append(s, e), R) = Append(Only(s, R), e)
    BY <2>2, OnlyOfAppend
  <2>4. Elements(s) \cap R = Elements(s) \cap (Elements(s) \ S)
    BY <2>2
  <2> HIDE DEF R
  <2>5. Only(s, R) = Only(s, Elements(s) \ S)
    BY <2>4, OnlyAgrees
  <2> QED BY <1>1, <2>1, <2>3, <2>5
<1>3. /\ Only(s, Elements(s) \ S) \in Seq(T)
      /\ Elements(Only(s, Elements(s) \ S)) = Elements(s) \cap (Elements(s) \ S)
  BY OnlyFacts
<1> QED BY <1>1, <1>2, <1>3

(* What is left is of the set it is filtered by. *)
LEMMA OnlyIsOfIts ==
  ASSUME NEW T, NEW S, NEW s \in Seq(T) PROVE Only(s, S) \in Seq(S)
<1>1. Only(s, S) \in Seq(T) /\ Elements(Only(s, S)) \subseteq S
  BY OnlyFacts
<1> QED BY <1>1 DEF Elements

(* The elements of two parts. *)
LEMMA ElementsOfConcat ==
  ASSUME NEW T, NEW s \in Seq(T), NEW t \in Seq(T)
  PROVE  Elements(s \o t) = Elements(s) \cup Elements(t)
<1>1. /\ s \o t \in Seq(T) /\ Len(s \o t) = Len(s) + Len(t)
      /\ \A i \in 1 .. Len(s) + Len(t) :
           (s \o t)[i] = IF i <= Len(s) THEN s[i] ELSE t[i - Len(s)]
  BY ConcatProperties
<1>2. Len(s) \in Nat /\ Len(t) \in Nat /\ DOMAIN s = 1 .. Len(s) /\ DOMAIN t = 1 .. Len(t)
      /\ DOMAIN (s \o t) = 1 .. Len(s) + Len(t)
  BY <1>1
<1> DEFINE u == s \o t
<1> HIDE DEF u
<1>3. ASSUME NEW e \in Elements(u) PROVE e \in Elements(s) \cup Elements(t)
  BY <1>1, <1>2, <1>3 DEF u, Elements
<1>4. ASSUME NEW i \in DOMAIN s PROVE s[i] \in Elements(u)
  BY <1>1, <1>2 DEF u, Elements
<1>5. ASSUME NEW i \in DOMAIN t PROVE t[i] \in Elements(u)
  <2>1. Len(s) + i \in 1 .. Len(s) + Len(t) /\ ~(Len(s) + i <= Len(s)) /\ (Len(s) + i) - Len(s) = i
    BY <1>2
  <2> QED BY <1>1, <1>2, <2>1 DEF u, Elements
<1> QED BY <1>3, <1>4, <1>5 DEF u, Elements

(* Two parts of distinct elements have none in common. *)
LEMMA PartsOfDistinct ==
  ASSUME NEW T, NEW s \in Seq(T), NEW t \in Seq(T), Distinct(s \o t)
  PROVE  Elements(s) \cap Elements(t) = {}
<1> SUFFICES ASSUME NEW i \in DOMAIN s, NEW j \in DOMAIN t, s[i] = t[j] PROVE FALSE
  BY DEF Elements
<1>1. /\ s \o t \in Seq(T) /\ Len(s \o t) = Len(s) + Len(t)
      /\ \A k \in 1 .. Len(s) + Len(t) :
           (s \o t)[k] = IF k <= Len(s) THEN s[k] ELSE t[k - Len(s)]
  BY ConcatProperties
<1>2. /\ i \in 1 .. Len(s) + Len(t) /\ i <= Len(s)
      /\ Len(s) + j \in 1 .. Len(s) + Len(t) /\ ~(Len(s) + j <= Len(s))
      /\ (Len(s) + j) - Len(s) = j /\ DOMAIN (s \o t) = 1 .. Len(s) + Len(t) /\ i # Len(s) + j
  BY <1>1
<1>3. (s \o t)[i] = s[i] /\ (s \o t)[Len(s) + j] = t[j]
  BY <1>1, <1>2
<1> QED BY <1>2, <1>3 DEF Distinct
=============================================================================
