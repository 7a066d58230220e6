-------------------------- MODULE Delivery_proofs --------------------------
(***************************************************************************)
(* The bounds of a cascade, the external connector's queue, the bridge on  *)
(* its far side, and the chat and the windows of a browser, for any rooms, *)
(* members, agents, polls, directives, Messages, connections and windows.  *)
(* What a dispatch offers its members is a fold of the state along them,   *)
(* as is what a page opens, and what a queue is drained by is a filter;    *)
(* what these compute is proved by induction on the stage, and on the      *)
(* sequence (NumbersFrom and SequencesFrom of RunEngine_proofs).  Each     *)
(* part's types come with its invariant; a delivery run takes a step of    *)
(* one part at a time, so it keeps what each promises.                     *)
(***************************************************************************)
EXTENDS MCDelivery, RunEngine_proofs, FiniteSetTheorems

-----------------------------------------------------------------------------
(* Seats *)

\* A member's process is busy exactly under a Run, and there as long as it is.
Manned(a) == Sound(a) /\ (a.cur # NoRun <=> a.busy) /\ (a.busy => a.up)

\* And between two handlers a member without a Run is off its wave, or was refused.
AtWork(a) == Manned(a) /\ (a.cur = NoRun => ~a.riding \/ Refused(a))

(* Every participant starts at rest. *)
LEMMA FreshSeatIsAtWork == AtWork(FreshSeat)
BY FreshSeatIsSound DEF AtWork, Manned, FreshSeat, NoRun

(* Whoever is reached rides, and has a Run and a prompted process or was refused. *)
LEMMA ReachedIsManned ==
  ASSUME NEW a \in Seats, Manned(a), NEW c \in Conversations, Kind = "pi",
         NEW b, b = Arrive(a, c), NEW s, s = Admit(b, c, Len(b.wakes), Aborted(b))
  PROVE  Manned(s) /\ s.riding /\ (a.busy => s.busy) /\ (s.cur # NoRun \/ Refused(s))
<1>1. /\ Sound(b) /\ b.up = a.up /\ b.busy = a.busy /\ b.cur = a.cur /\ Len(b.wakes) \in Nat
      /\ b \in Seats /\ b.riding
  <2>1. b.riding
    BY DEF Arrive, Seats
  <2> QED BY <2>1, ArriveIsSound DEF Manned, Sound
<1> DEFINE id == Len(b.wakes)
<1>2. Sound(Aborted(b).seat) /\ Aborted(b).seat = b /\ Keeps(b, b) /\ Aborted(b).cancelled = b.busy
  BY <1>1 DEF Aborted, Keeps
<1>3. Sound(s) /\ Keeps(b, s)
  BY <1>1, <1>2, AdmitIsSound
<1>4. CASE b.cur = NoRun /\ b.up
  <2>1. s = Stamp(Start(Open(b)), {id}, "sent")
    BY <1>1, <1>4 DEF Admit, Deliver, OpensLate, Manned
  <2>2. Open(b) = Register(b)
    BY <1>4 DEF Open, SettleOpenFor
  <2> DEFINE q == Start(Register(b))
  <2>3. q \in Seats /\ q.riding /\ q.busy /\ q.cur # NoRun
    <3>1. Register(b) \in Seats /\ Register(b).cur # NoRun /\ Register(b).riding
      BY <1>1, RegisterIsSound DEF Sound, Register, Seats
    <3> QED BY <3>1 DEF Start, Seats
  <2>4. s = Stamp(q, {id}, "sent")
    BY <2>1, <2>2
  <2> HIDE DEF q
  <2>5. s.riding /\ s.busy /\ s.cur # NoRun
    BY <2>3, <2>4 DEF Stamp, Seats
  <2> QED BY <2>5, <1>1, <1>3, <1>4 DEF Manned, Keeps
<1>6. CASE b.cur = NoRun /\ ~b.up
  <2>1. s = Stamp(b, {id}, "refused")
    BY <1>6 DEF Admit, Deliver
  <2>2. s.riding /\ s.cur = b.cur /\ s.busy = b.busy /\ ~b.busy /\ ~a.busy
    BY <1>1, <1>6, <2>1 DEF Stamp, Seats, Manned
  <2>3. Refused(s)
    <3>1. a.wakes \in Seq(Wakes) /\ b.wakes = Append(a.wakes, [conv |-> c, fate |-> "held"])
      BY SeatFields DEF Arrive, Seats
    <3> DEFINE ws == b.wakes
               w == [conv |-> c, fate |-> "held"]
    <3>2. Len(ws) = Len(a.wakes) + 1 /\ Len(ws) # 0 /\ id = Len(ws) /\ id \in DOMAIN ws
          /\ DOMAIN ws = 1 .. Len(ws) /\ ws[id] = w
      <4>1. w \in Wakes
        BY DEF Wakes, Fates
      <4> HIDE DEF w
      <4> QED BY <3>1, <4>1 DEF w
    <3>3. s.wakes = [i \in DOMAIN ws |-> IF i \in {id} THEN [ws[i] EXCEPT !.fate = "refused"]
                                                       ELSE ws[i]]
      BY <1>1, <2>1 DEF Stamp, Seats
    <3>4. [w EXCEPT !.fate = "refused"].fate = "refused"
      OBVIOUS
    <3>5. s.wakes[id].fate = "refused" /\ DOMAIN s.wakes = 1 .. id /\ s.wakes \in Seq(Wakes)
      <4>1. s.wakes \in Seq(Wakes)
        BY <1>3, SeatFields DEF Sound
      <4> HIDE DEF ws, w, id
      <4> QED BY <3>2, <3>3, <3>4, <4>1
    <3>6. Len(s.wakes) = id /\ s.wakes # <<>>
      <4> HIDE DEF id, ws
      <4> QED BY <3>2, <3>5
    <3> HIDE DEF id
    <3> QED BY <3>5, <3>6 DEF Refused
  <2> QED BY <2>2, <2>3, <1>1, <1>3, <1>6 DEF Manned, Keeps
<1>5. CASE b.cur # NoRun
  <2>1. b.busy
    BY <1>1, <1>5 DEF Manned
  <2>2. \/ s = Stamp(b, {id}, "sent") \/ s = Stamp(b, {id}, "refused")
        \/ s = Hold(b, c, id)
    BY <1>1, <1>2, <1>5, <2>1 DEF Admit, Deliver, Preempt, OpensLate
  <2>3. s.riding /\ s.busy /\ s.cur # NoRun
    BY <2>2, <2>1, <1>1, <1>5 DEF Stamp, Hold, Seats
  <2> QED BY <2>3, <1>1, <1>3 DEF Manned, Keeps
<1> QED BY <1>1, <1>4, <1>5, <1>6 DEF Manned

(* The end of a turn leaves its member at rest, or under the Run of a wake it had *)
(* held back.                                                                     *)
LEMMA EndedIsAtWork ==
  ASSUME NEW a \in Seats, Manned(a), a.busy, Kind = "pi",
         NEW s, s = SettleOpenFor([a EXCEPT !.busy = FALSE])
  PROVE  AtWork(s)
<1> DEFINE d == [a EXCEPT !.busy = FALSE]
           f == Forget(d, d.cur)
<1>1. /\ Sound(d) /\ d \in Seats /\ d.up /\ ~d.busy /\ d.cur = a.cur /\ d.cur # NoRun
      /\ d.cur \in d.open
  <2>1. Sound(d) /\ d.up /\ ~d.busy
    BY BusyField DEF Manned
  <2>2. d.cur = a.cur /\ a.cur # NoRun
    BY DEF Seats, Manned
  <2> HIDE DEF d
  <2> QED BY <2>1, <2>2 DEF Sound, Indexed
<1>2. Sound(s) /\ Keeps(d, s)
  <2>1. s = SettleOpenFor(d)
    OBVIOUS
  <2> HIDE DEF d
  <2> QED BY <1>1, <2>1, SettleOpenForIsSound
<1>3. f \in Seats /\ f.cur = NoRun /\ f.up /\ ~f.busy /\ Indexed(f)
  <2> HIDE DEF d
  <2> QED BY <1>1, SeatFields DEF Forget, Seats, NoRun, Indexed
<1>4. s = EndChain(FireHeld(f))
  <2>1. s = EndChain(Release(f))
    <3> HIDE DEF f
    <3>1. SettleOpenFor(d) = Settle(d, d.cur)
      BY <1>1 DEF SettleOpenFor
    <3> QED BY <1>1, <3>1 DEF Settle, f
  <2> HIDE DEF f
  <2> QED BY <2>1, <1>3 DEF Release
<1> HIDE DEF f
<1>5. CASE f.held = <<>>
  <2>1. s = [f EXCEPT !.riding = FALSE]
    BY <1>3, <1>4, <1>5 DEF FireHeld, EndChain
  <2>2. s.cur = NoRun /\ ~s.riding /\ ~s.busy
    BY <2>1, <1>3 DEF Seats
  <2> QED BY <2>2, <1>1, <1>2 DEF AtWork, Manned, Keeps
<1>6. CASE f.held # <<>>
  <2> DEFINE t == [f EXCEPT !.held = Tail(@)]
             q == Start(Register(t))
  <2>1. FireHeld(f) = Stamp(q, {Head(f.held).id}, "sent")
    BY <1>3, <1>6 DEF FireHeld, OpensLate
  <2>2. t \in Seats
    <3>1. Tail(f.held) \in Seq([conv : Conversations, id : Nat])
      BY <1>3, <1>6, SeatFields, RestTypes
    <3> QED BY <3>1, <1>3 DEF Seats
  <2>3. q \in Seats /\ q.busy /\ q.cur # NoRun
    <3> HIDE DEF t
    <3>1. Register(t) \in Seats /\ Register(t).cur # NoRun
      BY <2>2, RegisterIsSound DEF Sound
    <3> QED BY <3>1 DEF Start, Seats
  <2> HIDE DEF q
  <2>4. FireHeld(f) \in Seats /\ FireHeld(f).cur # NoRun /\ FireHeld(f).busy
    BY <2>1, <2>3, StampIsSound DEF Fates
  <2>5. s = FireHeld(f)
    BY <1>4, <2>4 DEF EndChain
  <2> QED BY <2>4, <2>5, <1>1, <1>2 DEF AtWork, Manned, Keeps
<1> QED BY <1>5, <1>6

-----------------------------------------------------------------------------
(* The accounts of the waves *)

\* What a dispatch and a settle change; the wave of a participant is never deeper
\* than the cascade may go.
States == [seats   : [Participants -> Seats],
           turn    : [Participants -> {"none", "asked", "begun"}],
           waves   : [Participants -> [id : Nat, depth : 0 .. MaxDepth]],
           spent   : [Waves \X Rooms -> Nat],
           hops    : [Participants -> Nat],
           charged : [Waves \X Rooms -> Nat]]

\* Every process is mid-turn exactly while it is busy, and who rides nothing has
\* no wave.
Seating(st) ==
  \A p \in Participants :
    /\ AtWork(st.seats[p])
    /\ st.seats[p].busy <=> st.turn[p] # "none"
    /\ ~st.seats[p].riding => st.waves[p] = NoWave

\* The waves there are have been handed out.
Numbered(st, m) == \A p \in Participants : st.waves[p].id <= m

Ridden(st, w) == \E p \in Participants : st.waves[p].id = w

\* What a wave has spent is what it was charged, as long as anybody rides it, while
\* it is dispatched (x) and before it is handed out; it never has spent too much.
Accounted(st, m, x) ==
  \A w \in Waves, r \in Rooms :
    /\ st.charged[<<w, r>>] <= MaxReactions /\ st.spent[<<w, r>>] <= MaxReactions
    /\ w > m \/ w = x \/ Ridden(st, w) => st.charged[<<w, r>>] = st.spent[<<w, r>>]

Kept(st, m, x) ==
  st \in States /\ Seating(st) /\ Numbered(st, m) /\ Accounted(st, m, x)

\* The invariant.
CascadeInv ==
  minted \in Nat /\ posts \in [Rooms -> Seq(Posts)] /\ Kept(Now, minted, 0)

(* The fields of a state have the types of States. *)
LEMMA StateFields ==
  ASSUME NEW st \in States
  PROVE  /\ st.seats \in [Participants -> Seats]
         /\ st.turn \in [Participants -> {"none", "asked", "begun"}]
         /\ st.waves \in [Participants -> [id : Nat, depth : 0 .. MaxDepth]]
         /\ st.spent \in [Waves \X Rooms -> Nat] /\ st.charged \in [Waves \X Rooms -> Nat]
         /\ st.hops \in [Participants -> Nat]
BY DEF States

(* The bounds are positive numbers, and a membership is a Conversation. *)
LEMMA Bounds ==
  /\ MaxDepth \in Nat \ {0} /\ MaxReactions \in Nat \ {0} /\ MaxPosts \in Nat \ {0}
  /\ Kind = "pi" /\ Conversations = Rooms \X Participants
  /\ Waves \subseteq Nat \ {0}
BY CascadeAssumption DEF Waves

(* Counting one more keeps a count. *)
LEMMA OneMore ==
  ASSUME NEW S, NEW f \in [S -> Nat], NEW x
  PROVE  [f EXCEPT ![x] = @ + 1] \in [S -> Nat]
<1>1. \A y \in S : f[y] \in Nat /\ f[y] + 1 \in Nat
  OBVIOUS
<1>2. \A y \in S : y = x => f[x] + 1 \in Nat
  BY <1>1
<1>3. CASE x \in S
  BY <1>2, <1>3
<1>4. CASE x \notin S
  BY <1>4
<1> QED BY <1>3, <1>4

(* And adds one there and nowhere else. *)
LEMMA OneMoreThere ==
  ASSUME NEW S, NEW f \in [S -> Nat], NEW x, NEW y \in S
  PROVE  [f EXCEPT ![x] = @ + 1][y] = IF y = x THEN f[y] + 1 ELSE f[y]
OBVIOUS

\* A delivery put seat s and turn t in p's place, p on the wave, and one wake on the
\* wave's account.
Reached(st, z, p, r, wave, s, t) ==
  /\ z.seats = [st.seats EXCEPT ![p] = s]
  /\ z.turn = [st.turn EXCEPT ![p] = t]
  /\ z.waves = [st.waves EXCEPT ![p] = [id |-> wave.id, depth |-> wave.depth + 1]]
  /\ z.spent = [st.spent EXCEPT ![<<wave.id, r>>] = @ + 1]
  /\ z.charged = [st.charged EXCEPT ![<<wave.id, r>>] = @ + 1]

(* A member who is reached: what the delivery leaves. *)
LEMMA ReachIs ==
  ASSUME NEW st \in States, Seating(st), NEW p \in Participants, NEW r \in Rooms,
         NEW wave \in [id : Nat, depth : Nat], NEW n \in Nat, wave.depth + 1 <= MaxDepth,
         NEW z, z = Reach(st, p, r, wave, n)
  PROVE  \E s \in Seats, t \in {"none", "asked", "begun"} :
           /\ z \in States /\ Reached(st, z, p, r, wave, s, t)
           /\ AtWork(s) /\ s.riding /\ (s.busy <=> t # "none")
<1> DEFINE a == st.seats[p]
           b == Arrive(a, <<r, p>>)
           s == Admit(b, <<r, p>>, Len(b.wakes), Aborted(b))
           t == IF st.turn[p] = "none" /\ s.busy THEN "asked" ELSE st.turn[p]
           w == [id |-> wave.id, depth |-> wave.depth + 1]
           next == [st EXCEPT !.waves[p] = w,
                              !.spent[<<wave.id, r>>] = @ + 1,
                              !.hops[p] = n + 1,
                              !.charged[<<wave.id, r>>] = @ + 1]
<1>1. a \in Seats /\ Manned(a) /\ <<r, p>> \in Conversations
  BY StateFields, Bounds DEF Seating, AtWork
<1>2. Manned(s) /\ s.riding /\ (a.busy => s.busy) /\ (s.cur # NoRun \/ Refused(s))
  <2> HIDE DEF a
  <2> QED BY <1>1, Bounds, ReachedIsManned
<1>3. s \in Seats /\ AtWork(s)
  BY <1>2 DEF AtWork, Manned, Sound
<1>4. t \in {"none", "asked", "begun"} /\ (s.busy <=> t # "none")
  <2>1. a.busy <=> st.turn[p] # "none"
    BY DEF Seating
  <2> HIDE DEF a, s
  <2> QED BY <1>2, <2>1, StateFields
<1>5. z = Seated(next, p, s)
  BY DEF Reach
<1> HIDE DEF s
<1>6. z = [next EXCEPT !.seats[p] = s,
                       !.turn[p] = IF @ = "none" /\ s.busy THEN "asked" ELSE @]
  BY <1>2, <1>5 DEF Seated
<1>7. w \in [id : Nat, depth : 0 .. MaxDepth]
  BY Bounds
<1> HIDE DEF w
<1>8. /\ [st.waves EXCEPT ![p] = w] \in [Participants -> [id : Nat, depth : 0 .. MaxDepth]]
      /\ [st.spent EXCEPT ![<<wave.id, r>>] = @ + 1] \in [Waves \X Rooms -> Nat]
      /\ [st.charged EXCEPT ![<<wave.id, r>>] = @ + 1] \in [Waves \X Rooms -> Nat]
      /\ [st.hops EXCEPT ![p] = n + 1] \in [Participants -> Nat]
  <2>1. /\ [st.waves EXCEPT ![p] = w] \in [Participants -> [id : Nat, depth : 0 .. MaxDepth]]
        /\ [st.hops EXCEPT ![p] = n + 1] \in [Participants -> Nat]
    BY <1>7, StateFields
  <2>2. /\ [st.spent EXCEPT ![<<wave.id, r>>] = @ + 1] \in [Waves \X Rooms -> Nat]
        /\ [st.charged EXCEPT ![<<wave.id, r>>] = @ + 1] \in [Waves \X Rooms -> Nat]
    BY StateFields, OneMore
  <2> QED BY <2>1, <2>2
<1>9. /\ next \in States /\ next.seats = st.seats /\ next.turn = st.turn
      /\ next.waves = [st.waves EXCEPT ![p] = w]
      /\ next.spent = [st.spent EXCEPT ![<<wave.id, r>>] = @ + 1]
      /\ next.charged = [st.charged EXCEPT ![<<wave.id, r>>] = @ + 1]
  BY <1>8 DEF States
<1>10. /\ [next.seats EXCEPT ![p] = s] \in [Participants -> Seats]
       /\ [next.turn EXCEPT ![p] = t] \in [Participants -> {"none", "asked", "begun"}]
  BY <1>3, <1>4, <1>9, StateFields
<1>11. t = IF next.turn[p] = "none" /\ s.busy THEN "asked" ELSE next.turn[p]
  BY <1>9
<1> HIDE DEF next, t
<1>12. /\ z \in States /\ z.seats = [next.seats EXCEPT ![p] = s]
       /\ z.turn = [next.turn EXCEPT ![p] = t] /\ z.waves = next.waves
       /\ z.spent = next.spent /\ z.charged = next.charged
  BY <1>6, <1>9, <1>10, <1>11 DEF States
<1>13. Reached(st, z, p, r, wave, s, t)
  BY <1>9, <1>12 DEF w, Reached
<1> QED BY <1>2, <1>3, <1>4, <1>12, <1>13

(* An offer keeps the accounts: a wake is charged to the budget it is spent from, *)
(* and to none that is used up.                                                   *)
LEMMA OfferKeeps ==
  ASSUME NEW m \in Nat, NEW wave \in [id : Nat, depth : Nat], wave.depth + 1 <= MaxDepth,
         NEW st, Kept(st, m, wave.id), NEW r \in Rooms, NEW message \in Posts,
         NEW p \in Participants, p # message.author => wave.id <= m
  PROVE  Kept(Offered(st, p, r, wave, message), m, wave.id)
<1> DEFINE x == wave.id
           z == Offered(st, p, r, wave, message)
<1>1. CASE p = message.author \/ Exhausted(st, x, r)
  BY <1>1 DEF Offered
<1>2. CASE p # message.author /\ ~Exhausted(st, x, r)
  <2>1. st \in States /\ Seating(st) /\ Numbered(st, m) /\ Accounted(st, m, x) /\ x \in Nat
    BY DEF Kept
  <2>2. message.hops \in Nat
    BY DEF Posts
  <2>3. z = Reach(st, p, r, wave, message.hops)
    BY <1>2 DEF Offered
  <2> DEFINE v == [id |-> x, depth |-> wave.depth + 1]
  <2>4. PICK s \in Seats, t \in {"none", "asked", "begun"} :
          /\ z \in States /\ Reached(st, z, p, r, wave, s, t)
          /\ AtWork(s) /\ s.riding /\ (s.busy <=> t # "none")
    <3> HIDE DEF z
    <3> QED BY <2>1, <2>2, <2>3, ReachIs
  <2>5. /\ v.id = x
        /\ \A q \in Participants :
             /\ z.seats[q] = IF q = p THEN s ELSE st.seats[q]
             /\ z.turn[q] = IF q = p THEN t ELSE st.turn[q]
             /\ z.waves[q] = IF q = p THEN v ELSE st.waves[q]
    BY <2>1, <2>4, StateFields DEF Reached
  <2>6. \A w \in Waves, q \in Rooms :
          /\ z.spent[<<w, q>>] = IF w = x /\ q = r THEN st.spent[<<w, q>>] + 1
                                                   ELSE st.spent[<<w, q>>]
          /\ z.charged[<<w, q>>] = IF w = x /\ q = r THEN st.charged[<<w, q>>] + 1
                                                     ELSE st.charged[<<w, q>>]
    <3> SUFFICES ASSUME NEW w \in Waves, NEW q \in Rooms
                 PROVE  /\ z.spent[<<w, q>>] = IF w = x /\ q = r THEN st.spent[<<w, q>>] + 1
                                                                ELSE st.spent[<<w, q>>]
                        /\ z.charged[<<w, q>>] = IF w = x /\ q = r THEN st.charged[<<w, q>>] + 1
                                                                  ELSE st.charged[<<w, q>>]
      OBVIOUS
    <3>1. <<w, q>> \in Waves \X Rooms /\ (<<w, q>> = <<x, r>> <=> w = x /\ q = r)
      OBVIOUS
    <3> DEFINE y == <<w, q>>
               k == <<x, r>>
    <3>2. /\ z.spent = [st.spent EXCEPT ![k] = @ + 1]
          /\ z.charged = [st.charged EXCEPT ![k] = @ + 1]
      BY <2>4 DEF Reached
    <3>3. st.spent \in [Waves \X Rooms -> Nat] /\ st.charged \in [Waves \X Rooms -> Nat]
      BY <2>1, StateFields
    <3> HIDE DEF y, k, z
    <3>4. /\ z.spent[y] = IF y = k THEN st.spent[y] + 1 ELSE st.spent[y]
          /\ z.charged[y] = IF y = k THEN st.charged[y] + 1 ELSE st.charged[y]
      BY <3>1, <3>2, <3>3, OneMoreThere DEF y
    <3> QED BY <3>1, <3>4 DEF y, k
  <2>7. \A w \in Waves, q \in Rooms :
          st.spent[<<w, q>>] \in Nat /\ st.charged[<<w, q>>] \in Nat
    BY <2>1, StateFields
  <2> HIDE DEF z, v
  <2>8. Seating(z)
    BY <2>1, <2>4, <2>5 DEF Seating
  <2>9. Numbered(z, m)
    BY <1>2, <2>1, <2>5 DEF Numbered
  <2>10. \A w : Ridden(z, w) => w = x \/ Ridden(st, w)
    BY <2>5 DEF Ridden
  <2>11. \A w \in Waves : w = x => st.spent[<<w, r>>] < MaxReactions
    BY <1>2, <2>7, Bounds DEF Exhausted
  <2>12. Accounted(z, m, x)
    <3> SUFFICES ASSUME NEW w \in Waves, NEW q \in Rooms
                 PROVE  /\ z.charged[<<w, q>>] <= MaxReactions
                        /\ z.spent[<<w, q>>] <= MaxReactions
                        /\ w > m \/ w = x \/ Ridden(z, w) =>
                             z.charged[<<w, q>>] = z.spent[<<w, q>>]
      BY DEF Accounted
    <3>1. /\ st.charged[<<w, q>>] <= MaxReactions /\ st.spent[<<w, q>>] <= MaxReactions
          /\ w > m \/ w = x \/ Ridden(st, w) => st.charged[<<w, q>>] = st.spent[<<w, q>>]
      BY <2>1 DEF Accounted
    <3>2. CASE w = x /\ q = r
      BY <3>1, <3>2, <2>6, <2>7, <2>11, Bounds
    <3>3. CASE ~(w = x /\ q = r)
      BY <3>1, <3>3, <2>6, <2>10
    <3> QED BY <3>2, <3>3
  <2>13. Kept(z, m, x)
    BY <2>4, <2>8, <2>9, <2>12 DEF Kept
  <2> QED BY <2>13 DEF z
<1> QED BY <1>1, <1>2

\* A dispatch is the fold of its offers along the members of the room.
Round(r, wave, message, n, f) ==
  f = [i \in 0 .. n |-> IF i = 0 THEN Now ELSE Offered(f[i - 1], Members[r][i], r, wave, message)]

(* There is such a fold, however many members the room has. *)
LEMMA RoundExists ==
  ASSUME NEW r, NEW wave, NEW message
  PROVE  \A n \in Nat : \E f : Round(r, wave, message, n, f)
<1> DEFINE Next1(s, i) == Offered(s, Members[r][i], r, wave, message)
           S == {n \in Nat : \E f : Round(r, wave, message, n, f)}
<1>1. 0 \in S
  <2> SUFFICES ASSUME NEW n \in Nat, n = 0 PROVE n \in S
    OBVIOUS
  <2> DEFINE g == [i \in 0 .. n |-> IF i = 0 THEN Now ELSE Next1(Now, i)]
  <2>1. \A i \in 0 .. n : g[i] = IF i = 0 THEN Now ELSE Next1(g[i - 1], i)
    OBVIOUS
  <2>2. g = [i \in 0 .. n |-> g[i]]
    OBVIOUS
  <2> HIDE DEF g
  <2>3. Round(r, wave, message, n, g)
    BY <2>1, <2>2 DEF Round
  <2> QED BY <2>3
<1>2. ASSUME NEW n \in Nat, n \in S PROVE n + 1 \in S
  <2>1. PICK f : Round(r, wave, message, n, f)
    BY <1>2
  <2> DEFINE g == [i \in 0 .. n + 1 |-> IF i = n + 1 THEN Next1(f[n], i) ELSE f[i]]
  <2>2. \A i \in 0 .. n + 1 : g[i] = IF i = 0 THEN Now ELSE Next1(g[i - 1], i)
    <3> SUFFICES ASSUME NEW i \in 0 .. n + 1
                 PROVE  g[i] = IF i = 0 THEN Now ELSE Next1(g[i - 1], i)
      OBVIOUS
    <3>1. CASE i = n + 1
      <4>1. i # 0 /\ i - 1 = n /\ n \in 0 .. n + 1 /\ n # n + 1
        BY <3>1
      <4>2. g[i] = Next1(f[n], i) /\ g[n] = f[n]
        BY <3>1, <4>1
      <4> QED BY <4>1, <4>2
    <3>2. CASE i # n + 1
      <4>1. i \in 0 .. n /\ (i # 0 => i - 1 \in 0 .. n /\ i - 1 \in 0 .. n + 1 /\ i - 1 # n + 1)
        BY <3>2
      <4>2. g[i] = f[i] /\ (i # 0 => g[i - 1] = f[i - 1])
        BY <3>2, <4>1
      <4>3. f[i] = IF i = 0 THEN Now ELSE Next1(f[i - 1], i)
        BY <2>1, <4>1 DEF Round
      <4> QED BY <4>2, <4>3
    <3> QED BY <3>1, <3>2
  <2>3. g = [i \in 0 .. n + 1 |-> g[i]]
    OBVIOUS
  <2> HIDE DEF g
  <2>4. Round(r, wave, message, n + 1, g)
    BY <2>2, <2>3 DEF Round
  <2> QED BY <2>4
<1>3. Nat \subseteq S
  <2> HIDE DEF S
  <2> QED BY <1>1, <1>2, NumbersFrom
<1> QED BY <1>3

(* And every stage of it keeps the accounts. *)
LEMMA RoundKeeps ==
  ASSUME NEW r \in Rooms, NEW message \in Posts, NEW m \in Nat,
         NEW wave \in [id : Nat, depth : Nat], wave.depth + 1 <= MaxDepth,
         \A p \in Participants : IsMember(p, r) /\ p # message.author => wave.id <= m,
         Kept(Now, m, wave.id), NEW f, Round(r, wave, message, Len(Members[r]), f)
  PROVE  Kept(f[Len(Members[r])], m, wave.id)
<1> DEFINE n == Len(Members[r])
           S == {i \in Nat : i <= n => Kept(f[i], m, wave.id)}
<1>1. n \in Nat /\ \A i \in 1 .. n : Members[r][i] \in Participants /\ IsMember(Members[r][i], r)
  <2>1. Members[r] \in Seq(Participants)
    BY CascadeAssumption
  <2> QED BY <2>1 DEF IsMember
<1> HIDE DEF n
<1>2. \A i \in 0 .. n :
        f[i] = IF i = 0 THEN Now ELSE Offered(f[i - 1], Members[r][i], r, wave, message)
  BY <1>1 DEF Round, n
<1>3. 0 \in S
  <2>1. 0 \in 0 .. n
    BY <1>1
  <2>2. f[0] = Now
    BY <1>2, <2>1
  <2>3. Kept(f[0], m, wave.id)
    BY <2>2
  <2> QED BY <2>3
<1>4. ASSUME NEW i \in Nat, i \in S PROVE i + 1 \in S
  <2> SUFFICES ASSUME i + 1 <= n PROVE Kept(f[i + 1], m, wave.id)
    OBVIOUS
  <2>1. i <= n /\ i + 1 \in 0 .. n /\ i + 1 \in 1 .. n /\ i + 1 # 0 /\ (i + 1) - 1 = i
    BY <1>1
  <2>2. Kept(f[i], m, wave.id)
    BY <1>4, <2>1
  <2>3. f[i + 1] = Offered(f[i], Members[r][i + 1], r, wave, message)
    BY <1>2, <2>1
  <2> DEFINE p == Members[r][i + 1]
  <2>4. p \in Participants /\ (p # message.author => wave.id <= m)
    BY <1>1, <2>1
  <2> HIDE DEF p
  <2>5. Kept(Offered(f[i], p, r, wave, message), m, wave.id)
    BY <2>2, <2>4, OfferKeeps
  <2> QED BY <2>3, <2>5 DEF p
<1>5. Nat \subseteq S
  <2> HIDE DEF S
  <2> QED BY <1>3, <1>4, NumbersFrom
<1>6. Kept(f[n], m, wave.id)
  BY <1>1, <1>5
<1> QED BY <1>6 DEF n

-----------------------------------------------------------------------------
(* The handlers *)

(* What a handler leaves is what it keeps. *)
LEMMA BecomesIt ==
  ASSUME NEW st, NEW m \in Nat, Kept(st, m, 0), Becomes(st), minted' = m,
         posts' \in [Rooms -> Seq(Posts)]
  PROVE  CascadeInv'
<1>1. st = [seats |-> st.seats, turn |-> st.turn, waves |-> st.waves,
            spent |-> st.spent, hops |-> st.hops, charged |-> st.charged]
  BY DEF Kept, States
<1>2. Now' = [seats |-> st.seats, turn |-> st.turn, waves |-> st.waves,
              spent |-> st.spent, hops |-> st.hops, charged |-> st.charged]
  BY DEF Becomes, Now
<1>3. Now' = st
  BY <1>1, <1>2
<1>4. Kept(Now, minted, 0)' <=> Kept(Now', minted', 0)
  BY DEF Kept, Seating, Numbered, Accounted, Ridden, States, AtWork, Manned, Sound,
         BehindRun, Indexed, Refused
<1> QED BY <1>3, <1>4 DEF CascadeInv

(* Nobody is at work before the first Message. *)
LEMMA CascadeInvInitially == CascadeInit => CascadeInv
<1> SUFFICES ASSUME CascadeInit PROVE CascadeInv
  OBVIOUS
<1>1. /\ Now.seats = [p \in Participants |-> FreshSeat]
      /\ Now.turn = [p \in Participants |-> "none"]
      /\ Now.waves = [p \in Participants |-> NoWave]
      /\ Now.spent = [x \in Waves \X Rooms |-> 0]
      /\ Now.charged = [x \in Waves \X Rooms |-> 0]
      /\ Now.hops = [p \in Participants |-> 0]
      /\ minted = 0 /\ posts = [r \in Rooms |-> <<>>]
  BY DEF CascadeInit, Now
<1>2. FreshSeat \in Seats /\ ~FreshSeat.busy
  BY FreshSeatIsAtWork DEF AtWork, Manned, Sound, FreshSeat
<1>3. NoWave \in [id : Nat, depth : 0 .. MaxDepth] /\ NoWave.id = 0
  BY Bounds DEF NoWave
<1>4. Now \in States
  <2>1. /\ seats \in [Participants -> Seats]
        /\ turn \in [Participants -> {"none", "asked", "begun"}]
        /\ waves \in [Participants -> [id : Nat, depth : 0 .. MaxDepth]]
        /\ spent \in [Waves \X Rooms -> Nat] /\ charged \in [Waves \X Rooms -> Nat]
        /\ hops \in [Participants -> Nat]
    BY <1>2, <1>3 DEF CascadeInit
  <2> QED BY <2>1 DEF Now, States
<1>5. Seating(Now)
  BY <1>1, <1>2, FreshSeatIsAtWork DEF Seating
<1>6. Numbered(Now, 0)
  BY <1>1, <1>3 DEF Numbered
<1>7. Accounted(Now, 0, 0)
  BY <1>1, Bounds DEF Accounted
<1>8. posts \in [Rooms -> Seq(Posts)]
  <2>1. <<>> \in Seq(Posts)
    OBVIOUS
  <2> QED BY <1>1, <2>1
<1> QED BY <1>1, <1>4, <1>5, <1>6, <1>7, <1>8 DEF CascadeInv, Kept

(* The wave of a Message is one its author rides, or a fresh one; its accounts are *)
(* settled from the start.                                                         *)
LEMMA WaveForFacts ==
  ASSUME NEW m \in Nat, NEW message \in Posts,
         CascadeInv, minted <= m
  PROVE  /\ WaveFor(message) \in [id : Nat, depth : Nat]
         /\ Kept(Now, m, WaveFor(message).id)
<1> DEFINE x == WaveFor(message).id
           author == message.author
<1>0. author \in Participants \cup {Human}
  BY DEF Posts
<1> HIDE DEF author
<1>1. /\ Now \in States /\ Seating(Now) /\ Numbered(Now, minted) /\ Accounted(Now, minted, 0)
      /\ minted \in Nat
  BY DEF CascadeInv, Kept
<1>2. waves = Now.waves /\ waves \in [Participants -> [id : Nat, depth : 0 .. MaxDepth]]
  BY <1>1, StateFields DEF Now
<1>3. WaveFor(message) \in [id : Nat, depth : Nat] /\ (x > minted \/ Ridden(Now, x))
  <2>1. CASE author = Human \/ message.fresh \/ waves[author] = NoWave
    BY <2>1, <1>1 DEF WaveFor, author
  <2>2. CASE author \in Participants /\ ~message.fresh /\ waves[author] # NoWave
    <3>1. WaveFor(message) = waves[author]
      BY <2>2, CascadeAssumption DEF WaveFor, author
    <3>2. waves[author] \in [id : Nat, depth : 0 .. MaxDepth]
      BY <1>2, <2>2
    <3>3. waves[author] \in [id : Nat, depth : Nat]
      BY <3>2, Bounds
    <3>4. Ridden(Now, x)
      BY <2>2, <3>1, <1>2 DEF Ridden
    <3> QED BY <3>1, <3>3, <3>4
  <2> QED BY <1>0, <2>1, <2>2
<1> HIDE DEF x
<1>4. Numbered(Now, m)
  <2>1. \A p \in Participants : Now.waves[p].id \in Nat
    BY <1>2
  <2> QED BY <1>1, <2>1 DEF Numbered
<1>5. Accounted(Now, m, x)
  <2> SUFFICES ASSUME NEW w \in Waves, NEW r \in Rooms
               PROVE  /\ Now.charged[<<w, r>>] <= MaxReactions
                      /\ Now.spent[<<w, r>>] <= MaxReactions
                      /\ w > m \/ w = x \/ Ridden(Now, w) =>
                           Now.charged[<<w, r>>] = Now.spent[<<w, r>>]
    BY DEF Accounted
  <2>1. w > m => w > minted
    BY <1>1, Bounds
  <2>2. w > m \/ w = x \/ Ridden(Now, w) => w > minted \/ Ridden(Now, w)
    BY <1>3, <2>1
  <2> QED BY <1>1, <2>2 DEF Accounted
<1> QED BY <1>1, <1>3, <1>4, <1>5 DEF Kept, x

(* Once a dispatch is over, nobody need account for its wave but its riders. *)
LEMMA DispatchedIsKept ==
  ASSUME NEW st, NEW m, NEW x, Kept(st, m, x)
  PROVE  Kept(st, m, 0)
<1>1. 0 \notin Waves
  BY Bounds
<1> QED BY <1>1 DEF Kept, Accounted

(* A dispatch keeps the accounts, whatever its members are up to. *)
LEMMA DispatchKeepsInv ==
  ASSUME CascadeInv, NEW r \in Rooms, Dispatch(r)
  PROVE  CascadeInv'
<1> DEFINE message == Head(posts[r])
           wave == WaveFor(message)
           n == Len(Members[r])
           after[i \in 0 .. n] ==
             IF i = 0 THEN Now ELSE Offered(after[i - 1], Members[r][i], r, wave, message)
           m == IF wave.id > minted /\ \E p \in Participants \ {message.author} : IsMember(p, r)
                  THEN wave.id ELSE minted
<1>1. /\ Becomes(IF TooDeep(wave) THEN Now ELSE after[n])
      /\ minted' = m /\ posts' = [posts EXCEPT ![r] = Tail(@)] /\ posts[r] # <<>>
  BY DEF Dispatch
<1>2. message \in Posts /\ posts' \in [Rooms -> Seq(Posts)] /\ minted \in Nat
  <2>1. posts \in [Rooms -> Seq(Posts)] /\ posts[r] \in Seq(Posts) /\ minted \in Nat
    BY DEF CascadeInv
  <2>2. message \in Posts /\ Tail(posts[r]) \in Seq(Posts)
    BY <1>1, <2>1, RestTypes
  <2> HIDE DEF message
  <2> QED BY <1>1, <2>1, <2>2
<1>4. n \in Nat
  <2>1. Members[r] \in Seq(Participants)
    BY CascadeAssumption
  <2> QED BY <2>1
<1>5. n \in Nat /\ Round(r, wave, message, n, after)
  <2>1. \E f : Round(r, wave, message, n, f)
    <3> HIDE DEF n, wave, message
    <3> QED BY <1>4, RoundExists
  <2> HIDE DEF n, wave, message
  <2> QED BY <1>4, <2>1 DEF Round
<1> HIDE DEF message, n, after
<1>6. wave.id \in Nat
  BY <1>2, WaveForFacts
<1> HIDE DEF wave
<1>7. m \in Nat /\ minted <= m
  BY <1>2, <1>6
<1>8. \A p \in Participants : IsMember(p, r) /\ p # message.author => wave.id <= m
  BY <1>2, <1>6
<1> HIDE DEF m
<1>9. wave \in [id : Nat, depth : Nat] /\ Kept(Now, m, wave.id)
  BY <1>2, <1>7, WaveForFacts DEF wave
<1>10. Kept(IF TooDeep(wave) THEN Now ELSE after[n], m, wave.id)
  <2>1. CASE TooDeep(wave)
    BY <2>1, <1>9
  <2>2. CASE ~TooDeep(wave)
    <3>1. wave.depth + 1 <= MaxDepth
      BY <2>2, <1>9, Bounds DEF TooDeep
    <3>2. Round(r, wave, message, Len(Members[r]), after)
      BY <1>5 DEF n
    <3>3. Kept(after[Len(Members[r])], m, wave.id)
      BY <1>2, <1>7, <1>8, <1>9, <3>1, <3>2, RoundKeeps
    <3> QED BY <2>2, <3>3 DEF n
  <2> QED BY <2>1, <2>2
<1>11. Kept(IF TooDeep(wave) THEN Now ELSE after[n], m, 0)
  BY <1>10, DispatchedIsKept
<1> QED BY <1>1, <1>2, <1>7, <1>11, BecomesIt

(* Leaving a wave keeps the accounts: the budget goes with the last rider. *)
LEMMA EvictKeeps ==
  ASSUME NEW st \in States, NEW m \in Nat, NEW p \in Participants,
         Numbered(st, m), Accounted(st, m, 0)
  PROVE  LET z == Evict(st, p)
         IN  /\ z \in States /\ Numbered(z, m) /\ Accounted(z, m, 0)
             /\ z.seats = st.seats /\ z.turn = st.turn
             /\ z.waves = [st.waves EXCEPT ![p] = NoWave]
<1> DEFINE w    == st.waves[p].id
           left == [st EXCEPT !.waves[p] = NoWave]
           gone == [x \in DOMAIN left.spent |-> IF x[1] = w THEN 0 ELSE left.spent[x]]
           over == [left EXCEPT !.spent = gone]
           z    == Evict(st, p)
<1>1. NoWave \in [id : Nat, depth : 0 .. MaxDepth] /\ NoWave.id = 0
  BY Bounds DEF NoWave
<1>2. [st.waves EXCEPT ![p] = NoWave] \in [Participants -> [id : Nat, depth : 0 .. MaxDepth]]
  BY <1>1, StateFields
<1>3. /\ left \in States /\ left.seats = st.seats /\ left.turn = st.turn
      /\ left.waves = [st.waves EXCEPT ![p] = NoWave]
      /\ left.spent = st.spent /\ left.charged = st.charged
  BY <1>2 DEF States
<1>4. \A q \in Participants :
        left.waves[q] = IF q = p THEN NoWave ELSE st.waves[q]
  BY <1>3, StateFields
<1>5. w \in Nat /\ w <= m
  BY StateFields DEF Numbered
<1> HIDE DEF left
<1>6. Numbered(left, m)
  BY <1>1, <1>4 DEF Numbered
<1>7. \A v \in Waves : Ridden(left, v) => Ridden(st, v)
  BY <1>1, <1>4, Bounds DEF Ridden
<1>8. Accounted(left, m, 0)
  BY <1>3, <1>7 DEF Accounted
<1>9. z = IF w = 0 \/ Ridden(left, w) THEN left ELSE over
  BY DEF Evict, Ridden, left
<1>10. CASE w = 0 \/ Ridden(left, w)
  BY <1>3, <1>6, <1>8, <1>9, <1>10
<1>11. CASE ~(w = 0 \/ Ridden(left, w))
  <2>1. gone \in [Waves \X Rooms -> Nat]
    BY <1>3, StateFields
  <2>2. \A v \in Waves, r \in Rooms :
          gone[<<v, r>>] = IF v = w THEN 0 ELSE st.spent[<<v, r>>]
    BY <1>3, StateFields
  <2> HIDE DEF gone
  <2>3. /\ over \in States /\ over.seats = st.seats /\ over.turn = st.turn
        /\ over.waves = left.waves /\ over.spent = gone /\ over.charged = st.charged
    BY <1>3, <2>1 DEF States
  <2> HIDE DEF over, w
  <2>4. Numbered(over, m)
    BY <1>6, <2>3 DEF Numbered
  <2>5. Accounted(over, m, 0)
    <3> SUFFICES ASSUME NEW v \in Waves, NEW r \in Rooms
                 PROVE  /\ over.charged[<<v, r>>] <= MaxReactions
                        /\ over.spent[<<v, r>>] <= MaxReactions
                        /\ v > m \/ v = 0 \/ Ridden(over, v) =>
                             over.charged[<<v, r>>] = over.spent[<<v, r>>]
      BY DEF Accounted
    <3>1. Ridden(over, v) => Ridden(left, v)
      BY <2>3 DEF Ridden
    <3>2. v = w => ~(v > m \/ v = 0 \/ Ridden(over, v))
      BY <1>5, <1>11, <3>1
    <3>3. /\ left.charged[<<v, r>>] <= MaxReactions /\ left.spent[<<v, r>>] <= MaxReactions
          /\ v > m \/ v = 0 \/ Ridden(left, v) =>
               left.charged[<<v, r>>] = left.spent[<<v, r>>]
      BY <1>8 DEF Accounted
    <3> QED BY <1>3, <2>2, <2>3, <3>1, <3>2, <3>3, Bounds
  <2> QED BY <1>3, <1>9, <1>11, <2>3, <2>4, <2>5
<1> QED BY <1>10, <1>11

(* A Message that is posted is still to be dispatched. *)
LEMMA PostKeepsInv ==
  ASSUME CascadeInv, NEW r \in Rooms, NEW author \in Participants \cup {Human}, NEW n \in Nat,
         NEW fresh \in BOOLEAN, Post(r, author, fresh, n)
  PROVE  CascadeInv'
<1> DEFINE message == [author |-> author, fresh |-> fresh, hops |-> n]
<1>1. Becomes(Now) /\ minted' = minted /\ posts' = [posts EXCEPT ![r] = Append(@, message)]
  BY DEF Post, Becomes, Now
<1>2. posts' \in [Rooms -> Seq(Posts)]
  <2>1. posts[r] \in Seq(Posts) /\ message \in Posts
    BY DEF CascadeInv, Posts
  <2> HIDE DEF message
  <2>2. Append(posts[r], message) \in Seq(Posts)
    BY <2>1
  <2> QED BY <1>1, <2>2 DEF CascadeInv
<1> QED BY <1>1, <1>2, BecomesIt DEF CascadeInv

(* A process that was prompted begins its turn. *)
LEMMA AgentStartKeepsInv ==
  ASSUME CascadeInv, NEW p \in Participants, AgentStart(p)
  PROVE  CascadeInv'
<1> DEFINE st == [Now EXCEPT !.turn[p] = "begun"]
<1>1. Becomes(st) /\ minted' = minted /\ posts' = posts /\ Now.turn[p] = "asked"
  BY DEF AgentStart, Becomes, Now
<1>2. Now \in States /\ Seating(Now) /\ Numbered(Now, minted) /\ Accounted(Now, minted, 0)
  BY DEF CascadeInv, Kept
<1>3. [Now.turn EXCEPT ![p] = "begun"] \in [Participants -> {"none", "asked", "begun"}]
  BY <1>2, StateFields
<1>4. /\ st \in States /\ st.seats = Now.seats /\ st.waves = Now.waves
      /\ st.turn = [Now.turn EXCEPT ![p] = "begun"]
      /\ st.spent = Now.spent /\ st.charged = Now.charged
  BY <1>2, <1>3 DEF States
<1>5. \A q \in Participants : st.turn[q] = IF q = p THEN "begun" ELSE Now.turn[q]
  BY <1>2, <1>4, StateFields
<1> HIDE DEF st
<1>6. Seating(st)
  BY <1>1, <1>2, <1>4, <1>5 DEF Seating
<1>7. Numbered(st, minted) /\ Accounted(st, minted, 0)
  BY <1>2, <1>4 DEF Numbered, Accounted, Ridden
<1>8. Kept(st, minted, 0)
  BY <1>4, <1>6, <1>7 DEF Kept
<1> QED BY <1>1, <1>8, BecomesIt DEF CascadeInv

(* A process that comes or goes had no turn. *)
LEMMA ComesOrGoesKeepsInv ==
  ASSUME CascadeInv, NEW p \in Participants, ComesOrGoes(p)
  PROVE  CascadeInv'
<1> DEFINE a == seats[p]
           s == [a EXCEPT !.up = ~a.up]
           st == [Now EXCEPT !.seats = [seats EXCEPT ![p] = s]]
<1>1. /\ Now \in States /\ Seating(Now) /\ Numbered(Now, minted) /\ Accounted(Now, minted, 0)
      /\ Now.seats = seats /\ Now.turn = turn /\ turn[p] = "none"
  BY DEF CascadeInv, Kept, ComesOrGoes, Now
<1>2. a \in Seats /\ AtWork(a) /\ ~a.busy
  BY <1>1, StateFields DEF Seating
<1>3. s \in Seats /\ AtWork(s) /\ s.busy = a.busy /\ s.riding = a.riding
  <2>1. Sound(s) /\ s.cur = a.cur /\ s.busy = a.busy
    <3> DEFINE up == ~a.up
    <3>1. up \in BOOLEAN /\ Sound(a) /\ a \in Seats
      BY <1>2 DEF AtWork, Manned
    <3> HIDE DEF a, up
    <3>2. Sound([a EXCEPT !.up = up]) /\ [a EXCEPT !.up = up].cur = a.cur
          /\ [a EXCEPT !.up = up].busy = a.busy
      BY <3>1, UpField
    <3> QED BY <3>2 DEF up
  <2>2. s.riding = a.riding /\ s.wakes = a.wakes
    BY <1>2 DEF Seats
  <2> HIDE DEF a, s
  <2> QED BY <1>2, <2>1, <2>2 DEF AtWork, Manned, Refused, Sound
<1>4. Becomes(st) /\ minted' = minted /\ posts' = posts
  BY DEF ComesOrGoes, Becomes, Now
<1> HIDE DEF s
<1>5. [seats EXCEPT ![p] = s] \in [Participants -> Seats]
  BY <1>1, <1>3, StateFields
<1>6. /\ st \in States /\ st.seats = [seats EXCEPT ![p] = s] /\ st.turn = Now.turn
      /\ st.waves = Now.waves /\ st.spent = Now.spent /\ st.charged = Now.charged
  BY <1>1, <1>5 DEF States
<1>7. \A q \in Participants : st.seats[q] = IF q = p THEN s ELSE Now.seats[q]
  BY <1>1, <1>6, StateFields
<1> HIDE DEF st
<1>8. Seating(st)
  BY <1>1, <1>3, <1>6, <1>7 DEF Seating
<1>9. Kept(st, minted, 0)
  BY <1>1, <1>6, <1>8 DEF Kept, Numbered, Accounted, Ridden
<1> QED BY <1>4, <1>9, BecomesIt DEF CascadeInv

(* A turn that ends leaves its member under the Run of a wake it had held back, or *)
(* at rest and off its wave.                                                       *)
LEMMA AgentEndKeepsInv ==
  ASSUME CascadeInv, NEW p \in Participants, AgentEnd(p)
  PROVE  CascadeInv'
<1> DEFINE rested == [Now EXCEPT !.turn[p] = "none"]
           s == SettleOpenFor([seats[p] EXCEPT !.busy = FALSE])
           t == IF s.busy THEN "asked" ELSE "none"
           next == [rested EXCEPT !.seats[p] = s,
                                 !.turn[p] = IF @ = "none" /\ s.busy THEN "asked" ELSE @]
           z == Seated(rested, p, s)
<1>1. Becomes(z) /\ minted' = minted /\ posts' = posts /\ turn[p] = "begun"
  BY DEF AgentEnd
<1>2. /\ Now \in States /\ Seating(Now) /\ Numbered(Now, minted) /\ Accounted(Now, minted, 0)
      /\ minted \in Nat
  BY DEF CascadeInv, Kept
<1>3. seats[p] \in Seats /\ Manned(seats[p]) /\ seats[p].busy
  <2>1. Now.seats = seats /\ Now.turn = turn
    BY DEF Now
  <2> QED BY <1>1, <1>2, <2>1, StateFields DEF Seating, AtWork
<1>4. AtWork(s) /\ s \in Seats
  BY <1>3, Bounds, EndedIsAtWork DEF AtWork, Manned, Sound
<1> HIDE DEF s
<1>5. /\ [Now.turn EXCEPT ![p] = "none"] \in [Participants -> {"none", "asked", "begun"}]
      /\ [Now.turn EXCEPT ![p] = t] \in [Participants -> {"none", "asked", "begun"}]
      /\ [Now.seats EXCEPT ![p] = s] \in [Participants -> Seats]
  BY <1>2, <1>4, StateFields
<1>6. /\ rested \in States /\ rested.seats = Now.seats /\ rested.waves = Now.waves
      /\ rested.turn = [Now.turn EXCEPT ![p] = "none"]
      /\ rested.spent = Now.spent /\ rested.charged = Now.charged
  BY <1>2, <1>5 DEF States
<1>7. [rested.turn EXCEPT ![p] = IF @ = "none" /\ s.busy THEN "asked" ELSE @]
        = [Now.turn EXCEPT ![p] = t]
  BY <1>2, <1>6, StateFields
<1> HIDE DEF rested, t
<1>8. /\ next \in States /\ next.seats = [Now.seats EXCEPT ![p] = s]
      /\ next.turn = [Now.turn EXCEPT ![p] = t] /\ next.waves = Now.waves
      /\ next.spent = Now.spent /\ next.charged = Now.charged
  BY <1>5, <1>6, <1>7 DEF States
<1>9. z = IF s.riding THEN next ELSE Evict(next, p)
  BY DEF Seated
<1> HIDE DEF next, z
<1>10. Numbered(next, minted) /\ Accounted(next, minted, 0)
  BY <1>2, <1>8 DEF Numbered, Accounted, Ridden
<1>11. /\ z \in States /\ Numbered(z, minted) /\ Accounted(z, minted, 0)
       /\ z.seats = next.seats /\ z.turn = next.turn
       /\ z.waves = IF s.riding THEN Now.waves ELSE [Now.waves EXCEPT ![p] = NoWave]
  BY <1>2, <1>8, <1>9, <1>10, EvictKeeps
<1>12. \A q \in Participants :
         /\ z.seats[q] = IF q = p THEN s ELSE Now.seats[q]
         /\ z.turn[q] = IF q = p THEN t ELSE Now.turn[q]
         /\ z.waves[q] = IF q = p /\ ~s.riding THEN NoWave ELSE Now.waves[q]
  BY <1>2, <1>8, <1>11, StateFields
<1>13. Seating(z)
  BY <1>2, <1>4, <1>12 DEF Seating, t
<1>14. Kept(z, minted, 0)
  BY <1>11, <1>13 DEF Kept
<1> QED BY <1>1, <1>2, <1>14, BecomesIt DEF CascadeInv

(* Every step keeps the accounts. *)
LEMMA CascadeKeepsInv == CascadeInv /\ [CascadeNext]_cascadeVars => CascadeInv'
<1> SUFFICES ASSUME CascadeInv, [CascadeNext]_cascadeVars PROVE CascadeInv'
  OBVIOUS
<1>1. ASSUME NEW r \in Rooms, HumanPosts(r) PROVE CascadeInv'
  BY <1>1, PostKeepsInv DEF HumanPosts
<1>2. ASSUME NEW r \in Rooms, Dispatch(r) PROVE CascadeInv'
  BY <1>2, DispatchKeepsInv
<1>3. ASSUME NEW p \in Participants, NEW r \in Rooms, Speak(p, r) PROVE CascadeInv'
  <2>1. hops[p] \in Nat
    BY <1>3 DEF CascadeInv, Kept, States, Now
  <2> QED BY <1>3, <2>1, PostKeepsInv DEF Speak
<1>4. ASSUME NEW p \in Participants, AgentStart(p) PROVE CascadeInv'
  BY <1>4, AgentStartKeepsInv
<1>5. ASSUME NEW p \in Participants, AgentEnd(p) PROVE CascadeInv'
  BY <1>5, AgentEndKeepsInv
<1>7. ASSUME NEW p \in DOMAIN ThreadOf, Report(p) PROVE CascadeInv'
  BY <1>7, PostKeepsInv, CascadeAssumption DEF Report
<1>8. ASSUME NEW p \in Participants, ComesOrGoes(p) PROVE CascadeInv'
  BY <1>8, ComesOrGoesKeepsInv
<1>6. CASE UNCHANGED cascadeVars
  <2>1. Becomes(Now) /\ minted' = minted /\ posts' = posts
    BY <1>6 DEF cascadeVars, Becomes, Now
  <2> QED BY <2>1, BecomesIt DEF CascadeInv
<1> QED BY <1>1, <1>2, <1>3, <1>4, <1>5, <1>6, <1>7, <1>8 DEF CascadeNext

(* The accounts are always kept. *)
LEMMA CascadeInvHolds == CascadeSpec => []CascadeInv
<1> QED BY CascadeInvInitially, CascadeKeepsInv, PTL DEF CascadeSpec

(* The budget of a wave (BudgetHolds): FanOutEngine.spend and evictWave never let   *)
(* a wave wake a Conversation's members more often than MAX_CONVERSATION_REACTIONS, *)
(* for any rooms, members and policies and however late its budget is reclaimed.    *)
THEOREM BudgetAlwaysHolds == CascadeSpec => []BudgetHolds
<1>1. CascadeInv => BudgetHolds
  <2> SUFFICES ASSUME CascadeInv, NEW x \in DOMAIN charged PROVE charged[x] <= MaxReactions
    BY DEF BudgetHolds
  <2>1. charged \in [Waves \X Rooms -> Nat] /\ Now.charged = charged
    BY DEF CascadeInv, Kept, States, Now
  <2>2. PICK w \in Waves, r \in Rooms : x = <<w, r>>
    BY <2>1
  <2>3. Now.charged[<<w, r>>] <= MaxReactions
    BY DEF CascadeInv, Kept, Accounted
  <2> QED BY <2>1, <2>2, <2>3
<1> QED BY <1>1, CascadeInvHolds, PTL

(* A finished chain leaves its wave (IdleRidesNothing): the settle listener takes *)
(* every participant with no Run and no turn off its wave, and only one whose last *)
(* wake was refused, so that no Run of it settles, is on one.                      *)
THEOREM IdleAlwaysRidesNothing == CascadeSpec => []IdleRidesNothing
<1>1. CascadeInv => IdleRidesNothing
  BY DEF CascadeInv, Kept, Seating, AtWork, Now, IdleRidesNothing, Idle
<1> QED BY <1>1, CascadeInvHolds, PTL

(* No deadlock between participants (HeldBehindTurn): whoever has a wake held back *)
(* has a turn under way, whose end releases it.                                    *)
THEOREM HeldIsAlwaysBehindTurn == CascadeSpec => []HeldBehindTurn
<1>1. CascadeInv => HeldBehindTurn
  BY DEF CascadeInv, Kept, Seating, AtWork, Manned, Sound, BehindRun, Now, HeldBehindTurn
<1> QED BY <1>1, CascadeInvHolds, PTL

(* No cascade is deeper than MAX_WAVE_DEPTH: the wave a participant rides never is. *)
THEOREM DepthAlwaysHolds ==
  CascadeSpec => [](\A p \in Participants : waves[p].depth <= MaxDepth)
<1>1. CascadeInv => \A p \in Participants : waves[p].depth <= MaxDepth
  BY Bounds DEF CascadeInv, Kept, States, Now
<1> QED BY <1>1, CascadeInvHolds, PTL

-----------------------------------------------------------------------------
(* DeliveryQueue *)

\* The parked polls are the waiting ones, and only a settled one has an answer; what
\* is queued or was collected is of the agent it was pushed for; whatever waits, and
\* whatever was handed out, is as the properties say.
QueueInv ==
  /\ queued \in Seq(Deliveries) /\ waiting \in Seq(Polls) /\ polls \in [Polls -> PollsOf]
  /\ pushed \in Seq(Agents) /\ dropped \subseteq DOMAIN pushed
  /\ Elements(waiting) = {k \in Polls : polls[k].state = "parked"}
  /\ \A k \in Polls : polls[k].state # "settled" => polls[k].got = <<>>
  /\ \A d \in Elements(queued) : d.id \in DOMAIN pushed /\ pushed[d.id] = d.agent
  /\ NobodyWaitsInVain /\ DeliveredOnceInOrder

(* The numbers of what is queued are those of its elements. *)
LEMMA IdsOfElements ==
  ASSUME NEW s PROVE Ids(s) = {d.id : d \in Elements(s)}
BY DEF Ids, Elements

(* What is left of an ascending sequence is ascending. *)
LEMMA OnlyAscending ==
  ASSUME NEW S
  PROVE  \A s \in Seq(Deliveries) : Ascending(s) => Ascending(Only(s, S))
<1> DEFINE Q == {s \in Seq(Deliveries) : Ascending(s) => Ascending(Only(s, S))}
<1>1. <<>> \in Q
  BY OnlyOfEmpty, EmptySeq
<1>2. ASSUME NEW s \in Seq(Deliveries), NEW e \in Deliveries, s \in Q PROVE Append(s, e) \in Q
  <2> SUFFICES ASSUME Ascending(Append(s, e)) PROVE Ascending(Only(Append(s, e), S))
    BY ElementsOfAppend
  <2>1. Ascending(s) /\ \A d \in Elements(s) : d.id < e.id
    <3>1. /\ \A i \in DOMAIN s : Append(s, e)[i] = s[i] /\ i \in DOMAIN Append(s, e)
                                  /\ i < Len(s) + 1
          /\ Append(s, e)[Len(s) + 1] = e /\ Len(s) + 1 \in DOMAIN Append(s, e)
      OBVIOUS
    <3> QED BY <3>1 DEF Ascending, Elements
  <2> DEFINE t == Only(s, S)
  <2>2. t \in Seq(Deliveries) /\ Elements(t) \subseteq Elements(s) /\ Ascending(t)
    BY <1>2, <2>1, OnlyFacts
  <2>3. Only(Append(s, e), S) = IF e \in S THEN Append(t, e) ELSE t
    BY OnlyOfAppend
  <2> HIDE DEF t
  <2>4. \A i \in DOMAIN t : t[i].id < e.id
    BY <2>1, <2>2 DEF Elements
  <2>5. Ascending(Append(t, e))
    BY <2>2, <2>4 DEF Ascending
  <2> QED BY <2>2, <2>3, <2>5
<1>3. Seq(Deliveries) \subseteq Q
  <2> HIDE DEF Q
  <2> QED BY <1>1, <1>2, SequencesFrom
<1> QED BY <1>3

(* A queue starts empty. *)
LEMMA QueueInvInitially == QueueInit => QueueInv
<1> SUFFICES ASSUME QueueInit PROVE QueueInv
  OBVIOUS
<1>1. /\ queued = <<>> /\ waiting = <<>> /\ pushed = <<>> /\ dropped = {}
      /\ \A k \in Polls : polls[k] = [scope |-> Everyone, state |-> "unmade",
                                      conn |-> "open", got |-> <<>>]
      /\ polls \in [Polls -> PollsOf]
  BY EmptySeq DEF QueueInit, PollsOf
<1>2. Elements(<<>>) = {} /\ Ids(<<>>) = {} /\ Ascending(<<>>) /\ DOMAIN <<>> = {}
  BY EmptySeq DEF Elements, Ids, Ascending
<1>3. NobodyWaitsInVain
  BY <1>1, <1>2 DEF NobodyWaitsInVain
<1>4. DeliveredOnceInOrder
  BY <1>1, <1>2 DEF DeliveredOnceInOrder, HandedOutOnce, CollectedInOrder
<1> QED BY <1>1, <1>2, <1>3, <1>4, EmptySeq DEF QueueInv

(* The fields of a poll. *)
LEMMA PollFields ==
  ASSUME NEW k, k \in PollsOf
  PROVE  /\ k.scope \in Agents \cup {Everyone} /\ k.state \in {"unmade", "parked", "settled"}
         /\ k.conn \in {"open", "broken", "aborted"} /\ k.got \in Seq(Deliveries)
         /\ \A ds \in Seq(Deliveries) :
              [k EXCEPT !.state = "settled", !.got = ds] \in PollsOf
BY DEF PollsOf

\* The parked polls among ks are answered with ds, and the others are left alone.
Answered(ks, ds, ps) ==
  /\ ps \in [Polls -> PollsOf]
  /\ \A k \in Polls : ps[k].scope = polls[k].scope /\ ps[k].conn = polls[k].conn
  /\ \A k \in Polls : (k \in ks /\ polls[k].state = "parked") =>
       ps[k].state = "settled" /\ ps[k].got = ds
  /\ \A k \in Polls : ~(k \in ks /\ polls[k].state = "parked") => ps[k] = polls[k]

(* That is what settling does. *)
LEMMA SettledFacts ==
  ASSUME QueueInv, NEW ks \in SUBSET Polls, NEW ds \in Seq(Deliveries)
  PROVE  Answered(ks, ds, Settled(ks, ds))
<1> DEFINE t == Settled(ks, ds)
<1>1. \A k \in Polls :
        t[k] = IF k \in ks /\ polls[k].state = "parked"
                 THEN [polls[k] EXCEPT !.state = "settled", !.got = ds] ELSE polls[k]
  BY DEF Settled
<1>2. t = [k \in Polls |-> t[k]]
  BY DEF Settled
<1> HIDE DEF t
<1>3. ASSUME NEW k \in Polls
      PROVE  /\ t[k] \in PollsOf /\ t[k].scope = polls[k].scope /\ t[k].conn = polls[k].conn
             /\ k \in ks /\ polls[k].state = "parked" => t[k].state = "settled" /\ t[k].got = ds
  <2> DEFINE p == polls[k]
             q == t[k]
  <2>1. p \in PollsOf
    BY DEF QueueInv
  <2>2. q = IF k \in ks /\ p.state = "parked"
              THEN [p EXCEPT !.state = "settled", !.got = ds] ELSE p
    BY <1>1
  <2> HIDE DEF p, q
  <2>3. /\ q \in PollsOf /\ q.scope = p.scope /\ q.conn = p.conn
        /\ k \in ks /\ p.state = "parked" => q.state = "settled" /\ q.got = ds
    BY <2>1, <2>2 DEF PollsOf
  <2> QED BY <2>3 DEF p, q
<1>4. t \in [Polls -> PollsOf]
  BY <1>2, <1>3
<1>5. Answered(ks, ds, t)
  BY <1>1, <1>3, <1>4 DEF Answered
<1> QED BY <1>5 DEF t

\* HandedOutOnce, of the numbers queued (q), dropped (r) and collected by each poll.
Once(n, q, r, got) ==
  /\ \A i : i \in n <=> i \in q \/ i \in r \/ \E k \in Polls : i \in got[k]
  /\ \A i \in q : i \notin r
  /\ \A k \in Polls : \A i \in got[k] : i \notin q /\ i \notin r
  /\ \A j, k \in Polls : j # k => \A i \in got[j] : i \notin got[k]

\* The numbers of the deliveries each poll was answered with.
CollectedBy == [k \in Polls |-> Ids(polls[k].got)]

(* It is that, before a step and after it. *)
LEMMA OnceIsHandedOut ==
  /\ HandedOutOnce <=> Once(DOMAIN pushed, Ids(queued), dropped, CollectedBy)
  /\ HandedOutOnce' <=> Once(DOMAIN pushed', Ids(queued'), dropped', CollectedBy')
<1>1. ASSUME NEW n, NEW q, NEW r, NEW got
      PROVE  (/\ n = q \cup r \cup UNION {got[k] : k \in Polls}
              /\ q \cap r = {}
              /\ \A k \in Polls : got[k] \cap (q \cup r) = {}
              /\ \A j, k \in Polls : j # k => got[j] \cap got[k] = {})
             <=> Once(n, q, r, got)
  BY DEF Once
<1>2. UNION {Ids(polls[k].got) : k \in Polls} = UNION {CollectedBy[k] : k \in Polls}
  BY DEF CollectedBy
<1>3. UNION {Ids(polls'[k].got) : k \in Polls} = UNION {CollectedBy'[k] : k \in Polls}
  BY DEF CollectedBy
<1>4. /\ \A k \in Polls : CollectedBy[k] = Ids(polls[k].got)
      /\ \A k \in Polls : CollectedBy'[k] = Ids(polls'[k].got)
  BY DEF CollectedBy
<1>5. HandedOutOnce <=> Once(DOMAIN pushed, Ids(queued), dropped, CollectedBy)
  <2>1. HandedOutOnce <=>
          (/\ DOMAIN pushed = Ids(queued) \cup dropped \cup UNION {CollectedBy[k] : k \in Polls}
           /\ Ids(queued) \cap dropped = {}
           /\ \A k \in Polls : CollectedBy[k] \cap (Ids(queued) \cup dropped) = {}
           /\ \A j, k \in Polls : j # k => CollectedBy[j] \cap CollectedBy[k] = {})
    BY <1>2, <1>4 DEF HandedOutOnce
  <2> QED BY <1>1, <2>1
<1>6. HandedOutOnce' <=> Once(DOMAIN pushed', Ids(queued'), dropped', CollectedBy')
  <2>1. HandedOutOnce' <=>
          (/\ DOMAIN pushed' = Ids(queued') \cup dropped' \cup UNION {CollectedBy'[k] : k \in Polls}
           /\ Ids(queued') \cap dropped' = {}
           /\ \A k \in Polls : CollectedBy'[k] \cap (Ids(queued') \cup dropped') = {}
           /\ \A j, k \in Polls : j # k => CollectedBy'[j] \cap CollectedBy'[k] = {})
    BY <1>3, <1>4 DEF HandedOutOnce, Ids
  <2> QED BY <1>1, <2>1
<1> QED BY <1>5, <1>6

\* The polls among ks were released with nothing, and the others stand as they were,
\* but for their connections.
Released(ks, ps) ==
  /\ ps \in [Polls -> PollsOf]
  /\ \A k \in Polls : ps[k].scope = polls[k].scope /\ ps[k].got = polls[k].got
  /\ \A k \in Polls : ps[k].state = "parked" <=> polls[k].state = "parked" /\ k \notin ks
  /\ \A k \in Polls : ps[k].state # "settled" => polls[k].state # "settled"

(* That is what settling them with nothing does. *)
LEMMA SettledReleases ==
  ASSUME QueueInv, NEW ks \in SUBSET Polls
  PROVE  Released(ks, Settled(ks, <<>>))
<1> DEFINE t == Settled(ks, <<>>)
<1> HIDE DEF t
<1>1. Answered(ks, <<>>, t)
  <2>1. <<>> \in Seq(Deliveries)
    BY EmptySeq
  <2> QED BY <2>1, SettledFacts DEF t
<1>2. \A k \in Polls : polls[k].state = "parked" => polls[k].got = <<>>
  BY DEF QueueInv
<1>3. Released(ks, t)
  BY <1>1, <1>2 DEF Released, Answered
<1> QED BY <1>3 DEF t

(* A release of parked polls brings nobody together with what is queued. *)
LEMMA ReleasedWaits ==
  ASSUME QueueInv, NEW ks \in SUBSET Polls, Released(ks, polls'),
         waiting' \in Seq(Polls), Elements(waiting') = Elements(waiting) \ ks,
         queued' \in Seq(Deliveries), Elements(queued') \subseteq Elements(queued)
  PROVE  /\ Elements(waiting)' = {k \in Polls : polls'[k].state = "parked"}
         /\ \A k \in Polls : polls'[k].state # "settled" => polls'[k].got = <<>>
         /\ NobodyWaitsInVain' /\ CollectedBy' = CollectedBy
<1>1. Elements(waiting)' = {k \in Polls : polls'[k].state = "parked"}
  BY DEF QueueInv, Elements, Released
<1>2. \A k \in Polls : polls'[k].state # "settled" => polls'[k].got = <<>>
  BY DEF QueueInv, Released
<1>3. NobodyWaitsInVain'
  <2> SUFFICES ASSUME NEW i \in DOMAIN queued', NEW j \in DOMAIN waiting',
                      polls'[waiting'[j]].scope \in {queued'[i].agent, Everyone}
               PROVE  FALSE
    BY DEF NobodyWaitsInVain, InScope
  <2>1. /\ waiting'[j] \in Elements(waiting') /\ queued'[i] \in Elements(queued')
        /\ waiting'[j] \in Polls
    BY DEF Elements
  <2>2. PICK m \in DOMAIN waiting : waiting[m] = waiting'[j]
    BY <2>1 DEF Elements
  <2>3. PICK l \in DOMAIN queued : queued[l] = queued'[i]
    BY <2>1 DEF Elements
  <2>4. polls[waiting[m]].scope \in {queued[l].agent, Everyone}
    BY <2>1, <2>2, <2>3 DEF Released
  <2> QED BY <2>4 DEF QueueInv, NobodyWaitsInVain, InScope
<1>4. CollectedBy' = CollectedBy
  BY DEF Released, CollectedBy, Ids
<1> QED BY <1>1, <1>2, <1>3, <1>4

(* A step that releases parked polls: a timeout, an abort; or none: a connection that *)
(* breaks.                                                                            *)
LEMMA ReleasedKeepsInv ==
  ASSUME QueueInv, NEW ks \in SUBSET Polls, Released(ks, polls'),
         waiting' \in Seq(Polls), Elements(waiting') = Elements(waiting) \ ks,
         UNCHANGED <<queued, pushed, dropped>>
  PROVE  QueueInv'
<1>1. queued' \in Seq(Deliveries) /\ Elements(queued') \subseteq Elements(queued)
  BY DEF QueueInv
<1>2. /\ Elements(waiting)' = {k \in Polls : polls'[k].state = "parked"}
      /\ \A k \in Polls : polls'[k].state # "settled" => polls'[k].got = <<>>
      /\ NobodyWaitsInVain' /\ CollectedBy' = CollectedBy
  BY <1>1, ReleasedWaits
<1>3. HandedOutOnce'
  BY <1>2, OnceIsHandedOut DEF QueueInv, DeliveredOnceInOrder
<1>4. CollectedInOrder'
  <2>1. CollectedInOrder /\ \A k \in Polls : polls'[k].got = polls[k].got
    BY DEF QueueInv, DeliveredOnceInOrder, Released
  <2>2. Ascending(queued') /\ \A k \in Polls : Ascending(polls'[k].got)
    BY <2>1 DEF CollectedInOrder
  <2>3. \A i, j \in DOMAIN pushed' :
          (i < j /\ pushed'[i] = pushed'[j] /\ i \in Ids(queued')) => j \in Ids(queued')
    BY <2>1 DEF CollectedInOrder
  <2> QED BY <2>2, <2>3 DEF CollectedInOrder, Ascending, Ids
<1>5. \A d \in Elements(queued)' : d.id \in DOMAIN pushed' /\ pushed'[d.id] = d.agent
  BY DEF QueueInv, Elements
<1>6. polls' \in [Polls -> PollsOf]
  BY DEF Released
<1> QED BY <1>1, <1>2, <1>3, <1>4, <1>5, <1>6 DEF QueueInv, DeliveredOnceInOrder

(* A timeout. *)
LEMMA TimeoutKeepsInv ==
  ASSUME QueueInv, NEW k \in Polls, Timeout(k) PROVE QueueInv'
<1>1. /\ polls' = Settled({k}, <<>>) /\ waiting' = Without(waiting, {k})
      /\ UNCHANGED <<queued, pushed, dropped>>
  BY DEF Timeout
<1>2. waiting' \in Seq(Polls) /\ Elements(waiting') = Elements(waiting) \ {k}
  BY <1>1, WithoutFacts DEF QueueInv
<1>3. {k} \in SUBSET Polls /\ Released({k}, polls')
  BY <1>1, SettledReleases
<1> QED BY <1>1, <1>2, <1>3, ReleasedKeepsInv

(* An abort. *)
LEMMA AbortKeepsInv ==
  ASSUME QueueInv, NEW k \in Polls, Abort(k) PROVE QueueInv'
<1> DEFINE t == Settled({k}, <<>>)
<1>1. /\ polls' = [t EXCEPT ![k].conn = "aborted"] /\ waiting' = Without(waiting, {k})
      /\ UNCHANGED <<queued, pushed, dropped>>
  BY DEF Abort
<1>2. waiting' \in Seq(Polls) /\ Elements(waiting') = Elements(waiting) \ {k}
  BY <1>1, WithoutFacts DEF QueueInv
<1>3. {k} \in SUBSET Polls /\ Released({k}, t)
  BY SettledReleases
<1> HIDE DEF t
<1>4. t \in [Polls -> PollsOf]
  BY <1>3 DEF Released
<1>5. polls' \in [Polls -> PollsOf]
  BY <1>1, <1>4 DEF PollsOf
<1>6. \A j \in Polls : /\ polls'[j].scope = t[j].scope /\ polls'[j].got = t[j].got
                       /\ polls'[j].state = t[j].state
  BY <1>1, <1>4 DEF PollsOf
<1>7. Released({k}, polls')
  BY <1>3, <1>5, <1>6 DEF Released
<1> QED BY <1>1, <1>2, <1>3, <1>7, ReleasedKeepsInv

(* A connection that breaks. *)
LEMMA BreakKeepsInv ==
  ASSUME QueueInv, NEW k \in Polls, Break(k) PROVE QueueInv'
<1>1. /\ polls' = [polls EXCEPT ![k].conn = "broken"]
      /\ UNCHANGED <<queued, waiting, pushed, dropped>>
  BY DEF Break
<1>2. polls' \in [Polls -> PollsOf]
  BY <1>1 DEF QueueInv, PollsOf
<1>3. \A j \in Polls : /\ polls'[j].scope = polls[j].scope /\ polls'[j].got = polls[j].got
                       /\ polls'[j].state = polls[j].state
  BY <1>1 DEF QueueInv, PollsOf
<1>4. Released({}, polls')
  BY <1>2, <1>3 DEF Released
<1>5. waiting' \in Seq(Polls) /\ Elements(waiting') = Elements(waiting) \ {}
  BY <1>1 DEF QueueInv
<1> QED BY <1>1, <1>4, <1>5, ReleasedKeepsInv

(* A scope divides the queue in two, each ascending, with no number in common. *)
LEMMA QueueDivides ==
  ASSUME QueueInv, NEW scope, NEW mine, mine = Only(queued, QueuedFor(scope)),
         NEW rest, rest = Without(queued, QueuedFor(scope))
  PROVE  /\ mine \in Seq(Deliveries) /\ rest \in Seq(Deliveries)
         /\ Elements(mine) = {d \in Elements(queued) : scope \in {d.agent, Everyone}}
         /\ Elements(rest) = {d \in Elements(queued) : scope \notin {d.agent, Everyone}}
         /\ Ids(queued) = Ids(mine) \cup Ids(rest) /\ Ids(mine) \cap Ids(rest) = {}
         /\ Ascending(mine) /\ Ascending(rest)
         /\ \A i, j \in DOMAIN pushed :
              (i < j /\ pushed[i] = pushed[j] /\ i \in Ids(rest)) => j \in Ids(rest)
<1>1. queued \in Seq(Deliveries) /\ Ascending(queued)
  BY DEF QueueInv, DeliveredOnceInOrder, CollectedInOrder
<1>2. QueuedFor(scope) = {d \in Elements(queued) : scope \in {d.agent, Everyone}}
  BY DEF QueuedFor, Elements
<1>3. /\ mine \in Seq(Deliveries) /\ rest \in Seq(Deliveries)
      /\ Elements(mine) = Elements(queued) \cap QueuedFor(scope)
      /\ Elements(rest) = Elements(queued) \ QueuedFor(scope)
  BY <1>1, OnlyFacts, WithoutFacts
<1>4. Ascending(mine) /\ Ascending(rest)
  BY <1>1, OnlyAscending DEF Without
<1>5. /\ Elements(mine) = {d \in Elements(queued) : scope \in {d.agent, Everyone}}
      /\ Elements(rest) = {d \in Elements(queued) : scope \notin {d.agent, Everyone}}
  BY <1>2, <1>3
<1>6. Ids(queued) = Ids(mine) \cup Ids(rest)
  BY <1>5, IdsOfElements
<1>7. ASSUME NEW i \in Ids(mine) \cap Ids(rest) PROVE FALSE
  <2>1. PICK d \in Elements(mine), e \in Elements(rest) : d.id = i /\ e.id = i
    BY <1>7, IdsOfElements
  <2>2. pushed[d.id] = d.agent /\ pushed[e.id] = e.agent
    BY <1>5, <2>1 DEF QueueInv
  <2> QED BY <1>5, <2>1, <2>2
<1>8. ASSUME NEW i \in DOMAIN pushed, NEW j \in DOMAIN pushed, i < j,
             pushed[i] = pushed[j], i \in Ids(rest)
      PROVE  j \in Ids(rest)
  <2>1. j \in Ids(queued)
    BY <1>6, <1>8 DEF QueueInv, DeliveredOnceInOrder, CollectedInOrder
  <2>2. PICK d \in Elements(rest), e \in Elements(queued) : d.id = i /\ e.id = j
    BY <1>8, <2>1, IdsOfElements
  <2>3. d.agent = e.agent
    BY <1>5, <1>8, <2>2 DEF QueueInv
  <2>4. e \in Elements(rest)
    BY <1>5, <2>2, <2>3
  <2> QED BY <2>2, <2>4, IdsOfElements
<1> QED BY <1>3, <1>4, <1>5, <1>6, <1>7, <1>8

(* The end of an agent. *)
LEMMA DropKeepsInv ==
  ASSUME QueueInv, NEW a \in Agents, Drop(a) PROVE QueueInv'
<1> DEFINE its  == {waiting[i] : i \in {j \in DOMAIN waiting : polls[waiting[j]].scope = a}}
           mine == Only(queued, QueuedFor(a))
           rest == Without(queued, QueuedFor(a))
<1>1. /\ queued' = rest /\ polls' = Settled(its, <<>>) /\ waiting' = Without(waiting, its)
      /\ dropped' = dropped \cup
           {queued[i].id : i \in {j \in DOMAIN queued : queued[j].agent = a}}
      /\ pushed' = pushed
  BY DEF Drop
<1>2. its \in SUBSET Polls
  BY DEF QueueInv
<1>3. /\ mine \in Seq(Deliveries) /\ rest \in Seq(Deliveries)
      /\ Elements(mine) = {d \in Elements(queued) : a \in {d.agent, Everyone}}
      /\ Elements(rest) = {d \in Elements(queued) : a \notin {d.agent, Everyone}}
      /\ Ids(queued) = Ids(mine) \cup Ids(rest) /\ Ids(mine) \cap Ids(rest) = {}
      /\ Ascending(rest)
      /\ \A i, j \in DOMAIN pushed :
           (i < j /\ pushed[i] = pushed[j] /\ i \in Ids(rest)) => j \in Ids(rest)
  BY QueueDivides
<1>4. dropped' = dropped \cup Ids(mine)
  <2>1. {queued[i].id : i \in {j \in DOMAIN queued : queued[j].agent = a}}
          = {d.id : d \in {e \in Elements(queued) : a \in {e.agent, Everyone}}}
    BY QueueAssumption DEF Elements
  <2> HIDE DEF mine
  <2> QED BY <1>1, <1>3, <2>1, IdsOfElements
<1>5. waiting' \in Seq(Polls) /\ Elements(waiting') = Elements(waiting) \ its
  BY <1>1, WithoutFacts DEF QueueInv
<1>6. Released(its, polls')
  BY <1>1, <1>2, SettledReleases
<1> HIDE DEF its, mine, rest
<1>7. /\ Elements(waiting)' = {k \in Polls : polls'[k].state = "parked"}
      /\ \A k \in Polls : polls'[k].state # "settled" => polls'[k].got = <<>>
      /\ NobodyWaitsInVain' /\ CollectedBy' = CollectedBy
  BY <1>1, <1>2, <1>3, <1>5, <1>6, ReleasedWaits
<1>8. Once(DOMAIN pushed, Ids(queued), dropped, CollectedBy)
  BY OnceIsHandedOut DEF QueueInv, DeliveredOnceInOrder
<1>9. HandedOutOnce'
  <2>1. Once(DOMAIN pushed', Ids(queued'), dropped', CollectedBy')
    <3>1. DOMAIN pushed' = DOMAIN pushed /\ Ids(queued') = Ids(rest)
      BY <1>1
    <3> QED BY <1>3, <1>4, <1>7, <1>8, <3>1 DEF Once
  <2> QED BY <2>1, OnceIsHandedOut
<1>10. CollectedInOrder'
  <2>1. Ascending(queued') /\ \A k \in Polls : Ascending(polls'[k].got)
    BY <1>1, <1>3, <1>6 DEF Released, QueueInv, DeliveredOnceInOrder, CollectedInOrder
  <2>3. DOMAIN pushed' = DOMAIN pushed /\ pushed' = pushed
    BY <1>1
  <2>4. \A i, j \in DOMAIN pushed' :
          (i < j /\ pushed'[i] = pushed'[j] /\ i \in Ids(queued')) => j \in Ids(queued')
    BY <1>1, <1>3, <2>3
  <2> QED BY <2>1, <2>4 DEF CollectedInOrder, Ascending, Ids
<1>11. \A d \in Elements(queued)' : d.id \in DOMAIN pushed' /\ pushed'[d.id] = d.agent
  BY <1>1, <1>3 DEF QueueInv, Elements
<1>12. dropped' \subseteq DOMAIN pushed'
  BY <1>1, <1>3, <1>4, <1>8 DEF QueueInv, Once
<1>13. polls' \in [Polls -> PollsOf] /\ queued' \in Seq(Deliveries) /\ pushed' \in Seq(Agents)
  BY <1>1, <1>3, <1>6 DEF Released, QueueInv
<1> QED BY <1>5, <1>7, <1>9, <1>10, <1>11, <1>12, <1>13 DEF QueueInv, DeliveredOnceInOrder

(* What a push numbers is new, and the greatest. *)
LEMMA PushNumbers ==
  ASSUME NEW T, NEW s \in Seq(T), NEW a \in T
  PROVE  LET t == Append(s, a)
             n == Len(t)
         IN  /\ t \in Seq(T) /\ n \in Nat /\ n \notin DOMAIN s /\ t[n] = a
             /\ DOMAIN t = DOMAIN s \cup {n} /\ DOMAIN s \subseteq Nat
             /\ \A i \in DOMAIN s : i < n /\ t[i] = s[i]
OBVIOUS

(* A push that finds nobody waiting. *)
LEMMA QueuedPushKeepsInv ==
  ASSUME QueueInv, NEW a \in Agents, pushed' = Append(pushed, a), Takers(a) = {},
         NEW d, d = [agent |-> a, id |-> Len(pushed')],
         queued' = Append(queued, d), UNCHANGED <<waiting, polls, dropped>>
  PROVE  QueueInv'
<1> DEFINE n == Len(pushed')
<1>1. /\ pushed' \in Seq(Agents) /\ n \in Nat /\ n \notin DOMAIN pushed /\ pushed'[n] = a
      /\ DOMAIN pushed' = DOMAIN pushed \cup {n} /\ DOMAIN pushed \subseteq Nat
      /\ \A i \in DOMAIN pushed : i < n /\ pushed'[i] = pushed[i]
  BY PushNumbers DEF QueueInv
<1>0. /\ waiting' \in Seq(Polls) /\ polls' \in [Polls -> PollsOf]
      /\ Elements(waiting') = {k \in Polls : polls'[k].state = "parked"}
      /\ \A k \in Polls : polls'[k].state # "settled" => polls'[k].got = <<>>
      /\ dropped' \subseteq DOMAIN pushed'
  BY <1>1 DEF QueueInv
<1>2. d \in Deliveries /\ d.agent = a /\ d.id = n
  BY <1>1 DEF Deliveries
<1> HIDE DEF n
<1>3. queued' \in Seq(Deliveries) /\ Elements(queued') = Elements(queued) \cup {d}
  BY <1>2, ElementsOfAppend DEF QueueInv
<1>4. Ids(queued') = Ids(queued) \cup {n}
  BY <1>2, <1>3, IdsOfElements
<1>5. \A e \in Elements(queued') : e.id \in DOMAIN pushed' /\ pushed'[e.id] = e.agent
  BY <1>1, <1>2, <1>3 DEF QueueInv
<1>6. HandedOutOnce'
  <2>1. Once(DOMAIN pushed, Ids(queued), dropped, CollectedBy)
    BY OnceIsHandedOut DEF QueueInv, DeliveredOnceInOrder
  <2>2. CollectedBy' = CollectedBy /\ dropped' = dropped
    BY DEF CollectedBy, Ids
  <2>3. Once(DOMAIN pushed', Ids(queued'), dropped', CollectedBy')
    BY <1>1, <1>4, <2>1, <2>2 DEF Once
  <2> QED BY <2>3, OnceIsHandedOut
<1>7. NobodyWaitsInVain'
  <2> SUFFICES ASSUME NEW i \in DOMAIN queued', NEW j \in DOMAIN waiting
               PROVE  ~InScope(waiting[j], queued'[i].agent)
    BY DEF NobodyWaitsInVain, InScope
  <2>1. CASE queued'[i] = d
    BY <1>2, <2>1 DEF Takers
  <2>2. CASE queued'[i] # d
    <3>1. queued'[i] \in Elements(queued')
      BY DEF Elements
    <3>2. PICK l \in DOMAIN queued : queued[l] = queued'[i]
      BY <1>3, <2>2, <3>1 DEF Elements
    <3> QED BY <3>2 DEF QueueInv, NobodyWaitsInVain
  <2> QED BY <2>1, <2>2
<1>8. CollectedInOrder'
  <2>1. Ascending(queued) /\ \A i \in DOMAIN queued : queued[i].id < n
    BY <1>1 DEF QueueInv, DeliveredOnceInOrder, CollectedInOrder, Elements
  <2>2. Ascending(queued')
    BY <1>2, <2>1 DEF Ascending, QueueInv
  <2>3. ASSUME NEW i \in DOMAIN pushed', NEW j \in DOMAIN pushed', i < j,
               pushed'[i] = pushed'[j], i \in Ids(queued')
        PROVE  j \in Ids(queued')
    <3>1. CASE j = n
      BY <1>4, <3>1
    <3>2. CASE j # n
      <4>1. j \in DOMAIN pushed /\ i \in DOMAIN pushed /\ pushed[i] = pushed[j]
        BY <1>1, <2>3, <3>2
      <4>2. i \in Ids(queued)
        BY <1>1, <1>4, <2>3, <4>1
      <4> QED BY <1>4, <2>3, <4>1, <4>2 DEF QueueInv, DeliveredOnceInOrder, CollectedInOrder
    <3> QED BY <3>1, <3>2
  <2>4. \A k \in Polls : Ascending(polls'[k].got)
    BY DEF QueueInv, DeliveredOnceInOrder, CollectedInOrder
  <2> QED BY <2>2, <2>3, <2>4 DEF CollectedInOrder, Ascending, Ids
<1> QED BY <1>0, <1>1, <1>3, <1>5, <1>6, <1>7, <1>8 DEF QueueInv, DeliveredOnceInOrder, Elements

(* A push that wakes the first poll it is for. *)
LEMMA WokenPushKeepsInv ==
  ASSUME QueueInv, NEW a \in Agents, pushed' = Append(pushed, a), Takers(a) # {},
         NEW d, d = [agent |-> a, id |-> Len(pushed')],
         polls' = Settled({FirstTaker(a)}, <<d>>),
         waiting' = Without(waiting, {FirstTaker(a)}), UNCHANGED <<queued, dropped>>
  PROVE  QueueInv'
<1> DEFINE n == Len(pushed')
           w == FirstTaker(a)
<1>1. /\ pushed' \in Seq(Agents) /\ n \in Nat /\ n \notin DOMAIN pushed /\ pushed'[n] = a
      /\ DOMAIN pushed' = DOMAIN pushed \cup {n} /\ DOMAIN pushed \subseteq Nat
      /\ \A i \in DOMAIN pushed : i < n /\ pushed'[i] = pushed[i]
  BY PushNumbers DEF QueueInv
<1>2. /\ d \in Deliveries /\ d.agent = a /\ d.id = n
      /\ <<d>> \in Seq(Deliveries) /\ Ids(<<d>>) = {n} /\ Ascending(<<d>>)
  BY <1>1 DEF Deliveries, Ids, Ascending
<1>3. PICK m \in DOMAIN waiting : w = waiting[m] /\ InScope(w, a)
  <2>1. Takers(a) \in SUBSET Nat
    BY DEF Takers, QueueInv
  <2>2. \E i \in Takers(a) : \A j \in Takers(a) : i <= j
    BY <2>1, LeastNumber
  <2>3. PICK i \in Takers(a) : w = waiting[i]
    BY <2>2 DEF FirstTaker
  <2> QED BY <2>3 DEF Takers
<1>4. w \in Polls /\ w \in Elements(waiting) /\ polls[w].state = "parked" /\ polls[w].got = <<>>
  <2>1. w \in Elements(waiting)
    BY <1>3 DEF Elements
  <2> QED BY <2>1 DEF QueueInv
<1> HIDE DEF n, w
<1>5. /\ polls' \in [Polls -> PollsOf]
      /\ polls'[w].scope = polls[w].scope /\ polls'[w].state = "settled" /\ polls'[w].got = <<d>>
      /\ \A k \in Polls \ {w} : polls'[k] = polls[k]
  <2>1. {w} \in SUBSET Polls /\ polls' = Settled({w}, <<d>>)
    BY <1>4 DEF w
  <2>2. Answered({w}, <<d>>, polls')
    BY <1>2, <2>1, SettledFacts
  <2> QED BY <1>4, <2>2 DEF Answered
<1>6. waiting' \in Seq(Polls) /\ Elements(waiting') = Elements(waiting) \ {w}
  BY WithoutFacts DEF QueueInv, w
<1>7. Elements(waiting') = {k \in Polls : polls'[k].state = "parked"}
  BY <1>4, <1>5, <1>6 DEF QueueInv
<1>8. \A k \in Polls : polls'[k].state # "settled" => polls'[k].got = <<>>
  BY <1>5 DEF QueueInv
<1>9. \A e \in Elements(queued') : e.id \in DOMAIN pushed' /\ pushed'[e.id] = e.agent
  BY <1>1 DEF QueueInv
<1>10. HandedOutOnce'
  <2>1. Once(DOMAIN pushed, Ids(queued), dropped, CollectedBy)
    BY OnceIsHandedOut DEF QueueInv, DeliveredOnceInOrder
  <2>2. CollectedBy[w] = {}
    BY <1>4, EmptySeq DEF CollectedBy, Ids
  <2>3. CollectedBy'[w] = {n} /\ \A k \in Polls \ {w} : CollectedBy'[k] = CollectedBy[k]
    <3>1. \A k \in Polls : /\ CollectedBy[k] = Ids(polls[k].got)
                            /\ CollectedBy'[k] = Ids(polls'[k].got)
      BY DEF CollectedBy
    <3>2. CollectedBy'[w] = {n}
      BY <3>1, <1>2, <1>4, <1>5
    <3>3. ASSUME NEW k \in Polls \ {w} PROVE CollectedBy'[k] = CollectedBy[k]
      BY <3>1, <1>5
    <3> QED BY <3>2, <3>3
  <2>4. Ids(queued') = Ids(queued) /\ dropped' = dropped
    BY DEF Ids
  <2>5. \A i \in Ids(queued) \cup dropped : i \in DOMAIN pushed
    BY <2>1 DEF Once
  <2>6. \A k \in Polls : \A i \in CollectedBy[k] : i \in DOMAIN pushed
    BY <2>1 DEF Once
  <2>7. Once(DOMAIN pushed', Ids(queued'), dropped', CollectedBy')
    <3>1. \A i : i \in DOMAIN pushed' <=>
                   i \in Ids(queued') \/ i \in dropped' \/ \E k \in Polls : i \in CollectedBy'[k]
      BY <1>1, <1>4, <2>1, <2>2, <2>3, <2>4 DEF Once
    <3>2. \A i \in Ids(queued') : i \notin dropped'
      BY <2>1, <2>4 DEF Once
    <3>3. \A k \in Polls : \A i \in CollectedBy'[k] : i \notin Ids(queued') /\ i \notin dropped'
      BY <1>1, <2>1, <2>3, <2>4, <2>5 DEF Once
    <3>4. \A j, k \in Polls : j # k => \A i \in CollectedBy'[j] : i \notin CollectedBy'[k]
      BY <1>1, <2>1, <2>3, <2>6 DEF Once
    <3> QED BY <3>1, <3>2, <3>3, <3>4 DEF Once
  <2> QED BY <2>7, OnceIsHandedOut
<1>11. NobodyWaitsInVain'
  <2> SUFFICES ASSUME NEW i \in DOMAIN queued, NEW j \in DOMAIN waiting',
                      polls'[waiting'[j]].scope \in {queued[i].agent, Everyone}
               PROVE  FALSE
    BY DEF NobodyWaitsInVain, InScope
  <2>1. waiting'[j] \in Elements(waiting') /\ waiting'[j] \in Polls
    BY <1>6 DEF Elements
  <2>2. PICK l \in DOMAIN waiting : waiting[l] = waiting'[j]
    BY <1>6, <2>1 DEF Elements
  <2>3. polls'[waiting'[j]] = polls[waiting[l]]
    BY <1>5, <1>6, <2>1, <2>2
  <2> QED BY <2>2, <2>3 DEF QueueInv, NobodyWaitsInVain, InScope
<1>12. CollectedInOrder'
  <2>1. \A k \in Polls : Ascending(polls'[k].got)
    BY <1>2, <1>5 DEF QueueInv, DeliveredOnceInOrder, CollectedInOrder
  <2>2. \A i \in DOMAIN queued : queued[i].agent # a
    BY <1>3 DEF QueueInv, NobodyWaitsInVain
  <2>3. ASSUME NEW i \in DOMAIN pushed', NEW j \in DOMAIN pushed', i < j,
               pushed'[i] = pushed'[j], i \in Ids(queued)
        PROVE  j \in Ids(queued)
    <3>1. PICK e \in Elements(queued) : e.id = i /\ e.agent # a
      BY <2>2, <2>3 DEF Ids, Elements
    <3>2. i \in DOMAIN pushed /\ pushed[i] # a
      BY <3>1 DEF QueueInv
    <3>3. j \in DOMAIN pushed /\ pushed[i] = pushed[j]
      BY <1>1, <2>3, <3>2
    <3> QED BY <2>3, <3>2, <3>3 DEF QueueInv, DeliveredOnceInOrder, CollectedInOrder
  <2>4. Ascending(queued')
    BY DEF QueueInv, DeliveredOnceInOrder, CollectedInOrder
  <2>5. \A i, j \in DOMAIN pushed' :
          (i < j /\ pushed'[i] = pushed'[j] /\ i \in Ids(queued')) => j \in Ids(queued')
    BY <2>3
  <2> QED BY <2>1, <2>4, <2>5 DEF CollectedInOrder, Ascending, Ids
<1>13. dropped' \subseteq DOMAIN pushed' /\ queued' \in Seq(Deliveries)
  BY <1>1 DEF QueueInv
<1> QED BY <1>1, <1>5, <1>6, <1>7, <1>8, <1>9, <1>10, <1>11, <1>12, <1>13
        DEF QueueInv, DeliveredOnceInOrder, Elements

(* A push. *)
LEMMA PushKeepsInv ==
  ASSUME QueueInv, NEW a \in Agents, Push(a) PROVE QueueInv'
<1> DEFINE d == [agent |-> a, id |-> Len(pushed')]
<1>1. /\ pushed' = Append(pushed, a) /\ UNCHANGED dropped
      /\ IF Takers(a) = {}
           THEN queued' = Append(queued, d) /\ UNCHANGED <<waiting, polls>>
           ELSE /\ polls' = Settled({FirstTaker(a)}, <<d>>)
                /\ waiting' = Without(waiting, {FirstTaker(a)})
                /\ UNCHANGED queued
  BY DEF Push
<1> HIDE DEF d
<1>2. CASE Takers(a) = {}
  BY <1>1, <1>2, QueuedPushKeepsInv DEF d
<1>3. CASE Takers(a) # {}
  BY <1>1, <1>3, WokenPushKeepsInv DEF d
<1> QED BY <1>2, <1>3

(* A poll: answered with what is queued for it, or parked. *)
LEMMA TakeKeepsInv ==
  ASSUME QueueInv, NEW k \in Polls, NEW scope \in Agents \cup {Everyone}, Take(k, scope)
  PROVE  QueueInv'
<1> DEFINE mine  == Only(queued, QueuedFor(scope))
           rest  == Without(queued, QueuedFor(scope))
           parks == mine = <<>> /\ polls[k].conn # "aborted"
<1>1. /\ polls[k].state = "unmade" /\ queued' = rest
      /\ polls' = [polls EXCEPT ![k].scope = scope, ![k].got = mine,
                                ![k].state = IF parks THEN "parked" ELSE "settled"]
      /\ waiting' = IF parks THEN Append(waiting, k) ELSE waiting
      /\ pushed' = pushed /\ dropped' = dropped
  BY DEF Take
<1>2. /\ mine \in Seq(Deliveries) /\ rest \in Seq(Deliveries)
      /\ Elements(rest) = {d \in Elements(queued) : scope \notin {d.agent, Everyone}}
      /\ Ids(queued) = Ids(mine) \cup Ids(rest) /\ Ids(mine) \cap Ids(rest) = {}
      /\ Ascending(mine) /\ Ascending(rest)
      /\ \A i, j \in DOMAIN pushed :
           (i < j /\ pushed[i] = pushed[j] /\ i \in Ids(rest)) => j \in Ids(rest)
  BY QueueDivides
<1>3. parks => mine = <<>>
  OBVIOUS
<1> HIDE DEF mine, rest, parks
<1>4. polls[k] \in PollsOf /\ polls \in [Polls -> PollsOf]
  BY DEF QueueInv
<1>5. /\ polls' \in [Polls -> PollsOf]
      /\ polls'[k].scope = scope /\ polls'[k].got = mine
      /\ polls'[k].state = IF parks THEN "parked" ELSE "settled"
      /\ \A j \in Polls \ {k} : polls'[j] = polls[j]
  BY <1>1, <1>2, <1>4 DEF PollsOf
<1>6. k \notin Elements(waiting) /\ polls[k].got = <<>>
  BY <1>1 DEF QueueInv
<1>7. /\ waiting' \in Seq(Polls)
      /\ Elements(waiting') = IF parks THEN Elements(waiting) \cup {k} ELSE Elements(waiting)
  <2>1. waiting \in Seq(Polls)
    BY DEF QueueInv
  <2>2. /\ Append(waiting, k) \in Seq(Polls)
        /\ Elements(Append(waiting, k)) = Elements(waiting) \cup {k}
    BY <2>1, ElementsOfAppend
  <2>3. CASE parks
    BY <1>1, <2>2, <2>3
  <2>4. CASE ~parks
    BY <1>1, <2>1, <2>4
  <2> QED BY <2>3, <2>4
<1>8. Elements(waiting') = {j \in Polls : polls'[j].state = "parked"}
  BY <1>5, <1>6, <1>7 DEF QueueInv
<1>9. \A j \in Polls : polls'[j].state # "settled" => polls'[j].got = <<>>
  BY <1>3, <1>5 DEF QueueInv
<1>10. \A d \in Elements(queued') : d.id \in DOMAIN pushed' /\ pushed'[d.id] = d.agent
  BY <1>1, <1>2 DEF QueueInv
<1>11. HandedOutOnce'
  <2>1. Once(DOMAIN pushed, Ids(queued), dropped, CollectedBy)
    BY OnceIsHandedOut DEF QueueInv, DeliveredOnceInOrder
  <2>2. CollectedBy[k] = {}
    BY <1>6, EmptySeq DEF CollectedBy, Ids
  <2>3. CollectedBy'[k] = Ids(mine) /\ \A j \in Polls \ {k} : CollectedBy'[j] = CollectedBy[j]
    BY <1>5 DEF CollectedBy, Ids
  <2>4. Ids(queued') = Ids(rest) /\ DOMAIN pushed' = DOMAIN pushed
    BY <1>1
  <2>5. Once(DOMAIN pushed', Ids(queued'), dropped', CollectedBy')
    <3>1. \A i : i \in DOMAIN pushed' <=>
                   i \in Ids(queued') \/ i \in dropped' \/ \E j \in Polls : i \in CollectedBy'[j]
      BY <1>1, <1>2, <2>1, <2>2, <2>3, <2>4 DEF Once
    <3>2. \A i \in Ids(queued') : i \notin dropped'
      BY <1>1, <1>2, <2>1, <2>4 DEF Once
    <3>3. \A j \in Polls : \A i \in CollectedBy'[j] : i \notin Ids(queued') /\ i \notin dropped'
      BY <1>1, <1>2, <2>1, <2>3, <2>4 DEF Once
    <3>4. \A i, j \in Polls : i # j => \A e \in CollectedBy'[i] : e \notin CollectedBy'[j]
      BY <1>2, <2>1, <2>3 DEF Once
    <3> QED BY <3>1, <3>2, <3>3, <3>4 DEF Once
  <2> QED BY <2>5, OnceIsHandedOut
<1>12. NobodyWaitsInVain'
  <2> SUFFICES ASSUME NEW i \in DOMAIN queued', NEW j \in DOMAIN waiting',
                      polls'[waiting'[j]].scope \in {queued'[i].agent, Everyone}
               PROVE  FALSE
    BY DEF NobodyWaitsInVain, InScope
  <2>1. waiting'[j] \in Elements(waiting') /\ waiting'[j] \in Polls
    BY <1>7 DEF Elements
  <2>2. queued'[i] \in Elements(queued) /\ scope \notin {queued'[i].agent, Everyone}
    <3>1. queued'[i] \in Elements(rest)
      BY <1>1 DEF Elements
    <3> QED BY <1>2, <3>1
  <2>3. waiting'[j] # k
    BY <1>5, <2>2
  <2>4. PICK l \in DOMAIN waiting : waiting[l] = waiting'[j]
    BY <1>7, <2>1, <2>3 DEF Elements
  <2>5. PICK m \in DOMAIN queued : queued[m] = queued'[i]
    BY <2>2 DEF Elements
  <2>6. polls'[waiting'[j]] = polls[waiting[l]]
    BY <1>5, <2>1, <2>3, <2>4
  <2> QED BY <2>4, <2>5, <2>6 DEF QueueInv, NobodyWaitsInVain, InScope
<1>13. CollectedInOrder'
  <2>1. Ascending(queued') /\ \A j \in Polls : Ascending(polls'[j].got)
    BY <1>1, <1>2, <1>5 DEF QueueInv, DeliveredOnceInOrder, CollectedInOrder
  <2>2. \A i, j \in DOMAIN pushed' :
          (i < j /\ pushed'[i] = pushed'[j] /\ i \in Ids(queued')) => j \in Ids(queued')
    BY <1>1, <1>2
  <2> QED BY <2>1, <2>2 DEF CollectedInOrder, Ascending, Ids
<1>14. /\ dropped' \subseteq DOMAIN pushed' /\ queued' \in Seq(Deliveries)
       /\ pushed' \in Seq(Agents)
  BY <1>1, <1>2 DEF QueueInv
<1> QED BY <1>5, <1>7, <1>8, <1>9, <1>10, <1>11, <1>12, <1>13, <1>14
        DEF QueueInv, DeliveredOnceInOrder, Elements

(* Every step of the queue. *)
LEMMA QueueKeepsInv == QueueInv /\ [QueueNext]_queueVars => QueueInv'
<1> SUFFICES ASSUME QueueInv, [QueueNext]_queueVars PROVE QueueInv'
  OBVIOUS
<1>1. ASSUME NEW a \in Agents, Push(a) PROVE QueueInv'
  BY <1>1, PushKeepsInv
<1>2. ASSUME NEW a \in Agents, Drop(a) PROVE QueueInv'
  BY <1>2, DropKeepsInv
<1>3. ASSUME NEW k \in Polls, NEW scope \in Agents \cup {Everyone}, Take(k, scope)
      PROVE  QueueInv'
  BY <1>3, TakeKeepsInv
<1>4. ASSUME NEW k \in Polls, Timeout(k) PROVE QueueInv'
  BY <1>4, TimeoutKeepsInv
<1>5. ASSUME NEW k \in Polls, Break(k) PROVE QueueInv'
  BY <1>5, BreakKeepsInv
<1>6. ASSUME NEW k \in Polls, Abort(k) PROVE QueueInv'
  BY <1>6, AbortKeepsInv
<1>7. CASE UNCHANGED queueVars
  <2>1. /\ queued' = queued /\ waiting' = waiting /\ polls' = polls
        /\ pushed' = pushed /\ dropped' = dropped
    BY <1>7 DEF queueVars
  <2>2. NobodyWaitsInVain' = NobodyWaitsInVain
    BY <2>1 DEF NobodyWaitsInVain, InScope
  <2>3. HandedOutOnce' = HandedOutOnce
    BY <2>1 DEF HandedOutOnce, Ids
  <2>4. CollectedInOrder' = CollectedInOrder
    BY <2>1 DEF CollectedInOrder, Ascending, Ids
  <2>5. Elements(waiting)' = Elements(waiting) /\ Elements(queued)' = Elements(queued)
    BY <2>1 DEF Elements
  <2> QED BY <2>1, <2>2, <2>3, <2>4, <2>5 DEF QueueInv, DeliveredOnceInOrder
<1> QED BY <1>1, <1>2, <1>3, <1>4, <1>5, <1>6, <1>7 DEF QueueNext

(* DeliveryQueue: the queue's invariant, of every reachable state. *)
LEMMA QueueAlwaysInv == QueueSpec => []QueueInv
BY QueueInvInitially, QueueKeepsInv, PTL DEF QueueSpec

(* No delivery is queued while a driver is parked that would take it, however many   *)
(* polls, scopes, timeouts and aborts there are (deliveryQueue push, take, settle).  *)
THEOREM NobodyEverWaitsInVain == QueueSpec => []NobodyWaitsInVain
<1>1. QueueInv => NobodyWaitsInVain
  BY DEF QueueInv
<1> QED BY <1>1, QueueAlwaysInv, PTL

(* Every delivery is in one place, is handed out once and in the order it was pushed *)
(* in, and goes only with its agent (deliveryQueue take, settle, drop).              *)
THEOREM DeliveredOnceInOrderAlways == QueueSpec => []DeliveredOnceInOrder
<1>1. QueueInv => DeliveredOnceInOrder
  BY DEF QueueInv
<1> QED BY <1>1, QueueAlwaysInv, PTL

-----------------------------------------------------------------------------
(* AttachBridge *)

\* Whose delivery is accounted for: of what was directed (d), but for what was lost
\* (l), the directives among what has run or is about to (r), the batch (b), the
\* poll's answer (g) and the Shell's queue (s), in this order.
Tally(d, l, r, b, g, s) ==
  /\ d \in Seq(Directives) /\ Distinct(d) /\ l \subseteq Elements(d)
  /\ r \in Seq(Directives \cup Mail)
  /\ b \in Seq(Directives) /\ g \in Seq(Directives) /\ s \in Seq(Directives)
  /\ Without(d, l) = Only(r, Directives) \o b \o g \o s

(* What Prime sends stands last. *)
LEMMA OneDirected ==
  ASSUME NEW d, NEW l, NEW r, NEW b, NEW g, NEW s, Tally(d, l, r, b, g, s),
         NEW e \in Directives, e \notin Elements(d)
  PROVE  Tally(Append(d, e), l, r, b, g, Append(s, e))
<1>1. /\ d \in Seq(Directives) /\ Distinct(d) /\ l \subseteq Elements(d)
      /\ r \in Seq(Directives \cup Mail) /\ b \in Seq(Directives) /\ g \in Seq(Directives)
      /\ s \in Seq(Directives) /\ Without(d, l) = Only(r, Directives) \o b \o g \o s
  BY DEF Tally
<1>2. /\ Append(d, e) \in Seq(Directives) /\ Append(s, e) \in Seq(Directives)
      /\ Elements(Append(d, e)) = Elements(d) \cup {e}
  BY <1>1, ElementsOfAppend
<1>3. Distinct(Append(d, e))
  <2>1. \A i \in DOMAIN d : d[i] # e
    BY DEF Elements
  <2> QED BY <1>1, <2>1 DEF Distinct
<1>4. Without(Append(d, e), l) = Append(Without(d, l), e)
  <2>1. e \in Directives \ l
    BY <1>1
  <2>2. \A f \in Directives \ l : Without(Append(d, f), l) = Append(Without(d, l), f)
    <3>1. d \in Seq(Directives)
      BY <1>1
    <3> QED BY <3>1, WithoutFacts
  <2> QED BY <2>1, <2>2
<1> DEFINE h == Only(r, Directives) \o b \o g
<1>5. h \in Seq(Directives)
  BY <1>1, OnlyIsOfIts, ConcatProperties
<1> HIDE DEF h
<1>6. h \o Append(s, e) = Append(h \o s, e)
  <2>1. s \in Seq(Directives)
    BY <1>1
  <2> QED BY <1>5, <2>1, AppendOfConcat
<1> QED BY <1>1, <1>2, <1>3, <1>4, <1>6 DEF Tally, h

(* The Shell's answer takes its queue. *)
LEMMA QueueAnswered ==
  ASSUME NEW d, NEW l, NEW r, NEW b, NEW s, Tally(d, l, r, b, <<>>, s)
  PROVE  Tally(d, l, r, b, s, <<>>)
<1>1. /\ r \in Seq(Directives \cup Mail) /\ b \in Seq(Directives) /\ s \in Seq(Directives)
      /\ Without(d, l) = Only(r, Directives) \o b \o <<>> \o s
  BY DEF Tally
<1>2. Only(r, Directives) \o b \in Seq(Directives)
  BY <1>1, OnlyIsOfIts, ConcatProperties
<1>3. Only(r, Directives) \o b \o s \in Seq(Directives)
  BY <1>1, <1>2, ConcatProperties
<1>4. Without(d, l) = Only(r, Directives) \o b \o s \o <<>>
  BY <1>1, <1>2, <1>3, ConcatEmptySeq
<1> QED BY <1>4, EmptySeq DEF Tally

(* An answer that is lost is lost as a whole. *)
LEMMA QueueLost ==
  ASSUME NEW d, NEW l, NEW r, NEW b, NEW s, Tally(d, l, r, b, <<>>, s)
  PROVE  Tally(d, l \cup Elements(s), r, b, <<>>, <<>>)
<1>1. /\ d \in Seq(Directives) /\ Distinct(d) /\ l \subseteq Elements(d)
      /\ r \in Seq(Directives \cup Mail) /\ b \in Seq(Directives) /\ s \in Seq(Directives)
      /\ Without(d, l) = Only(r, Directives) \o b \o <<>> \o s
  BY DEF Tally
<1> DEFINE h == Only(r, Directives) \o b
           w == Without(d, l)
           E == Elements(s)
<1>2. h \in Seq(Directives) /\ h \o <<>> = h
  BY <1>1, OnlyIsOfIts, ConcatProperties, ConcatEmptySeq
<1>3. w = h \o s
  BY <1>1, <1>2
<1>4. w \in Seq(Directives) /\ Elements(w) = Elements(d) \ l /\ Distinct(w)
  <2>1. w \in Seq(Directives) /\ Elements(w) = Elements(d) \ l
    BY <1>1, WithoutFacts
  <2>2. Distinct(Only(d, Elements(d) \ l))
    BY <1>1, OnlyDistinct
  <2> QED BY <2>1, <2>2 DEF Without, Elements
<1>5. Without(d, l) = Only(d, Elements(d) \ l) /\ Without(d, l \cup E) = Only(d, Elements(d) \ (l \cup E))
  BY DEF Without, Elements
<1>6. Only(w, Directives \ E) = Without(d, l \cup E)
  <2>1. Only(Only(d, Elements(d) \ l), Directives \ E) = Only(d, (Elements(d) \ l) \cap (Directives \ E))
    BY <1>1, OnlyOfOnly
  <2>2. Elements(d) \subseteq Directives
    BY <1>1 DEF Elements
  <2>3. Elements(d) \cap ((Elements(d) \ l) \cap (Directives \ E))
          = Elements(d) \cap (Elements(d) \ (l \cup E))
    BY <2>2
  <2>4. Only(d, (Elements(d) \ l) \cap (Directives \ E)) = Only(d, Elements(d) \ (l \cup E))
    BY <1>1, <2>3, OnlyAgrees
  <2> QED BY <1>5, <2>1, <2>4
<1> HIDE DEF h, w, E
<1>7. Only(h \o s, Directives \ E) = Only(h, Directives \ E) \o Only(s, Directives \ E)
  BY <1>1, <1>2, OnlyOfConcat
<1>8. Only(s, Directives \ E) = <<>>
  BY <1>1, OnlyOfNone DEF E
<1>9. Only(h, Directives \ E) = h
  <2>1. Elements(h) \subseteq Directives
    BY <1>2 DEF Elements
  <2>2. Elements(h) \cap E = {}
    BY <1>1, <1>2, <1>3, <1>4, PartsOfDistinct DEF E
  <2> QED BY <1>2, <2>1, <2>2, OnlyOfAll
<1>10. Without(d, l \cup E) = h \o <<>> \o <<>>
  BY <1>2, <1>3, <1>6, <1>7, <1>8, <1>9
<1>11. E \subseteq Elements(d)
  <2>1. E \subseteq Elements(w)
    BY <1>1, <1>2, <1>3, ElementsOfConcat DEF E
  <2> QED BY <1>4, <2>1
<1> QED BY <1>1, <1>10, <1>11, EmptySeq DEF Tally, h, E

(* The batch is what the poll brought, once the one before it is run. *)
LEMMA BatchTaken ==
  ASSUME NEW d, NEW l, NEW r, NEW g, NEW s, Tally(d, l, r, <<>>, g, s)
  PROVE  Tally(d, l, r, g, <<>>, s)
<1>1. /\ r \in Seq(Directives \cup Mail) /\ g \in Seq(Directives) /\ s \in Seq(Directives)
      /\ Without(d, l) = Only(r, Directives) \o <<>> \o g \o s
  BY DEF Tally
<1>2. Only(r, Directives) \in Seq(Directives) /\ Only(r, Directives) \o g \in Seq(Directives)
  BY <1>1, OnlyIsOfIts, ConcatProperties
<1>3. Without(d, l) = Only(r, Directives) \o g \o <<>> \o s
  BY <1>1, <1>2, ConcatEmptySeq
<1> QED BY <1>3, EmptySeq DEF Tally

(* The first of the batch is run next. *)
LEMMA NextOfBatch ==
  ASSUME NEW d, NEW l, NEW r, NEW b, NEW g, NEW s, Tally(d, l, r, b, g, s), b # <<>>
  PROVE  /\ Head(b) \in Directives
         /\ Tally(d, l, Append(r, Head(b)), Tail(b), g, s)
<1>1. /\ r \in Seq(Directives \cup Mail) /\ b \in Seq(Directives)
      /\ Without(d, l) = Only(r, Directives) \o b \o g \o s
  BY DEF Tally
<1>2. Head(b) \in Directives /\ Tail(b) \in Seq(Directives) /\ b = <<Head(b)>> \o Tail(b)
  BY <1>1, HeadTailProperties
<1>3. Only(r, Directives) \in Seq(Directives) /\ <<Head(b)>> \in Seq(Directives)
  BY <1>1, <1>2, OnlyIsOfIts
<1>4. Append(r, Head(b)) \in Seq(Directives \cup Mail)
  BY <1>1, <1>2, ElementsOfAppend
<1>5. Only(Append(r, Head(b)), Directives) = Append(Only(r, Directives), Head(b))
  <2> DEFINE e == Head(b)
  <2>1. e \in Directives \cup Mail /\ e \in Directives
    BY <1>2
  <2> HIDE DEF e
  <2>2. Only(Append(r, e), Directives)
          = IF e \in Directives THEN Append(Only(r, Directives), e) ELSE Only(r, Directives)
    <3>1. r \in Seq(Directives \cup Mail)
      BY <1>1
    <3> QED BY <2>1, <3>1, OnlyOfAppend
  <2> QED BY <2>1, <2>2 DEF e
<1>6. Append(Only(r, Directives), Head(b)) = Only(r, Directives) \o <<Head(b)>>
  BY <1>2, <1>3, AppendIsConcat
<1>7. Only(r, Directives) \o b = Only(r, Directives) \o <<Head(b)>> \o Tail(b)
  BY <1>2, <1>3, ConcatAssociative
<1>8. Without(d, l) = Only(Append(r, Head(b)), Directives) \o Tail(b) \o g \o s
  BY <1>1, <1>5, <1>6, <1>7
<1> QED BY <1>2, <1>4, <1>8 DEF Tally

(* A message of the launcher's is no directive. *)
LEMMA MailIsOther ==
  ASSUME NEW d, NEW l, NEW r, NEW b, NEW g, NEW s, Tally(d, l, r, b, g, s), NEW m \in Mail
  PROVE  Tally(d, l, Append(r, m), b, g, s)
<1>1. r \in Seq(Directives \cup Mail) /\ m \in Directives \cup Mail /\ m \notin Directives
  BY BridgeAssumption DEF Tally
<1>2. Append(r, m) \in Seq(Directives \cup Mail)
  BY <1>1, ElementsOfAppend
<1>3. Only(Append(r, m), Directives) = Only(r, Directives)
  BY <1>1, OnlyOfAppend
<1> QED BY <1>2, <1>3 DEF Tally

\* What has been turned into a prompt, or is about to.
Begun == ran \o Awaiting

\* Until the bridge is disposed: every directive is accounted for; only a poll that was
\* answered holds any; no item is at hand between the turns; and the batch that is left
\* is that of the turn at hand.
BridgeInv ==
  ~stopped =>
    /\ Tally(directed, lost, Begun, batch, poll.got, shell)
    /\ poll \in [state : {"none", "asked", "answered", "failed"}, got : Seq(Directives)]
    /\ poll.state # "answered" => poll.got = <<>>
    /\ inbox \in Seq(Mail) /\ ran \in Seq(Directives \cup Mail)
    /\ work \in Seq(Directives \cup Mail) /\ loop \in Places
    /\ loop \in {"starting", "top", "racing", "backoff", "batch"} => work = <<>>
    /\ loop \in {"starting", "top", "racing", "backoff"} => batch = <<>>
    /\ (loop \in {"opening", "prompting", "pushing"} /\ batch # <<>>) => work[1] \in Directives

(* Nothing is asked of a bridge before it starts. *)
LEMMA BridgeInvInitially == BridgeInit => BridgeInv
<1> SUFFICES ASSUME BridgeInit PROVE BridgeInv
  OBVIOUS
<1>1. /\ directed = <<>> /\ shell = <<>> /\ lost = {} /\ poll = NoPoll /\ batch = <<>>
      /\ inbox = <<>> /\ loop = "starting" /\ work = <<>> /\ ran = <<>>
  BY DEF BridgeInit
<1>2. \A T : <<>> \in Seq(T)
  BY EmptySeq
<1>3. Begun = <<>>
  <2>1. Awaiting = <<>>
    BY <1>1 DEF Awaiting
  <2>2. <<>> \o <<>> = <<>>
    BY <1>2, ConcatEmptySeq
  <2> QED BY <1>1, <2>1, <2>2 DEF Begun
<1>4. Tally(<<>>, {}, <<>>, <<>>, <<>>, <<>>)
  <2>1. Distinct(<<>>) /\ {} \subseteq Elements(<<>>)
    BY EmptySeq DEF Distinct
  <2>2. Without(<<>>, {}) = <<>> /\ Only(<<>>, Directives) = <<>>
    BY OnlyOfEmpty DEF Without
  <2>3. <<>> \o <<>> = <<>>
    BY <1>2, ConcatEmptySeq
  <2> QED BY <1>2, <2>1, <2>2, <2>3 DEF Tally
<1>5. poll.got = <<>> /\ poll.state = "none"
  BY <1>1 DEF NoPoll
<1>6. NoPoll \in [state : {"none", "asked", "answered", "failed"}, got : Seq(Directives)]
  BY <1>2 DEF NoPoll
<1> QED BY <1>1, <1>2, <1>3, <1>4, <1>5, <1>6 DEF BridgeInv, Places

(* A step that leaves every directive where it is: of the launcher, the agent, a turn *)
(* that streams, or a loop that goes on with nothing at hand.                         *)
LEMMA QuietKeepsInv ==
  ASSUME BridgeInv, ~stopped,
         UNCHANGED <<directed, lost, batch, poll, shell, ran, work, stopped>>,
         inbox' \in Seq(Mail),
         \/ loop' = loop
         \/ loop' = "top" /\ loop \in {"starting", "racing", "backoff"}
         \/ loop' = "over" /\ loop \in {"starting", "top", "opening"}
         \/ loop' = "pushing" /\ loop = "prompting"
  PROVE  BridgeInv'
<1>1. /\ Tally(directed, lost, Begun, batch, poll.got, shell)
      /\ poll \in [state : {"none", "asked", "answered", "failed"}, got : Seq(Directives)]
      /\ poll.state # "answered" => poll.got = <<>>
      /\ ran \in Seq(Directives \cup Mail)
      /\ work \in Seq(Directives \cup Mail) /\ loop \in Places
      /\ loop \in {"starting", "top", "racing", "backoff", "batch"} => work = <<>>
      /\ loop \in {"starting", "top", "racing", "backoff"} => batch = <<>>
      /\ (loop \in {"opening", "prompting", "pushing"} /\ batch # <<>>) => work[1] \in Directives
  BY DEF BridgeInv
<1>2. Awaiting' = Awaiting
  BY <1>1 DEF Awaiting
<1>3. Begun' = Begun
  BY <1>2 DEF Begun
<1>4. Tally(directed', lost', Begun', batch', poll'.got, shell')
  BY <1>1, <1>3
<1>5. loop' \in Places
  BY <1>1 DEF Places
<1>6. /\ loop' \in {"starting", "top", "racing", "backoff", "batch"} => work' = <<>>
      /\ loop' \in {"starting", "top", "racing", "backoff"} => batch' = <<>>
      /\ (loop' \in {"opening", "prompting", "pushing"} /\ batch' # <<>>) =>
           work'[1] \in Directives
  BY <1>1
<1> QED BY <1>1, <1>4, <1>5, <1>6 DEF BridgeInv

(* What the launcher sends, and what the agent takes of it, is mail. *)
LEMMA MailKeepsInv ==
  ASSUME BridgeInv, ~stopped,
         (\E m \in Mail : SendMail(m)) \/ (\E k \in Waits : AgentWaits(k) \/ WaitEnds(k))
  PROVE  BridgeInv'
<1>1. inbox \in Seq(Mail)
  BY DEF BridgeInv
<1>2. ASSUME NEW m \in Mail, SendMail(m) PROVE BridgeInv'
  <2>1. inbox' \in {inbox, Append(inbox, m)} /\ loop' = loop
        /\ UNCHANGED <<directed, lost, batch, poll, shell, ran, work, stopped>>
    BY <1>2 DEF SendMail, shellVars, turnVars, flags
  <2>2. inbox' \in Seq(Mail)
    BY <1>1, <2>1
  <2> QED BY <2>1, <2>2, QuietKeepsInv
<1>3. ASSUME NEW k \in Waits, AgentWaits(k) PROVE BridgeInv'
  <2>1. /\ inbox' = inbox \/ (inbox # <<>> /\ inbox' = Tail(inbox))
        /\ loop' = loop
        /\ UNCHANGED <<directed, lost, batch, poll, shell, ran, work, stopped>>
    BY <1>3 DEF AgentWaits, shellVars, turnVars, flags
  <2>2. inbox' \in Seq(Mail)
    BY <1>1, <2>1, HeadTailProperties
  <2> QED BY <2>1, <2>2, QuietKeepsInv
<1>4. ASSUME NEW k \in Waits, WaitEnds(k) PROVE BridgeInv'
  <2>1. /\ inbox' = inbox /\ loop' = loop
        /\ UNCHANGED <<directed, lost, batch, poll, shell, ran, work, stopped>>
    BY <1>4 DEF WaitEnds, shellVars, turnVars, flags
  <2> QED BY <1>1, <2>1, QuietKeepsInv
<1> QED BY <1>2, <1>3, <1>4

(* The turn's own steps, and the ends of the agent and of the tab. *)
LEMMA TurnKeepsInv ==
  ASSUME BridgeInv, ~stopped,
         \/ StartLoop \/ PeerWins \/ Wake \/ OpenFails \/ Update \/ PromptEnds \/ PushEvent
         \/ AgentExits \/ TabGoes
  PROVE  BridgeInv'
<1>1. /\ inbox' = inbox
      /\ UNCHANGED <<directed, lost, batch, poll, shell, ran, work, stopped>>
  BY DEF StartLoop, PeerWins, Wake, OpenFails, Update, PromptEnds, PushEvent, AgentExits,
         TabGoes, shellVars, mailVars, turnVars, flags
<1>2. \/ loop' = loop
      \/ loop' = "top" /\ loop \in {"starting", "racing", "backoff"}
      \/ loop' = "over" /\ loop \in {"starting", "top", "opening"}
      \/ loop' = "pushing" /\ loop = "prompting"
  BY DEF StartLoop, PeerWins, Wake, OpenFails, Update, PromptEnds, PushEvent, AgentExits, TabGoes
<1>3. inbox' \in Seq(Mail)
  BY <1>1 DEF BridgeInv
<1> QED BY <1>1, <1>2, <1>3, QuietKeepsInv

(* A directive, and what becomes of those the Shell holds when it is polled. *)
LEMMA ShellKeepsInv ==
  ASSUME BridgeInv, ~stopped,
         \/ \E d \in Directives : Direct(d)
         \/ PollAnswered \/ \E drained \in BOOLEAN : PollFails(drained)
  PROVE  BridgeInv'
<1> DEFINE AtHand ==
      /\ inbox \in Seq(Mail) /\ ran \in Seq(Directives \cup Mail)
      /\ work \in Seq(Directives \cup Mail) /\ loop \in Places
      /\ loop \in {"starting", "top", "racing", "backoff", "batch"} => work = <<>>
      /\ loop \in {"starting", "top", "racing", "backoff"} => batch = <<>>
      /\ (loop \in {"opening", "prompting", "pushing"} /\ batch # <<>>) => work[1] \in Directives
<1>1. /\ Tally(directed, lost, Begun, batch, poll.got, shell) /\ AtHand
      /\ poll \in [state : {"none", "asked", "answered", "failed"}, got : Seq(Directives)]
      /\ poll.state # "answered" => poll.got = <<>>
  BY DEF BridgeInv
<1>2. UNCHANGED <<inbox, ran, work, loop, batch, stopped>>
  BY DEF Direct, PollAnswered, PollFails, mailVars, turnVars, flags
<1>3. AtHand' /\ ~stopped' /\ Begun' = Begun /\ batch' = batch
  BY <1>1, <1>2 DEF Begun, Awaiting
<1> DEFINE Polled == [state : {"none", "asked", "answered", "failed"}, got : Seq(Directives)]
           Told == /\ Tally(directed', lost', Begun, batch, poll'.got, shell')
                   /\ poll' \in Polled /\ (poll'.state # "answered" => poll'.got = <<>>)
<1>4. SUFFICES Told
  BY <1>3 DEF BridgeInv
<1> HIDE DEF AtHand
<1>5. /\ Range(directed) = Elements(directed) /\ Range(shell) = Elements(shell)
      /\ <<>> \in Seq(Directives)
  BY EmptySeq DEF Range, Elements
<1>6. ASSUME NEW d \in Directives, Direct(d) PROVE Told
  <2>1. /\ d \notin Elements(directed) /\ directed' = Append(directed, d)
        /\ shell' = Append(shell, d) /\ lost' = lost /\ poll' = poll
    BY <1>5, <1>6 DEF Direct
  <2>2. Tally(Append(directed, d), lost, Begun, batch, poll.got, Append(shell, d))
    BY <1>1, <2>1, OneDirected
  <2> QED BY <1>1, <2>1, <2>2
<1>7. CASE PollAnswered
  <2>1. /\ poll.got = <<>> /\ poll' = [state |-> "answered", got |-> shell]
        /\ shell' = <<>> /\ directed' = directed /\ lost' = lost
    BY <1>1, <1>7 DEF PollAnswered
  <2>2. Tally(directed, lost, Begun, batch, shell, <<>>) /\ shell \in Seq(Directives)
    BY <1>1, <2>1, QueueAnswered DEF Tally
  <2>3. poll' \in Polled /\ poll'.got = shell /\ poll'.state = "answered"
    BY <2>1, <2>2
  <2> QED BY <2>1, <2>2, <2>3
<1>8. ASSUME NEW drained \in BOOLEAN, PollFails(drained) PROVE Told
  <2>1. /\ poll.got = <<>> /\ poll' = [state |-> "failed", got |-> <<>>]
        /\ directed' = directed
        /\ \/ shell' = shell /\ lost' = lost
           \/ shell' = <<>> /\ lost' = lost \cup Elements(shell)
    BY <1>1, <1>5, <1>8 DEF PollFails
  <2>2. Tally(directed, lost \cup Elements(shell), Begun, batch, <<>>, <<>>)
    BY <1>1, <2>1, QueueLost
  <2>3. poll' \in Polled /\ poll'.got = <<>>
    BY <1>5, <2>1
  <2> QED BY <1>1, <2>1, <2>2, <2>3
<1> QED BY <1>6, <1>7, <1>8

(* The head of the loop: over, a launcher message at hand, or the race. *)
LEMMA TopKeepsInv ==
  ASSUME BridgeInv, ~stopped, Top PROVE BridgeInv'
<1>1. /\ Tally(directed, lost, Begun, batch, poll.got, shell)
      /\ poll \in [state : {"none", "asked", "answered", "failed"}, got : Seq(Directives)]
      /\ poll.state # "answered" => poll.got = <<>>
      /\ inbox \in Seq(Mail) /\ ran \in Seq(Directives \cup Mail)
      /\ loop = "top" /\ work = <<>> /\ batch = <<>>
  BY DEF BridgeInv, Top
<1>2. UNCHANGED <<directed, lost, batch, shell, ran, stopped>>
  BY DEF Top, shellVars, flags
<1>3. CASE loop' = "over" /\ UNCHANGED <<inbox, work, poll>>
  BY <1>1, <1>2, <1>3, QuietKeepsInv
<1>4. CASE /\ inbox # <<>> /\ loop' = "opening" /\ poll' = poll
           /\ work' = <<Head(inbox)>> /\ inbox' = Tail(inbox)
  <2>1. Head(inbox) \in Mail /\ inbox' \in Seq(Mail)
    BY <1>1, <1>4, HeadTailProperties
  <2>2. work' \in Seq(Directives \cup Mail)
    BY <1>4, <2>1
  <2>3. Begun = ran /\ Begun' = Append(ran, Head(inbox))
    <3>1. Begun = ran \o <<>> /\ Begun' = ran \o <<Head(inbox)>>
      BY <1>1, <1>2, <1>4 DEF Begun, Awaiting
    <3>2. ran \o <<>> = ran /\ Head(inbox) \in Directives \cup Mail
      BY <1>1, <2>1, ConcatEmptySeq
    <3> QED BY <1>1, <3>1, <3>2, AppendIsConcat
  <2>4. Tally(directed', lost', Begun', batch', poll'.got, shell')
    BY <1>1, <1>2, <1>4, <2>1, <2>3, MailIsOther
  <2>5. batch' = <<>> /\ ran' \in Seq(Directives \cup Mail)
    BY <1>1, <1>2
  <2> QED BY <1>1, <1>2, <1>4, <2>1, <2>2, <2>4, <2>5 DEF BridgeInv, Places
<1>5. CASE /\ loop' = "racing" /\ UNCHANGED <<inbox, work>>
           /\ poll' = IF poll.state = "none" THEN [poll EXCEPT !.state = "asked"] ELSE poll
  <2>1. /\ poll' \in [state : {"none", "asked", "answered", "failed"}, got : Seq(Directives)]
        /\ poll'.got = poll.got /\ (poll'.state # "answered" => poll'.got = <<>>)
    BY <1>1, <1>5
  <2>2. Begun' = Begun
    BY <1>1, <1>2, <1>5 DEF Begun, Awaiting
  <2>3. Tally(directed', lost', Begun', batch', poll'.got, shell')
    BY <1>1, <1>2, <2>1, <2>2
  <2>4. inbox' \in Seq(Mail) /\ ran' \in Seq(Directives \cup Mail) /\ work' = <<>>
        /\ work' \in Seq(Directives \cup Mail) /\ batch' = <<>>
    BY <1>1, <1>2, <1>5, EmptySeq
  <2> QED BY <1>5, <2>1, <2>3, <2>4 DEF BridgeInv, Places
<1> QED BY <1>3, <1>4, <1>5 DEF Top

(* The poll wins the race: its answer is the batch. *)
LEMMA PollWinsKeepsInv ==
  ASSUME BridgeInv, ~stopped, PollWins PROVE BridgeInv'
<1>1. /\ Tally(directed, lost, Begun, batch, poll.got, shell)
      /\ poll.state # "answered" => poll.got = <<>>
      /\ inbox \in Seq(Mail) /\ ran \in Seq(Directives \cup Mail)
      /\ loop = "racing" /\ work = <<>> /\ batch = <<>>
  BY DEF BridgeInv, PollWins
<1>2. /\ UNCHANGED <<directed, lost, shell, inbox, ran, work, stopped>>
      /\ batch' = poll.got /\ poll' = NoPoll
      /\ \/ loop' = "backoff" /\ poll.state = "failed"
         \/ loop' = "batch"
  BY DEF PollWins, shellVars, mailVars, turnVars, flags
<1>3. Begun' = Begun
  BY <1>1, <1>2 DEF Begun, Awaiting
<1>4. /\ poll' \in [state : {"none", "asked", "answered", "failed"}, got : Seq(Directives)]
      /\ poll'.got = <<>>
  BY <1>2, EmptySeq DEF NoPoll
<1>5. Tally(directed', lost', Begun', batch', poll'.got, shell')
  BY <1>1, <1>2, <1>3, <1>4, BatchTaken
<1>6. inbox' \in Seq(Mail) /\ ran' \in Seq(Directives \cup Mail) /\ work' = <<>>
      /\ work' \in Seq(Directives \cup Mail)
  BY <1>1, <1>2, EmptySeq
<1>7. loop' = "backoff" => batch' = <<>>
  BY <1>1, <1>2
<1> QED BY <1>2, <1>4, <1>5, <1>6, <1>7 DEF BridgeInv, Places

(* The next of the batch is at hand, or the loop is back at its head. *)
LEMMA NextDeliveryKeepsInv ==
  ASSUME BridgeInv, ~stopped, NextDelivery PROVE BridgeInv'
<1>1. /\ Tally(directed, lost, Begun, batch, poll.got, shell)
      /\ poll \in [state : {"none", "asked", "answered", "failed"}, got : Seq(Directives)]
      /\ poll.state # "answered" => poll.got = <<>>
      /\ inbox \in Seq(Mail) /\ ran \in Seq(Directives \cup Mail)
      /\ loop = "batch" /\ work = <<>>
  BY DEF BridgeInv, NextDelivery
<1>2. UNCHANGED <<directed, lost, poll, shell, inbox, ran, stopped>>
  BY DEF NextDelivery, shellVars, mailVars, flags
<1>3. /\ inbox' \in Seq(Mail) /\ ran' \in Seq(Directives \cup Mail)
      /\ poll' \in [state : {"none", "asked", "answered", "failed"}, got : Seq(Directives)]
      /\ poll'.state # "answered" => poll'.got = <<>>
  BY <1>1, <1>2
<1>4. CASE batch = <<>> /\ loop' = "top" /\ UNCHANGED <<batch, work>>
  <2>1. Begun' = Begun
    BY <1>1, <1>2, <1>4 DEF Begun, Awaiting
  <2>2. Tally(directed', lost', Begun', batch', poll'.got, shell')
    BY <1>1, <1>2, <1>4, <2>1
  <2>3. work' = <<>> /\ work' \in Seq(Directives \cup Mail) /\ batch' = <<>>
    BY <1>1, <1>4, EmptySeq
  <2> QED BY <1>3, <1>4, <2>2, <2>3 DEF BridgeInv, Places
<1>5. CASE /\ batch # <<>> /\ loop' = "opening"
           /\ work' = <<Head(batch)>> /\ batch' = Tail(batch)
  <2>1. /\ Head(batch) \in Directives
        /\ Tally(directed, lost, Append(Begun, Head(batch)), Tail(batch), poll.got, shell)
    BY <1>1, <1>5, NextOfBatch
  <2>2. work' \in Seq(Directives \cup Mail) /\ work'[1] \in Directives
    BY <1>5, <2>1
  <2>3. Begun' = Append(Begun, Head(batch))
    <3>1. Begun = ran \o <<>> /\ Begun' = ran \o <<Head(batch)>>
      BY <1>1, <1>2, <1>5 DEF Begun, Awaiting
    <3>2. ran \o <<>> = ran /\ Head(batch) \in Directives \cup Mail
      BY <1>1, <2>1, ConcatEmptySeq
    <3> QED BY <1>1, <3>1, <3>2, AppendIsConcat
  <2>4. Tally(directed', lost', Begun', batch', poll'.got, shell')
    BY <1>2, <1>5, <2>1, <2>3
  <2> QED BY <1>3, <1>5, <2>2, <2>4 DEF BridgeInv, Places
<1> QED BY <1>4, <1>5 DEF NextDelivery

(* The Run is open: the item at hand has begun. *)
LEMMA OpenTurnKeepsInv ==
  ASSUME BridgeInv, ~stopped, OpenTurn PROVE BridgeInv'
<1>1. /\ Tally(directed, lost, Begun, batch, poll.got, shell)
      /\ poll \in [state : {"none", "asked", "answered", "failed"}, got : Seq(Directives)]
      /\ poll.state # "answered" => poll.got = <<>>
      /\ inbox \in Seq(Mail) /\ ran \in Seq(Directives \cup Mail)
      /\ work \in Seq(Directives \cup Mail) /\ loop = "opening"
      /\ batch # <<>> => work[1] \in Directives
  BY DEF BridgeInv, OpenTurn
<1>2. /\ UNCHANGED <<directed, lost, batch, poll, shell, inbox, work, stopped>>
      /\ loop' = "prompting" /\ ran' = ran \o work
  BY DEF OpenTurn, shellVars, mailVars, flags
<1>3. ran' \in Seq(Directives \cup Mail)
  BY <1>1, <1>2, ConcatProperties
<1>4. Begun' = Begun
  <2>1. Begun = ran \o work /\ Begun' = ran' \o <<>>
    BY <1>1, <1>2 DEF Begun, Awaiting
  <2> QED BY <1>2, <1>3, <2>1, ConcatEmptySeq
<1>5. Tally(directed', lost', Begun', batch', poll'.got, shell')
  BY <1>1, <1>2, <1>4
<1>6. /\ inbox' \in Seq(Mail) /\ work' \in Seq(Directives \cup Mail)
      /\ batch' # <<>> => work'[1] \in Directives
      /\ poll' \in [state : {"none", "asked", "answered", "failed"}, got : Seq(Directives)]
      /\ poll'.state # "answered" => poll'.got = <<>>
  BY <1>1, <1>2
<1> QED BY <1>2, <1>3, <1>5, <1>6 DEF BridgeInv, Places

(* The turn is over: back to the batch, or to the head of the loop with none. *)
LEMMA FinishTurnKeepsInv ==
  ASSUME BridgeInv, ~stopped, FinishTurn PROVE BridgeInv'
<1>1. /\ Tally(directed, lost, Begun, batch, poll.got, shell)
      /\ poll \in [state : {"none", "asked", "answered", "failed"}, got : Seq(Directives)]
      /\ poll.state # "answered" => poll.got = <<>>
      /\ inbox \in Seq(Mail) /\ ran \in Seq(Directives \cup Mail) /\ loop = "pushing"
      /\ batch # <<>> => work[1] \in Directives
  BY DEF BridgeInv, FinishTurn
<1>2. /\ UNCHANGED <<directed, lost, batch, poll, shell, inbox, ran, stopped>>
      /\ loop' = (IF work[1] \in Mail THEN "top" ELSE "batch") /\ work' = <<>>
  BY DEF FinishTurn, shellVars, mailVars, flags
<1>3. Begun' = Begun
  BY <1>1, <1>2 DEF Begun, Awaiting
<1>4. Tally(directed', lost', Begun', batch', poll'.got, shell')
  BY <1>1, <1>2, <1>3
<1>5. loop' = "top" => batch' = <<>>
  BY <1>1, <1>2, BridgeAssumption
<1>6. /\ inbox' \in Seq(Mail) /\ ran' \in Seq(Directives \cup Mail)
      /\ work' \in Seq(Directives \cup Mail)
      /\ poll' \in [state : {"none", "asked", "answered", "failed"}, got : Seq(Directives)]
      /\ poll'.state # "answered" => poll'.got = <<>>
  BY <1>1, <1>2, EmptySeq
<1> QED BY <1>2, <1>4, <1>5, <1>6 DEF BridgeInv, Places

(* Every step of the bridge. *)
LEMMA BridgeKeepsInv == BridgeInv /\ [BridgeNext]_bridgeVars => BridgeInv'
<1> SUFFICES ASSUME BridgeInv, [BridgeNext]_bridgeVars, ~stopped, ~stopped' PROVE BridgeInv'
  <2>1. stopped' => BridgeInv'
    BY DEF BridgeInv
  <2>2. [BridgeNext]_bridgeVars /\ ~stopped' => ~stopped
    BY DEF BridgeNext, bridgeVars, Direct, SendMail, AgentWaits, WaitEnds, PollAnswered, PollFails,
           StartLoop, Top, PeerWins, PollWins, Wake, NextDelivery, OpenTurn, OpenFails, Update,
           PromptEnds, PushEvent, FinishTurn, AgentExits, Dispose, TabGoes, flags
  <2> QED BY <2>1, <2>2
<1>1. CASE \/ \E d \in Directives : Direct(d)
           \/ PollAnswered \/ \E drained \in BOOLEAN : PollFails(drained)
  BY <1>1, ShellKeepsInv
<1>2. CASE (\E m \in Mail : SendMail(m)) \/ (\E k \in Waits : AgentWaits(k) \/ WaitEnds(k))
  BY <1>2, MailKeepsInv
<1>3. CASE \/ StartLoop \/ PeerWins \/ Wake \/ OpenFails \/ Update \/ PromptEnds \/ PushEvent
           \/ AgentExits \/ TabGoes
  BY <1>3, TurnKeepsInv
<1>4. CASE Top
  BY <1>4, TopKeepsInv
<1>5. CASE PollWins
  BY <1>5, PollWinsKeepsInv
<1>6. CASE NextDelivery
  BY <1>6, NextDeliveryKeepsInv
<1>7. CASE OpenTurn
  BY <1>7, OpenTurnKeepsInv
<1>8. CASE FinishTurn
  BY <1>8, FinishTurnKeepsInv
<1>9. CASE Dispose
  BY <1>9 DEF Dispose
<1>10. CASE UNCHANGED bridgeVars
  <2>1. UNCHANGED <<directed, lost, batch, poll, shell, ran, work, stopped, inbox, loop>>
    BY <1>10 DEF bridgeVars
  <2>2. inbox' \in Seq(Mail)
    BY <2>1 DEF BridgeInv
  <2> QED BY <2>1, <2>2, QuietKeepsInv
<1> QED BY <1>1, <1>2, <1>3, <1>4, <1>5, <1>6, <1>7, <1>8, <1>9, <1>10 DEF BridgeNext

(* Until the bridge is disposed, the directives it ran are those Prime queued, in their    *)
(* order and none twice, and what is not run yet waits behind them, whatever wins the     *)
(* races or fails: only the answers that broken connections swallowed are missing in      *)
(* between.  Nothing says that all are run: the loop ends at a refused openRun, and what  *)
(* waits then waits for good (acp-attach-host loop, runDeliveries).                       *)
THEOREM DirectivesAreKept == BridgeSpec => []DirectivesKept
<1>1. BridgeInv => DirectivesKept
  BY DEF BridgeInv, DirectivesKept, Tally, Begun
<1> QED BY <1>1, BridgeInvInitially, BridgeKeepsInv, PTL DEF BridgeSpec

-----------------------------------------------------------------------------
(* Counting *)

\* How many elements of s are in S.
Count(s, S) == Len(Only(s, S))

\* And where they stand.
At(s, S) == {i \in DOMAIN s : s[i] \in S}

(* One more element counts or not. *)
LEMMA CountOfAppend ==
  ASSUME NEW T, NEW s \in Seq(T), NEW e \in T, NEW S
  PROVE  /\ Count(s, S) \in Nat
         /\ Count(Append(s, e), S) = IF e \in S THEN Count(s, S) + 1 ELSE Count(s, S)
<1>1. Only(s, S) \in Seq(T)
  BY OnlyFacts
<1>2. Only(Append(s, e), S) = IF e \in S THEN Append(Only(s, S), e) ELSE Only(s, S)
  BY OnlyOfAppend
<1> QED BY <1>1, <1>2 DEF Count

(* The count is the number of places. *)
LEMMA CountIs ==
  ASSUME NEW T, NEW S
  PROVE  \A s \in Seq(T) : /\ IsFiniteSet(At(s, S)) /\ Count(s, S) \in Nat
                           /\ Count(s, S) = Cardinality(At(s, S))
<1> DEFINE Q == {s \in Seq(T) : /\ IsFiniteSet(At(s, S)) /\ Count(s, S) \in Nat
                                /\ Count(s, S) = Cardinality(At(s, S))}
<1>1. <<>> \in Q
  <2>1. At(<<>>, S) = {} /\ <<>> \in Seq(T)
    BY EmptySeq DEF At
  <2>2. Count(<<>>, S) = 0
    BY OnlyOfEmpty, EmptySeq DEF Count
  <2> QED BY <2>1, <2>2, FS_EmptySet
<1>2. ASSUME NEW s \in Seq(T), NEW e \in T, s \in Q PROVE Append(s, e) \in Q
  <2> DEFINE t == Append(s, e)
             n == Len(s) + 1
  <2>1. /\ t \in Seq(T) /\ DOMAIN t = DOMAIN s \cup {n} /\ t[n] = e /\ n \notin DOMAIN s
        /\ \A i \in DOMAIN s : t[i] = s[i]
    OBVIOUS
  <2>2. Count(s, S) \in Nat /\ Count(t, S) = IF e \in S THEN Count(s, S) + 1 ELSE Count(s, S)
    BY CountOfAppend
  <2> HIDE DEF t, n
  <2>3. At(t, S) = IF e \in S THEN At(s, S) \cup {n} ELSE At(s, S)
    BY <2>1 DEF At
  <2>4. n \notin At(s, S)
    BY <2>1 DEF At
  <2>5. IsFiniteSet(At(s, S)) /\ Count(s, S) = Cardinality(At(s, S))
    BY <1>2
  <2>6. /\ IsFiniteSet(At(s, S) \cup {n})
        /\ Cardinality(At(s, S) \cup {n}) = Cardinality(At(s, S)) + 1
    BY <2>4, <2>5, FS_AddElement
  <2>7. IsFiniteSet(At(t, S)) /\ Count(t, S) \in Nat /\ Count(t, S) = Cardinality(At(t, S))
    <3>1. CASE e \in S
      BY <3>1, <2>2, <2>3, <2>5, <2>6
    <3>2. CASE e \notin S
      BY <3>2, <2>2, <2>3, <2>5
    <3> QED BY <3>1, <3>2
  <2> QED BY <2>1, <2>7 DEF t
<1>3. Seq(T) \subseteq Q
  <2> HIDE DEF Q
  <2> QED BY <1>1, <1>2, SequencesFrom
<1> QED BY <1>3

(* Nothing is counted where nothing is, and only there. *)
LEMMA CountOfNone ==
  ASSUME NEW T, NEW S, NEW s \in Seq(T)
  PROVE  Count(s, S) = 0 <=> Elements(s) \cap S = {}
<1>1. IsFiniteSet(At(s, S)) /\ Count(s, S) = Cardinality(At(s, S))
  BY CountIs
<1>2. Count(s, S) = 0 <=> At(s, S) = {}
  BY <1>1, FS_EmptySet
<1>3. At(s, S) = {} <=> Elements(s) \cap S = {}
  BY DEF At, Elements
<1> QED BY <1>2, <1>3

(* Sets that agree on the elements count alike. *)
LEMMA CountAgrees ==
  ASSUME NEW T, NEW S, NEW R, NEW s \in Seq(T), Elements(s) \cap S = Elements(s) \cap R
  PROVE  Count(s, S) = Count(s, R)
BY OnlyAgrees DEF Count

(* Sequences of one length with the same places count alike. *)
LEMMA CountByPlace ==
  ASSUME NEW T, NEW s \in Seq(T), NEW R, NEW t \in Seq(R), DOMAIN s = DOMAIN t,
         NEW S, NEW Q, \A i \in DOMAIN s : s[i] \in S <=> t[i] \in Q
  PROVE  Count(s, S) = Count(t, Q)
<1>1. At(s, S) = At(t, Q)
  BY DEF At
<1> QED BY <1>1, CountIs

(* Two sequences are counted one after the other. *)
LEMMA CountOfConcat ==
  ASSUME NEW T, NEW S, NEW s \in Seq(T), NEW t \in Seq(T)
  PROVE  Count(s \o t, S) = Count(s, S) + Count(t, S)
<1>1. Only(s, S) \in Seq(T) /\ Only(t, S) \in Seq(T)
  BY OnlyFacts
<1>2. Only(s \o t, S) = Only(s, S) \o Only(t, S)
  BY OnlyOfConcat
<1>3. Len(Only(s, S) \o Only(t, S)) = Len(Only(s, S)) + Len(Only(t, S))
  BY <1>1, ConcatProperties
<1> QED BY <1>2, <1>3 DEF Count

(* A sequence is its head and its tail. *)
LEMMA HeadAndTail ==
  ASSUME NEW T, NEW s \in Seq(T), s # <<>>, NEW S
  PROVE  /\ Head(s) \in T /\ Tail(s) \in Seq(T) /\ Head(s) \in Elements(s)
         /\ Elements(s) = {Head(s)} \cup Elements(Tail(s))
         /\ \A i \in DOMAIN Tail(s) : i + 1 \in DOMAIN s /\ Tail(s)[i] = s[i + 1]
         /\ Count(Tail(s), S) \in Nat
         /\ Count(s, S) = IF Head(s) \in S THEN Count(Tail(s), S) + 1 ELSE Count(Tail(s), S)
<1>1. /\ Head(s) \in T /\ Tail(s) \in Seq(T) /\ Head(s) = s[1] /\ 1 \in DOMAIN s
      /\ Len(Tail(s)) = Len(s) - 1 /\ \A i \in 1 .. Len(s) - 1 : Tail(s)[i] = s[i + 1]
  OBVIOUS
<1>2. \A i \in DOMAIN Tail(s) : i + 1 \in DOMAIN s /\ Tail(s)[i] = s[i + 1]
  BY <1>1
<1>3. \A j \in DOMAIN s : j = 1 \/ (j - 1 \in DOMAIN Tail(s) /\ (j - 1) + 1 = j)
  BY <1>1
<1>4. Elements(s) = {Head(s)} \cup Elements(Tail(s))
  <2> DEFINE t == Tail(s)
             h == Head(s)
  <2>1. h = s[1] /\ 1 \in DOMAIN s /\ \A i \in DOMAIN t : i + 1 \in DOMAIN s /\ t[i] = s[i + 1]
    BY <1>1, <1>2
  <2>2. \A j \in DOMAIN s : j = 1 \/ (j - 1 \in DOMAIN t /\ (j - 1) + 1 = j)
    BY <1>3
  <2> HIDE DEF t, h
  <2>3. ASSUME NEW j \in DOMAIN s PROVE s[j] \in {h} \cup Elements(t)
    <3>1. CASE j = 1
      BY <3>1, <2>1
    <3>2. CASE j # 1
      <4>1. j - 1 \in DOMAIN t /\ t[j - 1] = s[j]
        BY <3>2, <2>1, <2>2
      <4> QED BY <4>1 DEF Elements
    <3> QED BY <3>1, <3>2
  <2>4. \A i \in DOMAIN t : t[i] \in Elements(s)
    BY <2>1 DEF Elements
  <2>5. h \in Elements(s)
    BY <2>1 DEF Elements
  <2> QED BY <2>3, <2>4, <2>5 DEF Elements, t, h
<1>5. Count(s, S) = Count(<<Head(s)>>, S) + Count(Tail(s), S)
  <2>1. s = <<Head(s)>> \o Tail(s) /\ <<Head(s)>> \in Seq(T)
    BY HeadTailProperties, <1>1
  <2> QED BY <2>1, <1>1, CountOfConcat
<1>6. Count(<<Head(s)>>, S) = IF Head(s) \in S THEN 1 ELSE 0
  <2>1. <<Head(s)>> = Append(<<>>, Head(s)) /\ <<>> \in Seq(T)
    BY EmptySeq
  <2>2. Count(<<>>, S) = 0
    BY OnlyOfEmpty, EmptySeq DEF Count
  <2>3. Count(Append(<<>>, Head(s)), S) = IF Head(s) \in S THEN Count(<<>>, S) + 1 ELSE Count(<<>>, S)
    BY <2>1, <1>1, CountOfAppend
  <2> QED BY <2>1, <2>2, <2>3
<1>7. Count(Tail(s), S) \in Nat
  BY <1>1, CountIs
<1> QED BY <1>1, <1>2, <1>4, <1>5, <1>6, <1>7

(* What is filtered out and what is left are counted together. *)
LEMMA CountOfParts ==
  ASSUME NEW T, NEW A, NEW S
  PROVE  \A s \in Seq(T) : Count(Without(s, A), S) + Count(Only(s, A), S) = Count(s, S)
<1> SUFFICES ASSUME NEW s \in Seq(T)
             PROVE  Count(Without(s, A), S) + Count(Only(s, A), S) = Count(s, S)
  OBVIOUS
<1> DEFINE R == Elements(s) \ A
<1>1. Without(s, A) = Only(s, R)
  BY DEF Without, Elements
<1>2. Count(Only(s, A), S) = Count(s, A \cap S) /\ Count(Only(s, R), S) = Count(s, R \cap S)
  BY OnlyOfOnly DEF Count
<1>3. /\ At(s, R \cap S) = At(s, S) \ At(s, A \cap S)
      /\ At(s, S) \cap At(s, A \cap S) = At(s, A \cap S)
  BY DEF At, Elements
<1> HIDE DEF R
<1>4. /\ IsFiniteSet(At(s, S)) /\ Count(s, S) = Cardinality(At(s, S)) /\ Count(s, S) \in Nat
      /\ Count(s, A \cap S) = Cardinality(At(s, A \cap S)) /\ Count(s, A \cap S) \in Nat
      /\ Count(s, R \cap S) = Cardinality(At(s, R \cap S)) /\ Count(s, R \cap S) \in Nat
  BY CountIs
<1>5. Cardinality(At(s, S) \ At(s, A \cap S))
        = Cardinality(At(s, S)) - Cardinality(At(s, S) \cap At(s, A \cap S))
  BY <1>4, FS_Difference
<1>6. Count(s, R \cap S) = Count(s, S) - Count(s, A \cap S)
  BY <1>3, <1>4, <1>5
<1>7. Count(s, R \cap S) + Count(s, A \cap S) = Count(s, S)
  BY <1>4, <1>6
<1> QED BY <1>1, <1>2, <1>7

-----------------------------------------------------------------------------
(* The transcript of a Conversation *)

\* It is read in the order of its seqs.
Rising(b) == \A i, j \in DOMAIN b : i < j => seqOf[b[i].id] <= seqOf[b[j].id]

(* One more at the end is in order if none before it has a higher seq. *)
LEMMA RisingAppend ==
  ASSUME NEW s \in Seq(Shown), NEW e \in Shown
  PROVE  /\ Rising(Append(s, e)) => Rising(s)
         /\ Rising(Append(s, e)) => \A x \in Elements(s) : seqOf[x.id] <= seqOf[e.id]
         /\ Rising(s) /\ (\A x \in Elements(s) : seqOf[x.id] <= seqOf[e.id])
              => Rising(Append(s, e))
<1> DEFINE t == Append(s, e)
           n == Len(s) + 1
<1>1. /\ DOMAIN t = DOMAIN s \cup {n} /\ t[n] = e /\ \A i \in DOMAIN s : t[i] = s[i]
      /\ \A i \in DOMAIN s : i < n /\ ~(n < i)
      /\ ~(n < n)
  OBVIOUS
<1> HIDE DEF t, n
<1>2. Rising(t) => Rising(s)
  BY <1>1 DEF Rising
<1>3. ASSUME Rising(t), NEW x \in Elements(s) PROVE seqOf[x.id] <= seqOf[e.id]
  <2>1. PICK i \in DOMAIN s : x = s[i]
    BY DEF Elements
  <2>2. i \in DOMAIN t /\ n \in DOMAIN t /\ i < n /\ t[i] = x /\ t[n] = e
    BY <1>1, <2>1
  <2> QED BY <1>3, <2>2 DEF Rising
<1>4. ASSUME Rising(s), \A x \in Elements(s) : seqOf[x.id] <= seqOf[e.id] PROVE Rising(t)
  BY <1>1, <1>4 DEF Rising, Elements
<1> QED BY <1>2, <1>3, <1>4 DEF t

(* Two transcripts in order, the first of them before the second. *)
LEMMA RisingConcat ==
  ASSUME NEW s \in Seq(Shown), NEW t \in Seq(Shown), Rising(s), Rising(t),
         \A x \in Elements(s) : \A y \in Elements(t) : seqOf[x.id] <= seqOf[y.id]
  PROVE  Rising(s \o t)
<1> DEFINE n == Len(s)
           u == s \o t
<1>1. /\ u \in Seq(Shown) /\ Len(u) = n + Len(t)
      /\ \A i \in 1 .. n + Len(t) : u[i] = IF i <= n THEN s[i] ELSE t[i - n]
  BY ConcatProperties
<1>2. n \in Nat /\ Len(t) \in Nat /\ DOMAIN s = 1 .. n /\ DOMAIN t = 1 .. Len(t)
      /\ DOMAIN u = 1 .. n + Len(t)
  BY <1>1
<1> HIDE DEF u, n
<1> SUFFICES ASSUME NEW i \in DOMAIN u, NEW j \in DOMAIN u, i < j
             PROVE  seqOf[u[i].id] <= seqOf[u[j].id]
  BY DEF Rising, u
<1>3. CASE j <= n
  <2>1. i \in DOMAIN s /\ j \in DOMAIN s /\ u[i] = s[i] /\ u[j] = s[j]
    BY <1>1, <1>2, <1>3
  <2> QED BY <2>1 DEF Rising
<1>4. CASE i <= n /\ ~(j <= n)
  <2>1. i \in DOMAIN s /\ j - n \in DOMAIN t /\ u[i] = s[i] /\ u[j] = t[j - n]
    BY <1>1, <1>2, <1>4
  <2> QED BY <2>1 DEF Elements
<1>5. CASE ~(i <= n)
  <2>1. i - n \in DOMAIN t /\ j - n \in DOMAIN t /\ u[i] = t[i - n] /\ u[j] = t[j - n]
        /\ i - n < j - n
    BY <1>1, <1>2, <1>5
  <2> QED BY <2>1 DEF Rising
<1> QED BY <1>2, <1>3, <1>4, <1>5

(* What is left of a transcript in order is in order. *)
LEMMA OnlyRising ==
  ASSUME NEW S
  PROVE  \A s \in Seq(Shown) : Rising(s) => Rising(Only(s, S))
<1> DEFINE Q == {s \in Seq(Shown) : Rising(s) => Rising(Only(s, S))}
<1>1. <<>> \in Q
  <2>1. Rising(<<>>)
    BY EmptySeq DEF Rising
  <2> QED BY <2>1, OnlyOfEmpty, EmptySeq
<1>2. ASSUME NEW s \in Seq(Shown), NEW e \in Shown, s \in Q PROVE Append(s, e) \in Q
  <2> SUFFICES ASSUME Rising(Append(s, e)) PROVE Rising(Only(Append(s, e), S))
    BY ElementsOfAppend
  <2>1. Rising(s) /\ \A x \in Elements(s) : seqOf[x.id] <= seqOf[e.id]
    BY RisingAppend
  <2> DEFINE t == Only(s, S)
  <2>2. t \in Seq(Shown) /\ Elements(t) \subseteq Elements(s) /\ Rising(t)
    BY <1>2, <2>1, OnlyFacts
  <2>3. Only(Append(s, e), S) = IF e \in S THEN Append(t, e) ELSE t
    BY OnlyOfAppend
  <2> HIDE DEF t
  <2>4. \A x \in Elements(t) : seqOf[x.id] <= seqOf[e.id]
    BY <2>1, <2>2
  <2>5. Rising(Append(t, e))
    BY <2>2, <2>4, RisingAppend
  <2> QED BY <2>2, <2>3, <2>5
<1>3. Seq(Shown) \subseteq Q
  <2> HIDE DEF Q
  <2> QED BY <1>1, <1>2, SequencesFrom
<1> QED BY <1>3

(* A Message is put among those shown, and moves none of them. *)
LEMMA InsertedFacts ==
  ASSUME NEW b \in Seq(Shown), NEW x \in Shown, seqOf \in [Messages -> Nat], Rising(b)
  PROVE  /\ Inserted(b, x) \in Seq(Shown)
         /\ Elements(Inserted(b, x)) = Elements(b) \cup {x}
         /\ Rising(Inserted(b, x))
         /\ \A S : Count(Inserted(b, x), S) = IF x \in S THEN Count(b, S) + 1 ELSE Count(b, S)
<1> DEFINE A == {s \in Elements(b) : seqOf[s.id] > seqOf[x.id]}
           p == Without(b, A)
           q == Only(b, A)
<1>1. Inserted(b, x) = Append(p, x) \o q
  BY DEF Inserted, ToSet, Elements
<1>2. p \in Seq(Shown) /\ Elements(p) = Elements(b) \ A
  BY WithoutFacts
<1>3. q \in Seq(Shown) /\ Elements(q) = Elements(b) \cap A
  BY OnlyFacts
<1>4. Elements(b) \subseteq Shown
  BY DEF Elements
<1>5. Rising(p) /\ Rising(q)
  <2>1. p = Only(b, Elements(b) \ A)
    BY DEF Without, Elements
  <2> HIDE DEF A
  <2> QED BY <2>1, OnlyRising
<1>6. \A s \in Shown : seqOf[s.id] \in Nat
  BY DEF Shown
<1>7. /\ \A s \in Elements(p) : seqOf[s.id] <= seqOf[x.id]
      /\ \A s \in Elements(q) : seqOf[x.id] <= seqOf[s.id]
      /\ \A s \in Elements(p), r \in Elements(q) : seqOf[s.id] <= seqOf[r.id]
  <2>1. ASSUME NEW s \in Elements(p)
        PROVE  s \in Shown /\ seqOf[s.id] \in Nat /\ seqOf[s.id] <= seqOf[x.id]
    <3>1. s \in Shown /\ s \in Elements(b) /\ ~(seqOf[s.id] > seqOf[x.id])
      BY <1>2, <1>4
    <3>2. seqOf[s.id] \in Nat /\ seqOf[x.id] \in Nat
      BY <3>1, <1>6
    <3> QED BY <3>1, <3>2
  <2>2. ASSUME NEW s \in Elements(q)
        PROVE  s \in Shown /\ seqOf[s.id] \in Nat /\ seqOf[x.id] <= seqOf[s.id]
    <3>1. s \in Shown /\ seqOf[s.id] > seqOf[x.id]
      BY <1>3, <1>4
    <3>2. seqOf[s.id] \in Nat /\ seqOf[x.id] \in Nat
      BY <3>1, <1>6
    <3> QED BY <3>1, <3>2
  <2>3. seqOf[x.id] \in Nat
    BY <1>6
  <2> HIDE DEF p, q
  <2> QED BY <2>1, <2>2, <2>3
<1>8. \A S : Count(p, S) + Count(q, S) = Count(b, S)
  <2> HIDE DEF A
  <2> QED BY CountOfParts
<1>9. Elements(b) = Elements(p) \cup Elements(q)
  BY <1>2, <1>3
<1> HIDE DEF p, q
<1>10. /\ Append(p, x) \in Seq(Shown) /\ Elements(Append(p, x)) = Elements(p) \cup {x}
  BY <1>2, ElementsOfAppend
<1>11. Rising(Append(p, x))
  BY <1>2, <1>5, <1>7, RisingAppend
<1>12. Rising(Append(p, x) \o q)
  <2>1. \A s \in Elements(Append(p, x)) : \A r \in Elements(q) : seqOf[s.id] <= seqOf[r.id]
    BY <1>7, <1>10
  <2> QED BY <1>3, <1>5, <1>10, <1>11, <2>1, RisingConcat
<1>13. /\ Append(p, x) \o q \in Seq(Shown)
       /\ Elements(Append(p, x) \o q) = Elements(Append(p, x)) \cup Elements(q)
  <2> DEFINE r == Append(p, x)
  <2>1. r \in Seq(Shown)
    BY <1>10
  <2> HIDE DEF r
  <2>2. r \o q \in Seq(Shown)
    BY <1>3, <2>1, ConcatProperties
  <2>3. Elements(r \o q) = Elements(r) \cup Elements(q)
    BY <1>3, <2>1, ElementsOfConcat
  <2> QED BY <2>2, <2>3 DEF r
<1>14. ASSUME NEW S
       PROVE  Count(Append(p, x) \o q, S) = IF x \in S THEN Count(b, S) + 1 ELSE Count(b, S)
  <2>1. Count(Append(p, x) \o q, S) = Count(Append(p, x), S) + Count(q, S)
    BY <1>3, <1>10, CountOfConcat
  <2>2. /\ Count(p, S) \in Nat
        /\ Count(Append(p, x), S) = IF x \in S THEN Count(p, S) + 1 ELSE Count(p, S)
    BY <1>2, CountOfAppend
  <2>3. Count(q, S) \in Nat
    BY <1>3, CountIs
  <2> QED BY <2>1, <2>2, <2>3, <1>8
<1> QED BY <1>1, <1>9, <1>10, <1>12, <1>13, <1>14

(* An edit moves nothing and changes the text of one Message only. *)
LEMMA EditedFacts ==
  ASSUME NEW b \in Seq(Shown), NEW m, NEW whole \in BOOLEAN, MaxDeltas \in Nat,
         ~whole => \A e \in Elements(b) : e.id = m => e.text < Whole,
         NEW d, d = Edited(b, m, whole)
  PROVE  /\ d \in Seq(Shown) /\ DOMAIN d = DOMAIN b
         /\ \A i \in DOMAIN b :
              /\ d[i].id = b[i].id
              /\ d[i] = IF b[i].id # m THEN b[i]
                        ELSE [id |-> m, text |-> IF whole THEN Whole ELSE b[i].text + 1]
<1>1. DOMAIN d = DOMAIN b /\ DOMAIN b = 1 .. Len(b) /\ Len(b) \in Nat
  BY DEF Edited
<1>2. ASSUME NEW i \in DOMAIN b
      PROVE  /\ d[i].id = b[i].id /\ d[i] \in Shown
             /\ d[i] = IF b[i].id # m THEN b[i]
                       ELSE [id |-> m, text |-> IF whole THEN Whole ELSE b[i].text + 1]
  <2>1. b[i] \in Shown /\ b[i] \in Elements(b)
    BY DEF Elements
  <2>2. d[i] = IF b[i].id # m THEN b[i]
               ELSE [b[i] EXCEPT !.text = IF whole THEN Whole ELSE @ + 1]
    BY DEF Edited
  <2>3. CASE b[i].id # m
    BY <2>1, <2>2, <2>3
  <2>4. CASE b[i].id = m
    <3>1. d[i] = [id |-> m, text |-> IF whole THEN Whole ELSE b[i].text + 1]
      BY <2>1, <2>2, <2>4 DEF Shown
    <3>2. b[i].text \in 0 .. Whole /\ (~whole => b[i].text < Whole) /\ m \in Messages
      BY <2>1, <2>4 DEF Shown
    <3>3. (IF whole THEN Whole ELSE b[i].text + 1) \in 0 .. Whole
      BY <3>2 DEF Whole
    <3> QED BY <3>1, <3>2, <3>3, <2>4 DEF Shown
  <2> QED BY <2>3, <2>4
<1>3. d \in Seq(Shown)
  <2>1. d = [i \in 1 .. Len(b) |-> d[i]]
    BY <1>1 DEF Edited
  <2>2. \A i \in 1 .. Len(b) : d[i] \in Shown
    BY <1>1, <1>2
  <2> QED BY <1>1, <2>1, <2>2
<1> QED BY <1>1, <1>2, <1>3

\* What has seqs that differ.
Apart(S) ==
  /\ \A e \in S : seqOf[e.id] \in Nat
  /\ \A e, f \in S : seqOf[e.id] = seqOf[f.id] => e = f

Orders(s) == \A i, j \in DOMAIN s : i < j => BySeq(s[i], s[j])

(* A finite set whose seqs differ can be put in order. *)
LEMMA OrderExists ==
  ASSUME NEW U, Apart(U)
  PROVE  \A n \in Nat : \A S \in SUBSET U :
           IsFiniteSet(S) /\ Cardinality(S) = n => \E s \in [1 .. n -> S] : Orders(s)
<1> DEFINE N == {n \in Nat : \A S \in SUBSET U :
                   IsFiniteSet(S) /\ Cardinality(S) = n => \E s \in [1 .. n -> S] : Orders(s)}
<1>1. 0 \in N
  <2> SUFFICES ASSUME NEW n \in Nat, n = 0, NEW S \in SUBSET U
               PROVE  \E s \in [1 .. n -> S] : Orders(s)
    OBVIOUS
  <2> DEFINE s == [i \in 1 .. n |-> {}]
  <2>1. s \in [1 .. n -> S] /\ DOMAIN s = {}
    OBVIOUS
  <2> HIDE DEF s
  <2>2. Orders(s)
    BY <2>1 DEF Orders
  <2> QED BY <2>1, <2>2
<1>2. ASSUME NEW n \in Nat, n \in N PROVE n + 1 \in N
  <2> SUFFICES ASSUME NEW S \in SUBSET U, IsFiniteSet(S), Cardinality(S) = n + 1
               PROVE  \E s \in [1 .. n + 1 -> S] : Orders(s)
    OBVIOUS
  <2> DEFINE D == {seqOf[e.id] : e \in S}
  <2>1. D \in SUBSET Nat /\ D # {}
    <3>1. S # {}
      BY FS_EmptySet
    <3> QED BY <3>1 DEF Apart
  <2>2. PICK k \in D : \A j \in D : k <= j
    <3> HIDE DEF D
    <3> QED BY <2>1, LeastNumber
  <2>3. PICK e \in S : k = seqOf[e.id]
    BY <2>2
  <2>4. \A f \in S \ {e} : BySeq(e, f)
    <3> SUFFICES ASSUME NEW f \in S \ {e} PROVE BySeq(e, f)
      OBVIOUS
    <3>1. /\ seqOf[e.id] <= seqOf[f.id] /\ seqOf[e.id] # seqOf[f.id]
          /\ seqOf[e.id] \in Nat /\ seqOf[f.id] \in Nat
      BY <2>2, <2>3 DEF Apart
    <3> QED BY <3>1 DEF BySeq
  <2>5. IsFiniteSet(S \ {e}) /\ Cardinality(S \ {e}) = n
    <3>1. IsFiniteSet(S \ {e}) /\ Cardinality(S \ {e}) = Cardinality(S) - 1
      BY FS_RemoveElement
    <3> QED BY <3>1
  <2>6. PICK s \in [1 .. n -> S \ {e}] : Orders(s)
    BY <1>2, <2>5
  <2> DEFINE t == [i \in 1 .. n + 1 |-> IF i = 1 THEN e ELSE s[i - 1]]
  <2>7. /\ t \in [1 .. n + 1 -> S] /\ t[1] = e
        /\ \A i \in 1 .. n + 1 : i # 1 => i - 1 \in 1 .. n /\ t[i] = s[i - 1]
    OBVIOUS
  <2> HIDE DEF t
  <2>8. Orders(t)
    <3> SUFFICES ASSUME NEW i \in 1 .. n + 1, NEW j \in 1 .. n + 1, i < j
                 PROVE  BySeq(t[i], t[j])
      BY <2>7 DEF Orders
    <3>1. j # 1 /\ j - 1 \in 1 .. n /\ t[j] = s[j - 1] /\ s[j - 1] \in S \ {e}
      BY <2>7
    <3>2. CASE i = 1
      BY <3>1, <3>2, <2>4, <2>7
    <3>3. CASE i # 1
      <4>1. i - 1 \in 1 .. n /\ i - 1 < j - 1 /\ t[i] = s[i - 1]
        BY <3>3, <2>7
      <4> QED BY <4>1, <3>1, <2>6 DEF Orders
    <3> QED BY <3>2, <3>3
  <2> QED BY <2>7, <2>8
<1>3. Nat \subseteq N
  <2> HIDE DEF N
  <2> QED BY <1>1, <1>2, NumbersFrom
<1> QED BY <1>3

(* Sorting has every element once, in order. *)
LEMMA InOrderFacts ==
  ASSUME NEW S, IsFiniteSet(S), Apart(S)
  PROVE  /\ InOrder(S) \in Seq(S) /\ Elements(InOrder(S)) = S /\ Distinct(InOrder(S))
         /\ Rising(InOrder(S))
<1> DEFINE n == Cardinality(S)
           s == InOrder(S)
<1>1. n \in Nat
  BY FS_CardinalityType
<1>2. \E t \in [1 .. n -> S] : Orders(t)
  <2> HIDE DEF n
  <2> QED BY <1>1, OrderExists DEF n
<1>3. s \in [1 .. n -> S] /\ Orders(s)
  BY <1>2 DEF InOrder, Orders
<1> HIDE DEF s, n
<1>4. s \in Seq(S) /\ DOMAIN s = 1 .. n
  BY <1>1, <1>3
<1>5. \A i, j \in 1 .. n : i < j => seqOf[s[i].id] < seqOf[s[j].id]
  BY <1>3 DEF Orders, BySeq
<1>6. \A i \in 1 .. n : s[i] \in S /\ seqOf[s[i].id] \in Nat
  BY <1>3 DEF Apart
<1>7. \A i, j \in 1 .. n : s[i] = s[j] => i = j
  <2> SUFFICES ASSUME NEW i \in 1 .. n, NEW j \in 1 .. n, s[i] = s[j], i # j PROVE FALSE
    OBVIOUS
  <2>1. i < j \/ j < i
    BY <1>1
  <2>2. seqOf[s[i].id] \in Nat /\ seqOf[s[j].id] \in Nat /\ seqOf[s[i].id] = seqOf[s[j].id]
    BY <1>6
  <2> QED BY <2>1, <2>2, <1>5
<1>8. Elements(s) = S
  <2>1. s \in Injection(1 .. n, S)
    BY <1>3, <1>7 DEF Injection, IsInjective
  <2>2. IsFiniteSet(1 .. n) /\ Cardinality(1 .. n) = n
    <3>1. 1 \in Int /\ n \in Int /\ (1 > n => n = 0)
      BY <1>1
    <3>2. IsFiniteSet(1 .. n) /\ Cardinality(1 .. n) = IF 1 > n THEN 0 ELSE n - 1 + 1
      BY <3>1, FS_Interval
    <3> QED BY <3>1, <3>2, <1>1
  <2>3. s \in Surjection(1 .. n, S)
    BY <2>1, <2>2, FS_Injection DEF n
  <2> QED BY <2>3, <1>4 DEF Surjection, Elements
<1>9. Distinct(s)
  BY <1>4, <1>7 DEF Distinct
<1>10. Rising(s)
  <2> SUFFICES ASSUME NEW i \in 1 .. n, NEW j \in 1 .. n, i < j
               PROVE  seqOf[s[i].id] <= seqOf[s[j].id]
    BY <1>4 DEF Rising
  <2>1. seqOf[s[i].id] < seqOf[s[j].id] /\ seqOf[s[i].id] \in Nat /\ seqOf[s[j].id] \in Nat
    BY <1>5, <1>6
  <2> QED BY <2>1
<1> QED BY <1>4, <1>8, <1>9, <1>10 DEF s

(* Where each is there once, counting it gives one. *)
LEMMA CountOfOne ==
  ASSUME NEW T, NEW s \in Seq(T), Distinct(s), NEW S, NEW e, Elements(s) \cap S = {e}
  PROVE  Count(s, S) = 1
<1>1. PICK i \in DOMAIN s : s[i] = e
  BY DEF Elements
<1>2. At(s, S) = {i}
  BY <1>1 DEF At, Elements, Distinct
<1>3. Cardinality({i}) = 1
  BY FS_Singleton
<1>4. Count(s, S) = Cardinality(At(s, S))
  BY CountIs
<1> QED BY <1>2, <1>3, <1>4

-----------------------------------------------------------------------------
(* The chat: what the server knows of a Message *)

\* The Messages that have a seq, and those in their Conversation's file.
Allotted == {m \in Messages : post[m] \notin {"none", "reserving"}}
Filed    == {m \in Messages : post[m] \in {"written", "sent"}}

AtHome(c) == {m \in Messages : HomeOf[m] = c}

\* A seq is given to one Message of a Conversation; a file holds what was written to
\* it; a turn in flight has written nothing.
PostsInv ==
  /\ spawned \subseteq LateRooms
  /\ stream \in [Messages -> Turns] /\ text \in [Messages -> 0..MaxDeltas]
  /\ post \in [Messages -> ChatPosts]
  /\ seqOf \in [Messages -> Nat] /\ nextSeq \in [ChatRooms -> Nat]
  /\ log \in [ChatRooms -> SUBSET Messages]
  /\ \A c \in ChatRooms : log[c] = Filed \cap AtHome(c) /\ IsFiniteSet(log[c])
  /\ \A m \in Allotted : seqOf[m] < nextSeq[HomeOf[m]]
  /\ \A m, n \in Allotted : HomeOf[m] = HomeOf[n] /\ seqOf[m] = seqOf[n] => m = n
  /\ \A m \in Messages :
       /\ post[m] # "none" => HomeOf[m] \in Exists
       /\ stream[m] = "open" => m \in Streams /\ post[m] \in {"reserving", "reserved"}
       /\ (m \in Streams /\ post[m] # "none") => stream[m] # "none"

(* Nothing is posted at first. *)
LEMMA PostsInvInitially == ChatInit => PostsInv
<1> SUFFICES ASSUME ChatInit PROVE PostsInv
  OBVIOUS
<1>1. \A m \in Messages : post[m] = "none" /\ stream[m] = "none"
  BY DEF ChatInit
<1>2. Allotted = {} /\ Filed = {}
  BY <1>1 DEF Allotted, Filed
<1>3. \A c \in ChatRooms : log[c] = {} /\ IsFiniteSet(log[c])
  BY FS_EmptySet DEF ChatInit
<1>4. /\ spawned \subseteq LateRooms
      /\ stream \in [Messages -> Turns] /\ text \in [Messages -> 0..MaxDeltas]
      /\ post \in [Messages -> ChatPosts]
      /\ seqOf \in [Messages -> Nat] /\ nextSeq \in [ChatRooms -> Nat]
      /\ log \in [ChatRooms -> SUBSET Messages]
  BY ChatAssumption DEF ChatInit, Turns, ChatPosts
<1> QED BY <1>1, <1>2, <1>3, <1>4 DEF PostsInv

(* The post of a Message moves on: who else has a seq, or is filed, stays so. *)
LEMMA PostMoves ==
  ASSUME post \in [Messages -> ChatPosts], NEW m \in Messages, NEW p \in ChatPosts,
         post' = [post EXCEPT ![m] = p]
  PROVE  /\ post' \in [Messages -> ChatPosts] /\ post'[m] = p
         /\ \A n \in Messages : n # m => post'[n] = post[n]
         /\ Allotted' = IF p \in {"none", "reserving"} THEN Allotted \ {m}
                        ELSE Allotted \cup {m}
         /\ Filed' = IF p \in {"written", "sent"} THEN Filed \cup {m} ELSE Filed \ {m}
         /\ (m \in Allotted <=> p \notin {"none", "reserving"}) => Allotted' = Allotted
         /\ (m \in Filed <=> p \in {"written", "sent"}) => Filed' = Filed
<1>1. /\ post' \in [Messages -> ChatPosts] /\ post'[m] = p
      /\ \A n \in Messages : n # m => post'[n] = post[n]
  OBVIOUS
<1>2. Allotted' = IF p \in {"none", "reserving"} THEN Allotted \ {m} ELSE Allotted \cup {m}
  BY <1>1 DEF Allotted
<1>3. Filed' = IF p \in {"written", "sent"} THEN Filed \cup {m} ELSE Filed \ {m}
  BY <1>1 DEF Filed
<1>4. (m \in Allotted <=> p \notin {"none", "reserving"}) => Allotted' = Allotted
  BY <1>1 DEF Allotted
<1>5. (m \in Filed <=> p \in {"written", "sent"}) => Filed' = Filed
  BY <1>1 DEF Filed
<1> QED BY <1>1, <1>2, <1>3, <1>4, <1>5

(* A step that gives no seq and files nothing. *)
LEMMA NoSeqKeepsPosts ==
  ASSUME PostsInv, NEW m \in Messages,
         UNCHANGED <<spawned, seqOf, nextSeq, log>>,
         stream' \in [Messages -> Turns], text' \in [Messages -> 0..MaxDeltas],
         post' \in [Messages -> ChatPosts], Allotted' = Allotted, Filed' = Filed,
         \A n \in Messages : n # m => post'[n] = post[n] /\ stream'[n] = stream[n],
         post'[m] # "none" => HomeOf[m] \in Exists,
         stream'[m] = "open" => m \in Streams /\ post'[m] \in {"reserving", "reserved"},
         (m \in Streams /\ post'[m] # "none") => stream'[m] # "none"
  PROVE  PostsInv'
<1>1. Exists' = Exists
  BY DEF Exists
<1>2. \A n \in Messages :
        /\ post'[n] # "none" => HomeOf[n] \in Exists
        /\ stream'[n] = "open" => n \in Streams /\ post'[n] \in {"reserving", "reserved"}
        /\ (n \in Streams /\ post'[n] # "none") => stream'[n] # "none"
  BY DEF PostsInv
<1> QED BY <1>1, <1>2 DEF PostsInv, AtHome

(* The seq that is handed out is the next one of its Conversation. *)
LEMMA AllocatedKeepsPosts ==
  ASSUME PostsInv, NEW m \in Messages, Allocated(m) PROVE PostsInv'
<1> DEFINE p == IF stream[m] = "failed" THEN "spent" ELSE "reserved"
<1>1. /\ post[m] = "reserving" /\ post' = [post EXCEPT ![m] = p]
      /\ seqOf' = [seqOf EXCEPT ![m] = nextSeq[HomeOf[m]]]
      /\ nextSeq' = [nextSeq EXCEPT ![HomeOf[m]] = @ + 1]
      /\ UNCHANGED <<spawned, stream, text, log>> /\ p \in ChatPosts
      /\ p \in {"spent", "reserved"}
  BY DEF Allocated, ChatPosts
<1>2. /\ post' \in [Messages -> ChatPosts] /\ post'[m] = p
      /\ \A n \in Messages : n # m => post'[n] = post[n]
      /\ Allotted' = Allotted \cup {m} /\ Filed' = Filed \ {m} /\ m \notin Filed
      /\ m \notin Allotted
  <2>1. post \in [Messages -> ChatPosts]
    BY DEF PostsInv
  <2>2. m \notin Filed /\ m \notin Allotted
    BY <1>1 DEF Filed, Allotted
  <2> QED BY <2>1, <2>2, <1>1, PostMoves
<1>3. HomeOf[m] \in ChatRooms /\ Exists' = Exists /\ HomeOf \in [Messages -> ChatRooms]
  BY <1>1, ChatAssumption DEF Exists
<1>4. /\ seqOf' \in [Messages -> Nat] /\ nextSeq' \in [ChatRooms -> Nat]
      /\ seqOf'[m] = nextSeq[HomeOf[m]] /\ nextSeq'[HomeOf[m]] = nextSeq[HomeOf[m]] + 1
      /\ \A n \in Messages : n # m => seqOf'[n] = seqOf[n]
      /\ \A c \in ChatRooms : c # HomeOf[m] => nextSeq'[c] = nextSeq[c]
  BY <1>1, <1>3 DEF PostsInv
<1>5. \A n \in Allotted' : seqOf'[n] < nextSeq'[HomeOf[n]]
  <2> SUFFICES ASSUME NEW n \in Allotted' PROVE seqOf'[n] < nextSeq'[HomeOf[n]]
    OBVIOUS
  <2>1. CASE n = m
    BY <2>1, <1>3, <1>4 DEF PostsInv
  <2>2. CASE n # m
    <3>1. n \in Allotted /\ n \in Messages /\ HomeOf[n] \in ChatRooms
      BY <2>2, <1>2, <1>3 DEF Allotted
    <3>2. seqOf[n] < nextSeq[HomeOf[n]] /\ seqOf[n] \in Nat /\ nextSeq[HomeOf[n]] \in Nat
      BY <3>1 DEF PostsInv
    <3>3. CASE HomeOf[n] = HomeOf[m]
      BY <3>1, <3>2, <3>3, <2>2, <1>4
    <3>4. CASE HomeOf[n] # HomeOf[m]
      BY <3>1, <3>2, <3>4, <2>2, <1>4
    <3> QED BY <3>3, <3>4
  <2> QED BY <2>1, <2>2
<1>6. \A n, k \in Allotted' : HomeOf[n] = HomeOf[k] /\ seqOf'[n] = seqOf'[k] => n = k
  <2> SUFFICES ASSUME NEW n \in Allotted', NEW k \in Allotted', HomeOf[n] = HomeOf[k],
                      seqOf'[n] = seqOf'[k], n # k
               PROVE  FALSE
    OBVIOUS
  <2>1. \A j \in Allotted : HomeOf[j] = HomeOf[m] => seqOf'[j] # seqOf'[m]
    <3> SUFFICES ASSUME NEW j \in Allotted, HomeOf[j] = HomeOf[m] PROVE seqOf'[j] # seqOf'[m]
      OBVIOUS
    <3>1. j \in Messages /\ j # m /\ seqOf'[j] = seqOf[j] /\ seqOf[j] < nextSeq[HomeOf[m]]
          /\ seqOf[j] \in Nat /\ nextSeq[HomeOf[m]] \in Nat
      BY <1>2, <1>3, <1>4 DEF PostsInv, Allotted
    <3> QED BY <3>1, <1>4
  <2>2. n # m /\ k # m
    BY <2>1, <1>2
  <2>3. n \in Allotted /\ k \in Allotted /\ seqOf'[n] = seqOf[n] /\ seqOf'[k] = seqOf[k]
    BY <2>2, <1>2, <1>4 DEF Allotted
  <2> QED BY <2>3 DEF PostsInv
<1>7. \A n \in Messages :
        /\ post'[n] # "none" => HomeOf[n] \in Exists'
        /\ stream'[n] = "open" => n \in Streams /\ post'[n] \in {"reserving", "reserved"}
        /\ (n \in Streams /\ post'[n] # "none") => stream'[n] # "none"
  <2> SUFFICES ASSUME NEW n \in Messages
               PROVE  /\ post'[n] # "none" => HomeOf[n] \in Exists'
                      /\ stream'[n] = "open" => n \in Streams /\ post'[n] \in {"reserving", "reserved"}
                      /\ (n \in Streams /\ post'[n] # "none") => stream'[n] # "none"
    OBVIOUS
  <2>1. /\ post[n] # "none" => HomeOf[n] \in Exists
        /\ stream[n] = "open" => n \in Streams /\ post[n] \in {"reserving", "reserved"}
        /\ (n \in Streams /\ post[n] # "none") => stream[n] # "none"
        /\ stream'[n] = stream[n]
    BY <1>1 DEF PostsInv
  <2>2. CASE n = m
    BY <2>1, <2>2, <1>1, <1>2, <1>3
  <2>3. CASE n # m
    BY <2>1, <2>3, <1>2, <1>3
  <2> QED BY <2>2, <2>3
<1>8. \A c \in ChatRooms : log'[c] = Filed' \cap AtHome(c)' /\ IsFiniteSet(log'[c])
  BY <1>1, <1>2 DEF PostsInv, AtHome
<1>9. /\ spawned' \subseteq LateRooms /\ stream' \in [Messages -> Turns]
      /\ text' \in [Messages -> 0..MaxDeltas] /\ log' \in [ChatRooms -> SUBSET Messages]
  BY <1>1 DEF PostsInv
<1> QED BY <1>2, <1>4, <1>5, <1>6, <1>7, <1>8, <1>9 DEF PostsInv

(* A line is appended to the file of the Message's Conversation. *)
LEMMA WriteKeepsPosts ==
  ASSUME PostsInv, NEW m \in Messages, Write(m) PROVE PostsInv'
<1>1. /\ post[m] = "reserved" /\ stream[m] \in {"none", "ended"}
      /\ post' = [post EXCEPT ![m] = "written"]
      /\ log' = [log EXCEPT ![HomeOf[m]] = @ \cup {m}]
      /\ UNCHANGED <<spawned, stream, text, seqOf, nextSeq>> /\ "written" \in ChatPosts
  BY DEF Write, ChatPosts
<1>2. /\ post' \in [Messages -> ChatPosts] /\ post'[m] = "written"
      /\ \A n \in Messages : n # m => post'[n] = post[n]
      /\ Allotted' = Allotted /\ Filed' = Filed \cup {m}
  <2>1. post \in [Messages -> ChatPosts]
    BY DEF PostsInv
  <2>2. m \in Allotted
    BY <1>1 DEF Allotted
  <2> QED BY <2>1, <2>2, <1>1, PostMoves
<1>3. HomeOf[m] \in ChatRooms /\ Exists' = Exists
  BY <1>1, ChatAssumption DEF Exists
<1>4. \A c \in ChatRooms : log'[c] = Filed' \cap AtHome(c)' /\ IsFiniteSet(log'[c])
  <2> SUFFICES ASSUME NEW c \in ChatRooms
               PROVE  log'[c] = Filed' \cap AtHome(c) /\ IsFiniteSet(log'[c])
    BY DEF AtHome
  <2>1. log[c] = Filed \cap AtHome(c) /\ IsFiniteSet(log[c])
    BY DEF PostsInv
  <2>2. CASE c = HomeOf[m]
    <3>1. log'[c] = log[c] \cup {m} /\ m \in AtHome(c)
      BY <2>2, <1>1 DEF PostsInv, AtHome
    <3> QED BY <3>1, <2>1, <1>2, FS_AddElement
  <2>3. CASE c # HomeOf[m]
    <3>1. log'[c] = log[c] /\ m \notin AtHome(c)
      BY <2>3, <1>1 DEF PostsInv, AtHome
    <3> QED BY <3>1, <2>1, <1>2
  <2> QED BY <2>2, <2>3
<1>5. log' \in [ChatRooms -> SUBSET Messages]
  BY <1>1 DEF PostsInv
<1>6. \A n \in Messages :
        /\ post'[n] # "none" => HomeOf[n] \in Exists'
        /\ stream'[n] = "open" => n \in Streams /\ post'[n] \in {"reserving", "reserved"}
        /\ (n \in Streams /\ post'[n] # "none") => stream'[n] # "none"
  BY <1>1, <1>2, <1>3 DEF PostsInv
<1>7. /\ \A n \in Allotted' : seqOf'[n] < nextSeq'[HomeOf[n]]
      /\ \A n, k \in Allotted' : HomeOf[n] = HomeOf[k] /\ seqOf'[n] = seqOf'[k] => n = k
  BY <1>1, <1>2 DEF PostsInv
<1> QED BY <1>1, <1>2, <1>4, <1>5, <1>6, <1>7 DEF PostsInv

(* Every step keeps what the server knows. *)
LEMMA PostsKept == PostsInv /\ [ChatNext]_chatVars => PostsInv'
<1> SUFFICES ASSUME PostsInv, [ChatNext]_chatVars PROVE PostsInv'
  OBVIOUS
<1>1. CASE UNCHANGED serverVars
  BY <1>1 DEF serverVars, PostsInv, Allotted, Filed, AtHome, Exists
<1>2. ASSUME NEW m \in Messages, PostMessage(m) \/ StartTurn(m) PROVE PostsInv'
  <2> DEFINE t == IF m \in Streams THEN "open" ELSE stream[m]
  <2>1. /\ post[m] = "none" /\ post' = [post EXCEPT ![m] = "reserving"]
        /\ stream' = [stream EXCEPT ![m] = t] /\ HomeOf[m] \in Exists
        /\ (m \in Streams => t = "open") /\ (m \notin Streams => t = stream[m])
        /\ UNCHANGED <<spawned, text, seqOf, nextSeq, log>>
    <3>1. CASE PostMessage(m)
      BY <3>1 DEF PostMessage, PostsInv
    <3>2. CASE StartTurn(m)
      BY <3>2 DEF StartTurn, PostsInv
    <3> QED BY <1>2, <3>1, <3>2
  <2>2. /\ post' \in [Messages -> ChatPosts] /\ post'[m] = "reserving"
        /\ \A n \in Messages : n # m => post'[n] = post[n]
        /\ Allotted' = Allotted /\ Filed' = Filed
    <3>1. post \in [Messages -> ChatPosts] /\ "reserving" \in ChatPosts
      BY DEF PostsInv, ChatPosts
    <3>2. m \notin Allotted /\ m \notin Filed
      BY <2>1 DEF Allotted, Filed
    <3> QED BY <3>1, <3>2, <2>1, PostMoves
  <2>3. /\ stream' \in [Messages -> Turns] /\ stream'[m] = t
        /\ \A n \in Messages : n # m => stream'[n] = stream[n]
    BY <2>1 DEF PostsInv, Turns
  <2>4. stream[m] = "open" => m \in Streams
    BY DEF PostsInv
  <2>5. text' \in [Messages -> 0..MaxDeltas]
    BY <2>1 DEF PostsInv
  <2> HIDE DEF t
  <2> QED BY <2>1, <2>2, <2>3, <2>4, <2>5, NoSeqKeepsPosts
<1>3. ASSUME NEW m \in Messages, Delta(m) PROVE PostsInv'
  <2>1. text' \in [Messages -> 0..MaxDeltas]
    BY <1>3, ChatAssumption DEF Delta, PostsInv
  <2>2. UNCHANGED <<spawned, stream, post, seqOf, nextSeq, log>>
    BY <1>3 DEF Delta
  <2> QED BY <2>1, <2>2 DEF PostsInv, Allotted, Filed, AtHome, Exists
<1>4. ASSUME NEW m \in Messages, EndTurn(m) PROVE PostsInv'
  <2>1. /\ stream' = [stream EXCEPT ![m] = "ended"] /\ stream[m] = "open"
        /\ UNCHANGED <<spawned, post, text, seqOf, nextSeq, log>>
    BY <1>4 DEF EndTurn
  <2>2. /\ stream' \in [Messages -> Turns] /\ stream'[m] = "ended"
        /\ \A n \in Messages : n # m => stream'[n] = stream[n]
    BY <2>1 DEF PostsInv, Turns
  <2>3. Allotted' = Allotted /\ Filed' = Filed
    BY <2>1 DEF Allotted, Filed
  <2>4. /\ post' \in [Messages -> ChatPosts] /\ text' \in [Messages -> 0..MaxDeltas]
        /\ post'[m] # "none" => HomeOf[m] \in Exists
    BY <2>1 DEF PostsInv
  <2> QED BY <2>1, <2>2, <2>3, <2>4, NoSeqKeepsPosts
<1>5. ASSUME NEW m \in Messages, FailTurn(m) PROVE PostsInv'
  <2> DEFINE p == IF post[m] = "reserved" THEN "spent" ELSE post[m]
  <2>1. /\ stream' = [stream EXCEPT ![m] = "failed"] /\ stream[m] = "open"
        /\ post' = [post EXCEPT ![m] = p] /\ post[m] \in {"reserving", "reserved"}
        /\ UNCHANGED <<spawned, text, seqOf, nextSeq, log>>
    BY <1>5 DEF FailTurn, PostsInv
  <2>2. /\ stream' \in [Messages -> Turns] /\ stream'[m] = "failed"
        /\ \A n \in Messages : n # m => stream'[n] = stream[n]
    BY <2>1 DEF PostsInv, Turns
  <2>3. /\ post' \in [Messages -> ChatPosts] /\ post'[m] = p
        /\ \A n \in Messages : n # m => post'[n] = post[n]
        /\ Allotted' = Allotted /\ Filed' = Filed
    <3>1. post \in [Messages -> ChatPosts] /\ p \in ChatPosts
      BY DEF PostsInv, ChatPosts
    <3>2. /\ m \notin Filed /\ (m \in Allotted <=> p \notin {"none", "reserving"})
          /\ p \notin {"written", "sent"}
      BY <2>1 DEF Allotted, Filed
    <3> HIDE DEF p
    <3> QED BY <3>1, <3>2, <2>1, PostMoves
  <2>4. text' \in [Messages -> 0..MaxDeltas] /\ HomeOf[m] \in Exists
    BY <2>1 DEF PostsInv
  <2> HIDE DEF p
  <2> QED BY <2>1, <2>2, <2>3, <2>4, NoSeqKeepsPosts
<1>6. ASSUME NEW m \in Messages, Broadcast(m) PROVE PostsInv'
  <2>1. /\ post[m] = "written" /\ post' = [post EXCEPT ![m] = "sent"]
        /\ UNCHANGED <<spawned, stream, text, seqOf, nextSeq, log>>
    BY <1>6 DEF Broadcast
  <2>2. /\ post' \in [Messages -> ChatPosts] /\ post'[m] = "sent"
        /\ \A n \in Messages : n # m => post'[n] = post[n]
        /\ Allotted' = Allotted /\ Filed' = Filed
    <3>1. post \in [Messages -> ChatPosts] /\ "sent" \in ChatPosts
      BY DEF PostsInv, ChatPosts
    <3>2. m \in Filed /\ m \in Allotted
      BY <2>1 DEF Allotted, Filed
    <3> QED BY <3>1, <3>2, <2>1, PostMoves
  <2>3. /\ text' \in [Messages -> 0..MaxDeltas] /\ HomeOf[m] \in Exists
        /\ stream'[m] # "open" /\ stream' \in [Messages -> Turns]
        /\ (m \in Streams => stream'[m] # "none")
        /\ \A n \in Messages : stream'[n] = stream[n]
    BY <2>1 DEF PostsInv
  <2> QED BY <2>1, <2>2, <2>3, NoSeqKeepsPosts
<1>7. ASSUME NEW c \in ChatRooms, Spawn(c) PROVE PostsInv'
  <2>1. /\ spawned' = spawned \cup {c} /\ c \in LateRooms
        /\ UNCHANGED <<stream, text, post, seqOf, nextSeq, log>>
    BY <1>7 DEF Spawn
  <2>2. Exists \subseteq Exists'
    BY <2>1 DEF Exists
  <2>3. Allotted' = Allotted /\ Filed' = Filed
    BY <2>1 DEF Allotted, Filed
  <2> QED BY <2>1, <2>2, <2>3 DEF PostsInv, AtHome
<1>8. \/ UNCHANGED serverVars
      \/ \E m \in Messages : \/ PostMessage(m) \/ StartTurn(m) \/ Delta(m) \/ EndTurn(m)
                             \/ FailTurn(m) \/ Allocated(m) \/ Write(m) \/ Broadcast(m)
      \/ \E c \in ChatRooms : Spawn(c)
  BY DEF ChatNext, chatVars, serverVars, ReadLog, Subscribe, JoinSession, JoinRooms,
         SendHistory, SendReplay, Connect, Disconnect, Handle
<1> QED
  BY <1>1, <1>2, <1>3, <1>4, <1>5, <1>6, <1>7, <1>8, AllocatedKeepsPosts, WriteKeepsPosts

(* Who has a seq, is filed or was broadcast stays so, and so does an agent's room. *)
LEMMA PostsGrow ==
  ASSUME PostsInv, [ChatNext]_chatVars
  PROVE  /\ Allotted \subseteq Allotted' /\ Filed \subseteq Filed' /\ Exists \subseteq Exists'
         /\ \A m \in Messages : post[m] = "sent" => post'[m] = "sent"
<1>1. CASE UNCHANGED <<post, spawned>>
  BY <1>1 DEF Allotted, Filed, Exists
<1>2. ASSUME NEW m \in Messages, NEW p \in ChatPosts, UNCHANGED spawned,
             post' = [post EXCEPT ![m] = p],
             \/ post[m] = "none" /\ p = "reserving"
             \/ post[m] \in {"reserving", "reserved"} /\ p \in {"reserved", "spent"}
             \/ post[m] = "reserved" /\ p = "written"
             \/ post[m] = "written" /\ p = "sent"
      PROVE  /\ Allotted \subseteq Allotted' /\ Filed \subseteq Filed' /\ Exists \subseteq Exists'
             /\ \A n \in Messages : post[n] = "sent" => post'[n] = "sent"
  <2>1. post'[m] = p /\ \A n \in Messages : n # m => post'[n] = post[n]
    BY <1>2 DEF PostsInv
  <2>2. Allotted \subseteq Allotted' /\ Filed \subseteq Filed'
    BY <1>2, <2>1 DEF Allotted, Filed
  <2> QED BY <1>2, <2>1, <2>2 DEF Exists
<1>3. CASE \E c \in ChatRooms : Spawn(c)
  BY <1>3 DEF Spawn, Allotted, Filed, Exists
<1>4. \/ UNCHANGED <<post, spawned>>
      \/ \E m \in Messages, p \in ChatPosts :
           /\ UNCHANGED spawned /\ post' = [post EXCEPT ![m] = p]
           /\ \/ post[m] = "none" /\ p = "reserving"
              \/ post[m] \in {"reserving", "reserved"} /\ p \in {"reserved", "spent"}
              \/ post[m] = "reserved" /\ p = "written"
              \/ post[m] = "written" /\ p = "sent"
      \/ \E c \in ChatRooms : Spawn(c)
  <2> DEFINE Moved(m) ==
        \E p \in ChatPosts :
           /\ UNCHANGED spawned /\ post' = [post EXCEPT ![m] = p]
           /\ \/ post[m] = "none" /\ p = "reserving"
              \/ post[m] \in {"reserving", "reserved"} /\ p \in {"reserved", "spent"}
              \/ post[m] = "reserved" /\ p = "written"
              \/ post[m] = "written" /\ p = "sent"
  <2>1. ASSUME NEW m \in Messages, PostMessage(m) \/ StartTurn(m) PROVE Moved(m)
    <3>1. post[m] = "none" /\ post' = [post EXCEPT ![m] = "reserving"] /\ UNCHANGED spawned
      BY <2>1 DEF PostMessage, StartTurn, PostsInv
    <3> QED BY <3>1 DEF ChatPosts
  <2>2. ASSUME NEW m \in Messages, FailTurn(m) PROVE Moved(m) \/ UNCHANGED <<post, spawned>>
    BY <2>2 DEF FailTurn, ChatPosts
  <2>3. ASSUME NEW m \in Messages, Allocated(m) PROVE Moved(m)
    BY <2>3 DEF Allocated, ChatPosts
  <2>4. ASSUME NEW m \in Messages, Write(m) PROVE Moved(m)
    BY <2>4 DEF Write, ChatPosts
  <2>5. ASSUME NEW m \in Messages, Broadcast(m) PROVE Moved(m)
    BY <2>5 DEF Broadcast, ChatPosts
  <2>6. \/ UNCHANGED <<post, spawned>>
        \/ \E m \in Messages : \/ PostMessage(m) \/ StartTurn(m) \/ FailTurn(m)
                               \/ Allocated(m) \/ Write(m) \/ Broadcast(m)
        \/ \E c \in ChatRooms : Spawn(c)
    BY DEF ChatNext, chatVars, serverVars, ReadLog, Subscribe, JoinSession, JoinRooms,
           SendHistory, SendReplay, Connect, Disconnect, Handle, Delta, EndTurn
  <2> HIDE DEF Moved
  <2>7. \/ UNCHANGED <<post, spawned>> \/ \E m \in Messages : Moved(m)
        \/ \E c \in ChatRooms : Spawn(c)
    BY <2>1, <2>2, <2>3, <2>4, <2>5, <2>6
  <2> QED BY <2>7 DEF Moved
<1> QED BY <1>1, <1>2, <1>3, <1>4

-----------------------------------------------------------------------------
(* The chat: what is on its way to a browser *)

Events ==
  [ev : {"start", "delta", "error", "end", "message"}, id : Messages]
  \cup [ev : {"history"}, ids : SUBSET Messages]
  \cup [ev : {"replay"}, room : ChatRooms, ids : SUBSET Messages]
  \cup [ev : {"roster"}, rooms : SUBSET ChatRooms]
  \cup [ev : {"spawned"}, room : ChatRooms]

Says(name, m) == [ev |-> name, id |-> m]

\* A piece and a start are of a stream that has its seq, what is whole is in the file.
Told(e) ==
  /\ e.ev \in {"start", "delta", "error"} =>
       e.id \in Allotted /\ e.id \in Streams /\ HomeOf[e.id] \in socket.rooms
  /\ e.ev = "end" => e.id \in Filed /\ e.id \in Streams
  /\ e.ev = "message" => e.id \notin Streams /\ post[e.id] = "sent"
  /\ e.ev \in {"history", "replay"} => e.ids \subseteq Filed /\ IsFiniteSet(e.ids)
  /\ e.ev = "replay" => e.ids \subseteq AtHome(e.room)
  /\ e.ev = "roster" => e.rooms \subseteq Exists
  /\ e.ev = "spawned" => e.room \in Exists

\* The Messages an event names, and those it shows whole.
About(e) == IF e.ev \in {"history", "replay"} THEN e.ids
            ELSE IF e.ev \in {"roster", "spawned"} THEN {} ELSE {e.id}

Wholes(e) == IF e.ev \in {"history", "replay"} THEN e.ids
             ELSE IF e.ev \in {"end", "message"} THEN {e.id} ELSE {}

\* What may stand before an event.
Before(d, e) == /\ e.ev = "start" => e.id \notin About(d)
                /\ e.ev = "delta" => e.id \notin Wholes(d)

\* A start comes before everything else of its stream, a piece before its whole.
InTurn(w) == \A i, j \in DOMAIN w : i < j => Before(w[i], w[j])

Pieces(w, m) == Count(w, {Says("delta", m)})

\* How often it says that a Message begins.
Births(w, m) == Count(w, {Says("start", m), Says("message", m)})

WireInv ==
  /\ wire \in Seq(Events) /\ InTurn(wire)
  /\ \A e \in Elements(wire) : Told(e)
  /\ \A m \in Messages : Says("start", m) \in Elements(wire) => Pieces(wire, m) = text[m]

(* One thing sent after another. *)
LEMMA InTurnConcat ==
  ASSUME NEW w \in Seq(Events), NEW u \in Seq(Events), InTurn(w), InTurn(u),
         \A d \in Elements(w) : \A e \in Elements(u) : Before(d, e)
  PROVE  InTurn(w \o u)
<1> DEFINE n == Len(w)
           v == w \o u
<1>1. /\ v \in Seq(Events) /\ Len(v) = n + Len(u)
      /\ \A i \in 1 .. n + Len(u) : v[i] = IF i <= n THEN w[i] ELSE u[i - n]
  BY ConcatProperties
<1>2. n \in Nat /\ Len(u) \in Nat /\ DOMAIN w = 1 .. n /\ DOMAIN u = 1 .. Len(u)
      /\ DOMAIN v = 1 .. n + Len(u)
  BY <1>1
<1> HIDE DEF v, n
<1> SUFFICES ASSUME NEW i \in DOMAIN v, NEW j \in DOMAIN v, i < j PROVE Before(v[i], v[j])
  BY DEF InTurn, v
<1>3. CASE j <= n
  <2>1. i \in DOMAIN w /\ j \in DOMAIN w /\ v[i] = w[i] /\ v[j] = w[j]
    BY <1>1, <1>2, <1>3
  <2> QED BY <2>1 DEF InTurn
<1>4. CASE i <= n /\ ~(j <= n)
  <2>1. i \in DOMAIN w /\ j - n \in DOMAIN u /\ v[i] = w[i] /\ v[j] = u[j - n]
    BY <1>1, <1>2, <1>4
  <2> QED BY <2>1 DEF Elements
<1>5. CASE ~(i <= n)
  <2>1. i - n \in DOMAIN u /\ j - n \in DOMAIN u /\ v[i] = u[i - n] /\ v[j] = u[j - n]
        /\ i - n < j - n
    BY <1>1, <1>2, <1>5
  <2> QED BY <2>1 DEF InTurn
<1> QED BY <1>2, <1>3, <1>4, <1>5

(* And one of them handled. *)
LEMMA InTurnTail ==
  ASSUME NEW w \in Seq(Events), w # <<>>, InTurn(w)
  PROVE  InTurn(Tail(w)) /\ \A e \in Elements(Tail(w)) : Before(Head(w), e)
<1> DEFINE t == Tail(w)
<1>1. /\ t \in Seq(Events) /\ 1 \in DOMAIN w /\ Head(w) = w[1] /\ DOMAIN t \subseteq Nat
      /\ \A i \in DOMAIN t : i + 1 \in DOMAIN w /\ t[i] = w[i + 1] /\ 1 < i + 1
  OBVIOUS
<1> HIDE DEF t
<1>2. \A i, j \in DOMAIN t : i < j => i + 1 < j + 1
  BY <1>1
<1>3. InTurn(t)
  BY <1>1, <1>2 DEF InTurn
<1>4. \A e \in Elements(t) : Before(Head(w), e)
  BY <1>1 DEF InTurn, Elements
<1> QED BY <1>3, <1>4 DEF t

(* A single event. *)
LEMMA OneEvent ==
  ASSUME NEW T, NEW e \in T
  PROVE  /\ <<e>> \in Seq(T) /\ Elements(<<e>>) = {e}
         /\ \A S : Count(<<e>>, S) = IF e \in S THEN 1 ELSE 0
<1> DEFINE z == <<>>
<1>1. <<e>> = Append(z, e) /\ z \in Seq(T) /\ Elements(z) = {}
  BY EmptySeq DEF Elements
<1>2. \A S : Count(z, S) = 0
  BY OnlyOfEmpty, EmptySeq DEF Count
<1> HIDE DEF z
<1>3. Append(z, e) \in Seq(T) /\ Elements(Append(z, e)) = Elements(z) \cup {e}
  BY <1>1, ElementsOfAppend
<1>4. ASSUME NEW S PROVE Count(Append(z, e), S) = IF e \in S THEN 1 ELSE 0
  <2>1. Count(Append(z, e), S) = IF e \in S THEN Count(z, S) + 1 ELSE Count(z, S)
    BY <1>1, CountOfAppend
  <2> QED BY <2>1, <1>2
<1> QED BY <1>1, <1>3, <1>4

(* The server only adds to what may be told. *)
LEMMA StillTold ==
  ASSUME Allotted \subseteq Allotted', Filed \subseteq Filed', Exists \subseteq Exists',
         \A m \in Messages : post[m] = "sent" => post'[m] = "sent",
         socket.rooms \subseteq socket'.rooms, NEW e \in Events, Told(e)
  PROVE  Told(e)'
<1>1. e.ev = "message" => e.id \in Messages
  BY DEF Events
<1> QED BY <1>1 DEF Told, AtHome

(* What is sent comes behind the rest. *)
LEMMA SpokenKeepsWire ==
  ASSUME WireInv, NEW es \in Seq(Events), wire' = wire \o es,
         Allotted \subseteq Allotted', Filed \subseteq Filed', Exists \subseteq Exists',
         \A m \in Messages : post[m] = "sent" => post'[m] = "sent",
         socket.rooms \subseteq socket'.rooms,
         InTurn(es), \A d \in Elements(wire) : \A e \in Elements(es) : Before(d, e),
         \A e \in Elements(es) : Told(e)',
         \A m \in Messages : Says("start", m) \in Elements(wire) \cup Elements(es) =>
                             Pieces(wire, m) + Pieces(es, m) = text'[m]
  PROVE  /\ WireInv' /\ Elements(wire') = Elements(wire) \cup Elements(es)
         /\ \A S : Count(wire', S) = Count(wire, S) + Count(es, S)
<1>1. wire \in Seq(Events) /\ InTurn(wire)
  BY DEF WireInv
<1>2. wire' \in Seq(Events) /\ Elements(wire') = Elements(wire) \cup Elements(es)
  BY <1>1, ConcatProperties, ElementsOfConcat
<1>3. Elements(wire) \subseteq Events
  BY <1>1 DEF Elements
<1>4. InTurn(wire')
  BY <1>1, InTurnConcat
<1>5. \A e \in Elements(wire') : Told(e)'
  <2>1. ASSUME NEW e \in Elements(wire) PROVE Told(e)'
    <3>1. e \in Events /\ Told(e)
      BY <1>3 DEF WireInv
    <3> QED BY <3>1, StillTold
  <2> QED BY <2>1, <1>2
<1>6. \A S : Count(wire', S) = Count(wire, S) + Count(es, S)
  BY <1>1, CountOfConcat
<1>7. \A m \in Messages : Says("start", m) \in Elements(wire') => Pieces(wire', m) = text'[m]
  BY <1>2, <1>6 DEF Pieces
<1> QED BY <1>2, <1>4, <1>5, <1>6, <1>7 DEF WireInv, Pieces

(* So does what is no part of a stream's beginning. *)
LEMMA SentKeepsWire ==
  ASSUME WireInv, NEW es \in Seq(Events), wire' = wire \o es,
         Allotted \subseteq Allotted', Filed \subseteq Filed', Exists \subseteq Exists',
         \A m \in Messages : post[m] = "sent" => post'[m] = "sent",
         socket.rooms \subseteq socket'.rooms,
         \A e \in Elements(es) : Told(e)' /\ e.ev \notin {"start", "delta"},
         \A m \in Messages : Says("start", m) \in Elements(wire) => text'[m] = text[m]
  PROVE  /\ WireInv' /\ Elements(wire') = Elements(wire) \cup Elements(es)
         /\ \A S : Count(wire', S) = Count(wire, S) + Count(es, S)
<1>1. InTurn(es) /\ \A d \in Elements(wire) : \A e \in Elements(es) : Before(d, e)
  BY DEF InTurn, Before, Elements
<1>2. ASSUME NEW m \in Messages, Says("start", m) \in Elements(wire) \cup Elements(es)
      PROVE  Pieces(wire, m) + Pieces(es, m) = text'[m]
  <2>1. Says("start", m).ev = "start" /\ Says("delta", m).ev = "delta"
    BY DEF Says
  <2>2. Says("start", m) \in Elements(wire) /\ Elements(es) \cap {Says("delta", m)} = {}
    BY <1>2, <2>1
  <2>3. Pieces(es, m) = 0
    BY <2>2, CountOfNone DEF Pieces
  <2>4. Pieces(wire, m) \in Nat
    BY CountIs DEF Pieces, WireInv
  <2>5. Pieces(wire, m) = text[m] /\ text'[m] = text[m]
    BY <2>2 DEF WireInv
  <2> QED BY <2>3, <2>4, <2>5
<1> QED BY <1>1, <1>2, SpokenKeepsWire

(* Nothing sent. *)
LEMMA SilenceKeepsWire ==
  ASSUME WireInv, wire' = wire,
         Allotted \subseteq Allotted', Filed \subseteq Filed', Exists \subseteq Exists',
         \A m \in Messages : post[m] = "sent" => post'[m] = "sent",
         socket.rooms \subseteq socket'.rooms,
         \A m \in Messages : Says("start", m) \in Elements(wire) => text'[m] = text[m]
  PROVE  WireInv'
<1>1. wire \in Seq(Events) /\ <<>> \in Seq(Events) /\ Elements(<<>>) = {}
  BY EmptySeq DEF WireInv, Elements
<1>2. wire' = wire \o <<>>
  BY <1>1, ConcatEmptySeq
<1>3. \A e \in Elements(<<>>) : Told(e)' /\ e.ev \notin {"start", "delta"}
  BY <1>1
<1> QED BY <1>1, <1>2, <1>3, SentKeepsWire

\* What the server holds for a connection: only what there is, and only what is filed.
SocketInv ==
  /\ socket \in [inSession : BOOLEAN, rooms : SUBSET ChatRooms,
                 join : {"none", "asked", "reviving", "reading"},
                 unread : SUBSET ChatRooms, read : SUBSET Messages]
  /\ socket.rooms \subseteq Exists /\ socket.unread \subseteq Exists
  /\ socket.read \subseteq Filed /\ IsFiniteSet(socket.read)
  /\ \A a \in asked :
       /\ a \in [room : ChatRooms, read : {FALSE}]
                \cup [room : ChatRooms, read : {TRUE}, ids : SUBSET Messages]
       /\ a.room \in Exists
       /\ a.read => a.ids \subseteq Filed /\ a.ids \subseteq AtHome(a.room) /\ IsFiniteSet(a.ids)
  /\ browser.state = "offline" =>
       socket = NewSocket /\ wire = <<>> /\ asked = {} /\ browser.streaming = {}

Browsers == [state : {"offline", "joining", "loaded"}, buckets : [ChatRooms -> Seq(Shown)],
             streaming : SUBSET Messages, subscribed : SUBSET ChatRooms]

(* An event is handled by a browser that stays what it is. *)
LEMMA HandledFields ==
  ASSUME browser \in Browsers, NEW e \in Events
  PROVE  /\ Handled(e).state = IF e.ev = "history" THEN "loaded" ELSE browser.state
         /\ Handled(e).streaming =
              IF e.ev = "start" THEN browser.streaming \cup {e.id}
              ELSE IF e.ev \in {"end", "error"} THEN browser.streaming \ {e.id}
              ELSE browser.streaming
         /\ Handled(e).subscribed =
              IF e.ev = "roster" THEN browser.subscribed \cup e.rooms
              ELSE IF e.ev = "spawned" THEN browser.subscribed \cup {e.room}
              ELSE browser.subscribed
         /\ Handled(e) = [state |-> Handled(e).state, buckets |-> Handled(e).buckets,
                          streaming |-> Handled(e).streaming,
                          subscribed |-> Handled(e).subscribed]
<1>1. browser = [state |-> browser.state, buckets |-> browser.buckets,
                 streaming |-> browser.streaming, subscribed |-> browser.subscribed]
  BY DEF Browsers
<1>2. e.ev \in {"start", "delta", "error", "end", "message", "history", "replay", "roster",
                "spawned"}
  BY DEF Events
<1>3. CASE e.ev = "message"
  BY <1>1, <1>3 DEF Handled, Put
<1>4. CASE e.ev = "start"
  BY <1>1, <1>4 DEF Handled, HandledStart, Put
<1>5. CASE e.ev = "delta"
  BY <1>1, <1>5 DEF Handled, HandledDelta
<1>6. CASE e.ev = "end"
  BY <1>1, <1>6 DEF Handled, HandledEnd
<1>7. CASE e.ev = "error"
  BY <1>1, <1>7 DEF Handled, HandledError
<1>8. CASE e.ev = "history"
  BY <1>1, <1>8 DEF Handled, HandledHistory
<1>9. CASE e.ev = "replay"
  BY <1>1, <1>9 DEF Handled
<1>10. CASE e.ev = "roster"
  BY <1>1, <1>10 DEF Handled
<1>11. CASE e.ev = "spawned"
  BY <1>1, <1>11 DEF Handled
<1> QED BY <1>2, <1>3, <1>4, <1>5, <1>6, <1>7, <1>8, <1>9, <1>10, <1>11

(* Who has joined nothing holds nothing. *)
LEMMA NewSocketFields ==
  /\ NewSocket \in [inSession : BOOLEAN, rooms : SUBSET ChatRooms,
                    join : {"none", "asked", "reviving", "reading"},
                    unread : SUBSET ChatRooms, read : SUBSET Messages]
  /\ NewSocket.rooms = {} /\ NewSocket.unread = {} /\ NewSocket.read = {}
  /\ NewSocket.join = "none" /\ ~NewSocket.inSession
  /\ IsFiniteSet(NewSocket.read)
<1>1. NewSocket.read = {}
  BY DEF NewSocket
<1>2. IsFiniteSet(NewSocket.read)
  BY <1>1, FS_EmptySet
<1> QED BY <1>1, <1>2 DEF NewSocket

(* What the server knows may grow under a connection. *)
LEMMA GrowthKeepsSocket ==
  ASSUME SocketInv, Filed \subseteq Filed', Exists \subseteq Exists',
         UNCHANGED <<socket, asked>>,
         browser'.state = "offline" =>
           browser.state = "offline" /\ wire' = <<>> /\ browser'.streaming = {}
  PROVE  SocketInv'
BY DEF SocketInv, NewSocket, AtHome

(* The server's side of a connection. *)
LEMMA ServingKeepsSocket ==
  ASSUME PostsInv, SocketInv, UNCHANGED serverVars, UNCHANGED browser,
         \/ JoinSession \/ JoinRooms \/ SendHistory \/ SendReplay
         \/ \E c \in ChatRooms : ReadLog(c) \/ Subscribe(c)
  PROVE  SocketInv'
<1>1. Allotted' = Allotted /\ Filed' = Filed /\ Exists' = Exists
  BY DEF serverVars, Allotted, Filed, Exists
<1>2. Exists \subseteq ChatRooms
  BY ChatAssumption DEF Exists, PostsInv
<1>3. CASE JoinSession \/ JoinRooms \/ SendHistory
  <2>1. /\ socket.join # "none" /\ asked' = asked /\ browser.state # "offline"
        /\ socket' \in [inSession : BOOLEAN, rooms : SUBSET ChatRooms,
                        join : {"none", "asked", "reviving", "reading"},
                        unread : SUBSET ChatRooms, read : SUBSET Messages]
        /\ socket'.rooms \in {socket.rooms, Exists} /\ socket'.unread \in {socket.unread, Exists}
        /\ socket'.read \in {socket.read, {}}
    <3>1. socket.join # "none" /\ asked' = asked
      BY <1>3 DEF JoinSession, JoinRooms, SendHistory
    <3>2. browser.state # "offline"
      BY <3>1, NewSocketFields DEF SocketInv
    <3>3. CASE JoinSession
      BY <3>1, <3>2, <3>3 DEF JoinSession, SocketInv
    <3>4. CASE JoinRooms
      BY <3>1, <3>2, <3>4, <1>2 DEF JoinRooms, SocketInv
    <3>5. CASE SendHistory
      BY <3>1, <3>2, <3>5 DEF SendHistory, SocketInv
    <3> QED BY <1>3, <3>3, <3>4, <3>5
  <2>2. IsFiniteSet({})
    BY FS_EmptySet
  <2>3. IsFiniteSet(socket'.read) /\ socket'.read \subseteq Filed
    BY <2>1, <2>2 DEF SocketInv
  <2> QED BY <1>1, <2>1, <2>3 DEF SocketInv, AtHome
<1>4. ASSUME NEW c \in ChatRooms, ReadLog(c) PROVE SocketInv'
  <2>1. log[c] \subseteq Filed /\ log[c] \subseteq Messages /\ IsFiniteSet(log[c])
    BY DEF PostsInv, Filed
  <2>2. /\ socket.join = "reading" /\ asked' = asked
        /\ socket' = [socket EXCEPT !.unread = @ \ {c}, !.read = @ \cup log[c]]
    BY <1>4 DEF ReadLog
  <2>3. browser.state # "offline"
    BY <2>2, NewSocketFields DEF SocketInv
  <2>4. IsFiniteSet(socket.read \cup log[c])
    BY <2>1, FS_Union DEF SocketInv
  <2>5. /\ socket' \in [inSession : BOOLEAN, rooms : SUBSET ChatRooms,
                        join : {"none", "asked", "reviving", "reading"},
                        unread : SUBSET ChatRooms, read : SUBSET Messages]
        /\ socket'.rooms = socket.rooms /\ socket'.unread \subseteq socket.unread
        /\ socket'.read = socket.read \cup log[c]
    BY <2>1, <2>2 DEF SocketInv
  <2> QED BY <1>1, <2>1, <2>2, <2>3, <2>4, <2>5 DEF SocketInv, AtHome
<1>5. ASSUME NEW c \in ChatRooms, Subscribe(c) PROVE SocketInv'
  <2> DEFINE a == [room |-> c, read |-> TRUE, ids |-> log[c]]
             r == [room |-> c, read |-> FALSE]
  <2>1. /\ r \in asked /\ socket' = [socket EXCEPT !.rooms = Exists]
        /\ asked' = (asked \ {r}) \cup {a}
    BY <1>5 DEF Subscribe
  <2>2. /\ log[c] \subseteq Filed /\ log[c] \subseteq AtHome(c) /\ log[c] \subseteq Messages
        /\ IsFiniteSet(log[c])
    BY DEF PostsInv, Filed, AtHome
  <2>3. r.room = c /\ c \in Exists
    BY <2>1 DEF SocketInv
  <2>4. browser.state # "offline"
    BY <2>1 DEF SocketInv
  <2>5. /\ socket' \in [inSession : BOOLEAN, rooms : SUBSET ChatRooms,
                        join : {"none", "asked", "reviving", "reading"},
                        unread : SUBSET ChatRooms, read : SUBSET Messages]
        /\ socket'.rooms = Exists /\ socket'.unread = socket.unread
        /\ socket'.read = socket.read
    BY <2>1, <1>2 DEF SocketInv
  <2>6. /\ a \in [room : ChatRooms, read : {TRUE}, ids : SUBSET Messages]
        /\ a.room = c /\ a.ids = log[c]
    BY <2>2
  <2> HIDE DEF a, r
  <2>7. ASSUME NEW b \in asked'
        PROVE  /\ b \in [room : ChatRooms, read : {FALSE}]
                        \cup [room : ChatRooms, read : {TRUE}, ids : SUBSET Messages]
               /\ b.room \in Exists
               /\ b.read => b.ids \subseteq Filed /\ b.ids \subseteq AtHome(b.room)
                            /\ IsFiniteSet(b.ids)
    <3>1. CASE b = a
      BY <3>1, <2>2, <2>3, <2>6
    <3>2. CASE b \in asked
      BY <3>2 DEF SocketInv
    <3> QED BY <3>1, <3>2, <2>1
  <2>8. AtHome(c) = AtHome(c)'
    BY DEF AtHome
  <2> QED BY <1>1, <2>4, <2>5, <2>7 DEF SocketInv, AtHome
<1>6. CASE SendReplay
  <2>1. asked' \subseteq asked /\ asked # {} /\ socket' = socket
    BY <1>6 DEF SendReplay
  <2>2. browser.state # "offline"
    BY <2>1 DEF SocketInv
  <2> QED BY <1>1, <2>1, <2>2 DEF SocketInv, AtHome
<1> QED BY <1>3, <1>4, <1>5, <1>6

(* Every step keeps what the server holds for a connection. *)
LEMMA SocketKept ==
  ASSUME PostsInv, SocketInv, WireInv, browser \in Browsers, [ChatNext]_chatVars
  PROVE  SocketInv'
<1>1. Allotted \subseteq Allotted' /\ Filed \subseteq Filed' /\ Exists \subseteq Exists'
  BY PostsGrow
<1>2. CASE UNCHANGED chatVars
  <2>1. UNCHANGED <<socket, asked, browser, wire>>
    BY <1>2 DEF chatVars
  <2> QED BY <1>1, <2>1, GrowthKeepsSocket DEF SocketInv
<1>3. ASSUME NEW m \in Messages,
             \/ PostMessage(m) \/ StartTurn(m) \/ Delta(m) \/ EndTurn(m)
             \/ FailTurn(m) \/ Allocated(m) \/ Write(m) \/ Broadcast(m)
      PROVE  SocketInv'
  <2>1. UNCHANGED <<socket, asked, browser>>
    BY <1>3 DEF PostMessage, StartTurn, Delta, EndTurn, FailTurn, Allocated, Write, Broadcast
  <2>2. wire' = wire \/ \E es : wire' = (IF HomeOf[m] \in socket.rooms THEN wire \o es ELSE wire)
    BY <1>3 DEF PostMessage, StartTurn, Delta, EndTurn, FailTurn, Allocated, Write, Broadcast,
                Send
  <2>3. browser.state = "offline" => wire' = <<>>
    BY <2>2, NewSocketFields DEF SocketInv
  <2> QED BY <1>1, <2>1, <2>3, GrowthKeepsSocket DEF SocketInv
<1>4. ASSUME NEW c \in ChatRooms, Spawn(c) PROVE SocketInv'
  <2>1. UNCHANGED <<socket, asked, browser>> /\ (~socket.inSession => wire' = wire)
    BY <1>4 DEF Spawn
  <2>2. browser.state = "offline" => wire' = <<>>
    BY <2>1, NewSocketFields DEF SocketInv
  <2> QED BY <1>1, <2>1, <2>2, GrowthKeepsSocket DEF SocketInv
<1>5. CASE \/ JoinSession \/ JoinRooms \/ SendHistory \/ SendReplay
           \/ \E c \in ChatRooms : ReadLog(c) \/ Subscribe(c)
  <2>1. UNCHANGED serverVars /\ UNCHANGED browser
    BY <1>5 DEF JoinSession, JoinRooms, SendHistory, SendReplay, ReadLog, Subscribe
  <2> QED BY <1>5, <2>1, ServingKeepsSocket
<1>6. CASE Connect
  <2>1. /\ browser.state = "offline" /\ browser' = NewBrowser("joining")
        /\ socket' = [NewSocket EXCEPT !.join = "asked"] /\ UNCHANGED <<serverVars, wire, asked>>
    BY <1>6 DEF Connect
  <2>2. browser'.state = "joining" /\ asked' = {}
    BY <2>1 DEF NewBrowser, SocketInv
  <2>3. /\ socket' \in [inSession : BOOLEAN, rooms : SUBSET ChatRooms,
                        join : {"none", "asked", "reviving", "reading"},
                        unread : SUBSET ChatRooms, read : SUBSET Messages]
        /\ socket'.rooms = {} /\ socket'.unread = {} /\ socket'.read = {}
    BY <2>1 DEF NewSocket
  <2> QED BY <2>2, <2>3, FS_EmptySet DEF SocketInv
<1>7. CASE Disconnect
  <2>1. /\ browser' = [browser EXCEPT !.state = "offline", !.streaming = {}, !.subscribed = {}]
        /\ socket' = NewSocket /\ wire' = <<>> /\ asked' = {}
    BY <1>7 DEF Disconnect
  <2>2. browser'.streaming = {}
    BY <2>1 DEF Browsers
  <2>3. NewSocket' = NewSocket
    BY DEF NewSocket
  <2> QED BY <2>1, <2>2, <2>3, NewSocketFields DEF SocketInv
<1>8. CASE Handle
  <2> DEFINE e == Head(wire)
             r == [room |-> e.room, read |-> FALSE]
  <2>1. /\ wire # <<>> /\ browser' = Handled(e)
        /\ asked' = IF e.ev = "spawned" /\ e.room \notin browser.subscribed
                    THEN asked \cup {r} ELSE asked
        /\ UNCHANGED <<serverVars, socket>>
    BY <1>8 DEF Handle
  <2>2. e \in Events /\ Told(e)
    <3>1. wire \in Seq(Events) /\ \A d \in Elements(wire) : Told(d)
      BY DEF WireInv
    <3> QED BY <3>1, <2>1, HeadAndTail
  <2> HIDE DEF e
  <2>3. browser.state # "offline" /\ browser'.state # "offline"
    <3>1. browser.state # "offline"
      BY <2>1 DEF SocketInv
    <3>2. browser'.state \in {browser.state, "loaded"}
      BY <2>1, <2>2, HandledFields
    <3> QED BY <3>1, <3>2
  <2>4. Filed' = Filed /\ Exists' = Exists
    BY <2>1 DEF serverVars, Filed, Exists
  <2>5. e.ev = "spawned" => e.room \in Exists /\ e.room \in ChatRooms
    BY <2>2 DEF Told, Events
  <2>6. ASSUME NEW a \in asked'
        PROVE  /\ a \in [room : ChatRooms, read : {FALSE}]
                        \cup [room : ChatRooms, read : {TRUE}, ids : SUBSET Messages]
               /\ a.room \in Exists
               /\ a.read => a.ids \subseteq Filed /\ a.ids \subseteq AtHome(a.room)
                            /\ IsFiniteSet(a.ids)
    <3>1. CASE a \in asked
      BY <3>1 DEF SocketInv
    <3>2. CASE a \notin asked
      <4>1. a = r /\ e.ev = "spawned"
        BY <3>2, <2>1
      <4>2. r \in [room : ChatRooms, read : {FALSE}] /\ r.room = e.room /\ ~r.read
        BY <4>1, <2>5
      <4> QED BY <4>1, <4>2, <2>5
    <3> QED BY <3>1, <3>2
  <2> QED BY <2>1, <2>3, <2>4, <2>6 DEF SocketInv, AtHome
<1> QED BY <1>2, <1>3, <1>4, <1>5, <1>6, <1>7, <1>8 DEF ChatNext

(* What an event names has its seq, and what it shows whole is filed. *)
LEMMA ToldOfFiled ==
  ASSUME NEW e \in Events, Told(e)
  PROVE  Wholes(e) \subseteq Filed /\ About(e) \subseteq Allotted
<1>1. Filed \subseteq Allotted
  BY DEF Filed, Allotted
<1>2. e.ev \in {"start", "delta", "error", "end", "message"} => e.id \in Messages
  BY DEF Events
<1>3. e.ev \in {"start", "delta", "error", "end", "message", "history", "replay", "roster",
                "spawned"}
  BY DEF Events
<1>4. e.ev = "message" => e.id \in Filed
  BY <1>2 DEF Told, Filed
<1> QED BY <1>1, <1>2, <1>3, <1>4 DEF Told, Wholes, About

(* Two names are two events. *)
LEMMA SaysFacts ==
  ASSUME NEW m \in Messages
  PROVE  /\ \A name : Says(name, m).ev = name /\ Says(name, m).id = m
         /\ \A name \in {"start", "delta", "error", "end", "message"} : Says(name, m) \in Events
         /\ \A name : Event(name, m) = <<Says(name, m)>>
BY DEF Says, Events, Event

\* How a stream begins: its start, what was held behind it, and its error.
Beginning(m, k, error) ==
  Event("start", m) \o [i \in 1 .. k |-> [ev |-> "delta", id |-> m]] \o error

(* The start comes first, and every piece with it. *)
LEMMA BeginningFacts ==
  ASSUME NEW m \in Messages, NEW k \in Nat,
         NEW error, error = <<>> \/ error = <<Says("error", m)>>,
         NEW es, es = Beginning(m, k, error)
  PROVE  /\ es \in Seq(Events) /\ InTurn(es)
         /\ \A e \in Elements(es) : e.id = m /\ e.ev \in {"start", "delta", "error"}
         /\ Pieces(es, m) = k /\ Births(es, m) = 1
<1> DEFINE first == <<Says("start", m)>>
           held == [i \in 1 .. k |-> Says("delta", m)]
<1>1. es = first \o held \o error
  BY SaysFacts DEF Says, Beginning
<1>2. /\ first \in Seq(Events) /\ Elements(first) = {Says("start", m)}
      /\ \A S : Count(first, S) = IF Says("start", m) \in S THEN 1 ELSE 0
  <2>1. Says("start", m) \in Events
    BY SaysFacts
  <2> QED BY <2>1, OneEvent
<1>3. /\ error \in Seq(Events) /\ Elements(error) \subseteq {Says("error", m)}
  <2>1. <<>> \in Seq(Events) /\ Elements(<<>>) = {}
    BY EmptySeq DEF Elements
  <2>2. Says("error", m) \in Events
    BY SaysFacts
  <2>3. <<Says("error", m)>> \in Seq(Events) /\ Elements(<<Says("error", m)>>) = {Says("error", m)}
    BY <2>2, OneEvent
  <2> QED BY <2>1, <2>3
<1>4. held \in Seq(Events) /\ Elements(held) \subseteq {Says("delta", m)} /\ Len(held) = k
  <2>1. Says("delta", m) \in Events
    BY SaysFacts
  <2>2. held \in Seq(Events) /\ Len(held) = k /\ \A i \in DOMAIN held : held[i] = Says("delta", m)
    BY <2>1
  <2> QED BY <2>2 DEF Elements
<1> HIDE DEF first, held
<1>5. /\ first \o held \in Seq(Events)
      /\ Elements(first \o held) = Elements(first) \cup Elements(held)
      /\ \A S : Count(first \o held, S) = Count(first, S) + Count(held, S)
  BY <1>2, <1>4, ConcatProperties, ElementsOfConcat, CountOfConcat
<1> DEFINE both == first \o held
<1>6. /\ both \in Seq(Events) /\ es = both \o error
      /\ Elements(both) = Elements(first) \cup Elements(held)
      /\ \A S : Count(both, S) = Count(first, S) + Count(held, S)
  BY <1>1, <1>5
<1>7. InTurn(both)
  <2>1. InTurn(first) /\ InTurn(held)
    <3>1. \A i, j \in DOMAIN first : ~(i < j)
      BY DEF first
    <3>2. \A i \in DOMAIN held : held[i].ev = "delta"
      <4>1. \A i \in DOMAIN held : held[i] = Says("delta", m)
        BY <1>4 DEF Elements
      <4> QED BY <4>1, SaysFacts
    <3>3. \A d, e : d.ev = "delta" /\ e.ev = "delta" => Before(d, e)
      BY DEF Before, Wholes
    <3> QED BY <3>1, <3>2, <3>3 DEF InTurn
  <2>2. \A d \in Elements(first) : \A e \in Elements(held) : Before(d, e)
    BY <1>2, <1>4, SaysFacts DEF Before, Wholes
  <2> QED BY <1>2, <1>4, <2>1, <2>2, InTurnConcat
<1> HIDE DEF both
<1>8. /\ es \in Seq(Events) /\ Elements(es) = Elements(both) \cup Elements(error)
      /\ \A S : Count(es, S) = Count(both, S) + Count(error, S)
  <2>1. both \o error \in Seq(Events)
    BY <1>3, <1>6, ConcatProperties
  <2>2. Elements(both \o error) = Elements(both) \cup Elements(error)
    BY <1>3, <1>6, ElementsOfConcat
  <2>3. \A S : Count(both \o error, S) = Count(both, S) + Count(error, S)
    BY <1>3, <1>6, CountOfConcat
  <2> QED BY <2>1, <2>2, <2>3, <1>6
<1>9. InTurn(es)
  <2>1. InTurn(error)
    <3>1. \A i \in DOMAIN error : error[i].ev = "error"
      BY <1>3, SaysFacts DEF Elements
    <3> QED BY <3>1 DEF InTurn, Before
  <2>2. \A d \in Elements(both) : \A e \in Elements(error) : Before(d, e)
    BY <1>3, SaysFacts DEF Before
  <2> QED BY <1>3, <1>6, <1>7, <2>1, <2>2, InTurnConcat
<1>10. \A e \in Elements(es) : e.id = m /\ e.ev \in {"start", "delta", "error"}
  <2>1. Elements(es) \subseteq {Says("start", m), Says("delta", m), Says("error", m)}
    BY <1>2, <1>3, <1>4, <1>6, <1>8
  <2>2. \A e \in {Says("start", m), Says("delta", m), Says("error", m)} :
          e.id = m /\ e.ev \in {"start", "delta", "error"}
    BY DEF Says
  <2> QED BY <2>1, <2>2
<1>11. Says("start", m) # Says("delta", m) /\ Says("delta", m) # Says("message", m)
       /\ Says("error", m) # Says("delta", m) /\ Says("error", m) # Says("start", m)
       /\ Says("error", m) # Says("message", m)
  BY SaysFacts
<1>12. Count(es, {Says("delta", m)}) = k
  <2>1. Count(first, {Says("delta", m)}) = 0
    BY <1>2, <1>11
  <2>2. Only(held, {Says("delta", m)}) = held
    BY <1>4, OnlyOfAll
  <2>3. Count(held, {Says("delta", m)}) = k
    BY <2>2, <1>4 DEF Count
  <2>4. Count(error, {Says("delta", m)}) = 0
    BY <1>3, <1>11, CountOfNone
  <2>5. /\ Count(both, {Says("delta", m)}) = 0 + k
        /\ Count(es, {Says("delta", m)}) = Count(both, {Says("delta", m)}) + 0
    BY <2>1, <2>3, <2>4, <1>6, <1>8
  <2> QED BY <2>5
<1>13. Count(es, {Says("start", m), Says("message", m)}) = 1
  <2>1. Count(first, {Says("start", m), Says("message", m)}) = 1
    BY <1>2
  <2>2. Count(held, {Says("start", m), Says("message", m)}) = 0
    BY <1>4, <1>11, CountOfNone
  <2>3. Count(error, {Says("start", m), Says("message", m)}) = 0
    BY <1>3, <1>11, CountOfNone
  <2> DEFINE B == {Says("start", m), Says("message", m)}
  <2>4. Count(both, B) = 1 + 0 /\ Count(es, B) = Count(both, B) + 0
    <3> HIDE DEF B
    <3> QED BY <2>1, <2>2, <2>3, <1>6, <1>8 DEF B
  <2> QED BY <2>4
<1> QED BY <1>8, <1>9, <1>10, <1>12, <1>13 DEF Pieces, Births

(* Every step keeps the wire. *)
LEMMA WireKept ==
  ASSUME PostsInv, SocketInv, WireInv, [ChatNext]_chatVars PROVE WireInv'
<1>0. /\ Allotted \subseteq Allotted' /\ Filed \subseteq Filed' /\ Exists \subseteq Exists'
      /\ \A n \in Messages : post[n] = "sent" => post'[n] = "sent"
  BY PostsGrow
<1>1. CASE wire' = wire /\ text' = text /\ socket.rooms \subseteq socket'.rooms
  BY <1>0, <1>1, SilenceKeepsWire
<1>2. /\ wire \in Seq(Events) /\ Elements(wire) \subseteq Events
      /\ \A d \in Elements(wire) : Told(d)
  BY DEF WireInv, Elements
<1>3. \A d \in Elements(wire) : Wholes(d) \subseteq Filed /\ About(d) \subseteq Allotted
  BY <1>2, ToldOfFiled
<1>4. ASSUME NEW m \in Messages, Delta(m) PROVE WireInv'
  <2>1. /\ stream[m] = "open" /\ text' = [text EXCEPT ![m] = @ + 1]
        /\ UNCHANGED <<socket, post>>
        /\ IF post[m] = "reserved" THEN Send(HomeOf[m], Event("delta", m)) ELSE wire' = wire
    BY <1>4 DEF Delta
  <2>2. /\ m \in Streams /\ post[m] \in {"reserving", "reserved"} /\ m \notin Filed
        /\ text[m] \in Nat /\ text'[m] = text[m] + 1
        /\ \A n \in Messages : n # m => text'[n] = text[n]
    BY <2>1, ChatAssumption DEF PostsInv, Filed
  <2>3. CASE post[m] = "reserved" /\ HomeOf[m] \in socket.rooms
    <3> DEFINE es == <<Says("delta", m)>>
    <3>1. /\ es \in Seq(Events) /\ Elements(es) = {Says("delta", m)}
          /\ \A S : Count(es, S) = IF Says("delta", m) \in S THEN 1 ELSE 0
      <4>1. Says("delta", m) \in Events
        BY SaysFacts
      <4> QED BY <4>1, OneEvent
    <3>2. wire' = wire \o es
      BY <2>1, <2>3, SaysFacts DEF Send
    <3>3. InTurn(es)
      <4>1. \A i, j \in DOMAIN es : ~(i < j)
        OBVIOUS
      <4> QED BY <4>1 DEF InTurn
    <3> HIDE DEF es
    <3>4. \A d \in Elements(wire) : \A e \in Elements(es) : Before(d, e)
      BY <3>1, <1>3, <2>2 DEF Before, Says
    <3>5. \A e \in Elements(es) : Told(e)'
      <4>1. m \in Allotted'
        BY <2>1, <2>3 DEF Allotted
      <4> QED BY <3>1, <4>1, <2>1, <2>2, <2>3 DEF Told, Says
    <3>6. ASSUME NEW n \in Messages, Says("start", n) \in Elements(wire) \cup Elements(es)
          PROVE  Pieces(wire, n) + Pieces(es, n) = text'[n]
      <4>1. Says("start", n) \in Elements(wire)
        BY <3>1, <3>6 DEF Says
      <4>2. Pieces(wire, n) = text[n] /\ text[n] \in Nat
        BY <4>1, ChatAssumption DEF WireInv, PostsInv
      <4>3. CASE n = m
        BY <4>2, <4>3, <3>1, <2>2 DEF Pieces
      <4>4. CASE n # m
        <5>1. Says("delta", m) \notin {Says("delta", n)}
          BY <4>4 DEF Says
        <5>2. Pieces(es, n) = 0
          BY <5>1, <3>1 DEF Pieces
        <5> QED BY <4>2, <4>4, <5>2, <2>2
      <4> QED BY <4>3, <4>4
    <3> QED BY <1>0, <2>1, <3>1, <3>2, <3>3, <3>4, <3>5, <3>6, SpokenKeepsWire
  <2>4. CASE ~(post[m] = "reserved" /\ HomeOf[m] \in socket.rooms)
    <3>1. wire' = wire
      BY <2>1, <2>4 DEF Send
    <3>2. ASSUME Says("start", m) \in Elements(wire) PROVE FALSE
      <4>1. m \in Allotted /\ HomeOf[m] \in socket.rooms
        BY <3>2, <1>2 DEF Told, Says
      <4> QED BY <4>1, <2>2, <2>4 DEF Allotted
    <3>3. \A n \in Messages : Says("start", n) \in Elements(wire) => text'[n] = text[n]
      BY <3>2, <2>2
    <3> QED BY <1>0, <2>1, <3>1, <3>3, SilenceKeepsWire
  <2> QED BY <2>3, <2>4
<1>5. ASSUME NEW m \in Messages, Allocated(m) PROVE WireInv'
  <2> DEFINE error == IF stream[m] = "failed" THEN Event("error", m) ELSE <<>>
             es == Event("start", m) \o [i \in 1 .. text[m] |-> [ev |-> "delta", id |-> m]] \o error
  <2>1. /\ UNCHANGED <<socket, text>> /\ post[m] = "reserving"
        /\ IF m \in Streams THEN Send(HomeOf[m], es) ELSE wire' = wire
    BY <1>5 DEF Allocated
  <2>2. m \notin Allotted /\ m \in Allotted' /\ m \notin Filed
    <3>1. m \notin Allotted /\ m \notin Filed
      BY <2>1 DEF Allotted, Filed
    <3>2. post'[m] \in {"spent", "reserved"}
      BY <1>5 DEF Allocated, PostsInv
    <3> QED BY <3>1, <3>2 DEF Allotted
  <2>3. CASE m \in Streams /\ HomeOf[m] \in socket.rooms
    <3>1. wire' = wire \o es
      BY <2>1, <2>3 DEF Send
    <3>2. (error = <<>> \/ error = <<Says("error", m)>>) /\ text[m] \in Nat
      BY SaysFacts, ChatAssumption DEF PostsInv
    <3>3. es = Beginning(m, text[m], error)
      BY DEF Beginning
    <3> HIDE DEF es, error
    <3>4. /\ es \in Seq(Events) /\ InTurn(es)
          /\ \A e \in Elements(es) : e.id = m /\ e.ev \in {"start", "delta", "error"}
          /\ Pieces(es, m) = text[m]
      BY <3>2, <3>3, BeginningFacts
    <3>5. \A d \in Elements(wire) : \A e \in Elements(es) : Before(d, e)
      BY <3>4, <1>3, <2>2 DEF Before
    <3>6. \A e \in Elements(es) : Told(e)'
      BY <3>4, <2>1, <2>2, <2>3 DEF Told
    <3>7. ASSUME NEW n \in Messages, Says("start", n) \in Elements(wire) \cup Elements(es)
          PROVE  Pieces(wire, n) + Pieces(es, n) = text'[n]
      <4>1. CASE n = m
        <5>1. Says("delta", m) \notin Elements(wire)
          BY <1>2, <2>2 DEF Told, Says
        <5>2. Pieces(wire, m) = 0
          <6>1. Elements(wire) \cap {Says("delta", m)} = {}
            BY <5>1
          <6> QED BY <6>1, <1>2, CountOfNone DEF Pieces
        <5> QED BY <5>2, <4>1, <3>2, <3>4, <2>1 DEF Pieces
      <4>2. CASE n # m
        <5>1. Says("delta", n) \notin Elements(es) /\ Says("start", n) \notin Elements(es)
          BY <4>2, <3>4 DEF Says
        <5>2. Pieces(es, n) = 0
          <6>1. Elements(es) \cap {Says("delta", n)} = {}
            BY <5>1
          <6> QED BY <6>1, <3>4, CountOfNone DEF Pieces
        <5>3. Pieces(wire, n) = text[n] /\ text[n] \in Nat
          BY <5>1, <3>7, ChatAssumption DEF WireInv, PostsInv
        <5> QED BY <5>2, <5>3, <2>1
      <4> QED BY <4>1, <4>2
    <3> QED BY <1>0, <2>1, <3>1, <3>4, <3>5, <3>6, <3>7, SpokenKeepsWire
  <2>4. CASE ~(m \in Streams /\ HomeOf[m] \in socket.rooms)
    <3>1. wire' = wire
      BY <2>1, <2>4 DEF Send
    <3> QED BY <3>1, <2>1, <1>1
  <2> QED BY <2>3, <2>4
<1>6. ASSUME NEW m \in Messages, FailTurn(m) \/ Broadcast(m) PROVE WireInv'
  <2>1. UNCHANGED <<socket, text>>
    BY <1>6 DEF FailTurn, Broadcast
  <2>2. \/ wire' = wire
        \/ \E name \in {"error", "end", "message"} :
             wire' = wire \o <<Says(name, m)>> /\ Told(Says(name, m))'
    <3>1. CASE FailTurn(m) /\ wire' # wire
      <4>1. /\ wire' = wire \o <<Says("error", m)>> /\ HomeOf[m] \in socket.rooms
            /\ post[m] = "reserved" /\ stream[m] = "open"
        BY <3>1, SaysFacts DEF FailTurn, Send
      <4>2. m \in Allotted' /\ m \in Streams
        BY <4>1, <1>0 DEF Allotted, PostsInv
      <4> QED BY <4>1, <4>2, <2>1 DEF Told, Says
    <3>2. CASE Broadcast(m) /\ wire' # wire
      <4> DEFINE name == IF m \in Streams THEN "end" ELSE "message"
      <4>1. wire' = wire \o <<Says(name, m)>> /\ post[m] = "written"
        BY <3>2, SaysFacts DEF Broadcast, Send
      <4>2. post'[m] = "sent"
        BY <3>2 DEF Broadcast, PostsInv
      <4>3. m \in Filed'
        BY <4>2 DEF Filed
      <4>4. Told(Says(name, m))'
        BY <4>2, <4>3 DEF Told, Says
      <4> QED BY <4>1, <4>4
    <3> QED BY <1>6, <3>1, <3>2
  <2>3. ASSUME NEW name \in {"error", "end", "message"},
               wire' = wire \o <<Says(name, m)>>, Told(Says(name, m))'
        PROVE  WireInv'
    <3>1. <<Says(name, m)>> \in Seq(Events) /\ Elements(<<Says(name, m)>>) = {Says(name, m)}
      <4>1. Says(name, m) \in Events
        BY SaysFacts
      <4> QED BY <4>1, OneEvent
    <3>2. Says(name, m).ev \notin {"start", "delta"}
      BY DEF Says
    <3> DEFINE es == <<Says(name, m)>>
    <3>3. /\ es \in Seq(Events) /\ wire' = wire \o es
          /\ \A e \in Elements(es) : Told(e)' /\ e.ev \notin {"start", "delta"}
      BY <2>3, <3>1, <3>2
    <3> HIDE DEF es
    <3> QED BY <1>0, <2>1, <3>3, SentKeepsWire
  <2> QED BY <1>1, <2>1, <2>2, <2>3
<1>7. ASSUME NEW e \in Events, wire' = Append(wire, e), Told(e)', e.ev \notin {"start", "delta"},
             text' = text, socket.rooms \subseteq socket'.rooms
      PROVE  WireInv'
  <2> DEFINE es == <<e>>
  <2>1. es \in Seq(Events) /\ Elements(es) = {e}
    BY OneEvent
  <2>2. wire' = wire \o es
    BY <1>2, <1>7, AppendIsConcat
  <2> HIDE DEF es
  <2> QED BY <1>0, <1>7, <2>1, <2>2, SentKeepsWire
<1>8. ASSUME NEW c \in ChatRooms, Spawn(c) PROVE WireInv'
  <2>1. UNCHANGED <<socket, text>> /\ c \in Exists'
    BY <1>8 DEF Spawn, Exists
  <2> DEFINE e == [ev |-> "spawned", room |-> c]
  <2>2. wire' = wire \/ wire' = Append(wire, e)
    BY <1>8 DEF Spawn
  <2>3. e \in Events /\ e.ev = "spawned" /\ Told(e)'
    BY <2>1 DEF Events, Told
  <2> HIDE DEF e
  <2> QED BY <2>1, <2>2, <2>3, <1>1, <1>7
<1>9. CASE SendReplay
  <2>1. PICK a \in asked : /\ a.read /\ asked' = asked \ {a}
                           /\ wire' = Append(wire, [ev |-> "replay", room |-> a.room, ids |-> a.ids])
    BY <1>9 DEF SendReplay
  <2> DEFINE e == [ev |-> "replay", room |-> a.room, ids |-> a.ids]
  <2>2. a.room \in ChatRooms /\ a.ids \in SUBSET Messages
    BY <2>1 DEF SocketInv
  <2>3. UNCHANGED <<socket, text>> /\ Filed' = Filed
    BY <1>9 DEF SendReplay, serverVars, Filed
  <2>4. e \in Events /\ e.ev = "replay" /\ e.ids = a.ids /\ e.room = a.room
    BY <2>2 DEF Events
  <2> HIDE DEF e
  <2>5. Told(e)'
    BY <2>1, <2>3, <2>4 DEF Told, SocketInv, AtHome
  <2> QED BY <2>1, <2>3, <2>4, <2>5, <1>7 DEF e
<1>10. CASE SendHistory
  <2>2. PICK h \in Events, r \in Events :
          /\ h = [ev |-> "history", ids |-> socket.read] /\ r = [ev |-> "roster", rooms |-> Exists]
    <3>1. socket.read \in SUBSET Messages /\ Exists \in SUBSET ChatRooms
      BY ChatAssumption DEF SocketInv, PostsInv, Exists
    <3> QED BY <3>1 DEF Events
  <2> DEFINE es == <<h, r>>
  <2>1. /\ wire' = wire \o es /\ UNCHANGED text /\ socket'.rooms = socket.rooms
        /\ Filed' = Filed /\ Exists' = Exists
    BY <1>10, <2>2 DEF SendHistory, serverVars, Filed, Exists, SocketInv
  <2>3. Told(h)' /\ Told(r)'
    BY <2>1, <2>2 DEF Told, SocketInv
  <2>4. h.ev = "history" /\ r.ev = "roster"
    BY <2>2
  <2>5. es \in Seq(Events) /\ Elements(es) = {h, r}
    <3>1. es \in Seq(Events) /\ DOMAIN es = {1, 2} /\ es[1] = h /\ es[2] = r
      OBVIOUS
    <3> QED BY <3>1 DEF Elements
  <2> HIDE DEF es
  <2>6. \A e \in Elements(es) : Told(e)' /\ e.ev \notin {"start", "delta"}
    BY <2>3, <2>4, <2>5
  <2> QED BY <1>0, <2>1, <2>5, <2>6, SentKeepsWire
<1>11. CASE Disconnect
  <2>1. wire' = <<>>
    BY <1>11 DEF Disconnect
  <2>2. <<>> \in Seq(Events) /\ Elements(<<>>) = {} /\ InTurn(<<>>)
    BY EmptySeq DEF Elements, InTurn
  <2> QED BY <2>1, <2>2 DEF WireInv
<1>12. CASE Handle
  <2> DEFINE h == Head(wire)
             t == Tail(wire)
  <2>1. wire # <<>> /\ wire' = t /\ UNCHANGED <<serverVars, socket>>
    BY <1>12 DEF Handle
  <2>2. /\ t \in Seq(Events) /\ Elements(wire) = {h} \cup Elements(t) /\ h \in Elements(wire)
        /\ \A S : /\ Count(t, S) \in Nat
                  /\ Count(wire, S) = IF h \in S THEN Count(t, S) + 1 ELSE Count(t, S)
    BY <2>1, <1>2, HeadAndTail
  <2>3. InTurn(t) /\ \A e \in Elements(t) : Before(h, e)
    BY <2>1, InTurnTail DEF WireInv
  <2> HIDE DEF h, t
  <2>4. ASSUME NEW e \in Elements(t) PROVE Told(e)'
    <3>1. e \in Events /\ Told(e)
      BY <1>2, <2>2
    <3>2. socket.rooms \subseteq socket'.rooms
      BY <2>1
    <3> QED BY <1>0, <3>1, <3>2, StillTold
  <2>5. ASSUME NEW m \in Messages, Says("start", m) \in Elements(t)
        PROVE  Pieces(t, m) = text'[m]
    <3>1. Before(h, Says("start", m)) /\ Pieces(wire, m) = text[m]
      BY <2>2, <2>3, <2>5 DEF WireInv
    <3>2. h # Says("delta", m)
      BY <3>1 DEF Before, About, Says
    <3>3. Pieces(t, m) = Pieces(wire, m)
      BY <2>2, <3>2 DEF Pieces
    <3> QED BY <3>1, <3>3, <2>1 DEF serverVars
  <2> QED BY <2>1, <2>2, <2>3, <2>4, <2>5 DEF WireInv, Pieces
<1>13. \/ wire' = wire /\ text' = text /\ socket.rooms \subseteq socket'.rooms
       \/ \E m \in Messages : Delta(m) \/ Allocated(m) \/ FailTurn(m) \/ Broadcast(m)
       \/ \E c \in ChatRooms : Spawn(c)
       \/ SendReplay \/ SendHistory \/ Disconnect \/ Handle
  <2>1. CASE \/ UNCHANGED chatVars
             \/ \E m \in Messages : PostMessage(m) \/ StartTurn(m) \/ EndTurn(m) \/ Write(m)
    BY <2>1 DEF chatVars, PostMessage, StartTurn, EndTurn, Write
  <2>2. CASE JoinSession \/ JoinRooms \/ (\E c \in ChatRooms : ReadLog(c) \/ Subscribe(c))
    BY <2>2 DEF JoinSession, JoinRooms, ReadLog, Subscribe, serverVars, SocketInv
  <2>3. CASE Connect
    <3>1. socket.rooms = {} /\ UNCHANGED <<wire, text>>
      BY <2>3, NewSocketFields DEF Connect, serverVars, SocketInv
    <3> QED BY <3>1
  <2> QED BY <2>1, <2>2, <2>3 DEF ChatNext
<1> QED BY <1>1, <1>4, <1>5, <1>6, <1>8, <1>9, <1>10, <1>11, <1>12, <1>13

-----------------------------------------------------------------------------
(* The chat: what a step of the server says *)

ServerStep ==
  \/ \E m \in Messages : \/ PostMessage(m) \/ StartTurn(m) \/ Delta(m) \/ EndTurn(m)
                         \/ FailTurn(m) \/ Allocated(m) \/ Write(m) \/ Broadcast(m)
  \/ \E c \in ChatRooms : Spawn(c) \/ ReadLog(c) \/ Subscribe(c)
  \/ JoinSession \/ JoinRooms \/ SendHistory \/ SendReplay

\* A browser that listens hears of a Message from now on.
Started(m) == IF m \in Streams THEN m \in Allotted ELSE post[m] = "sent"

\* What may be new on the wire.
Fresh(e) ==
  /\ e.ev = "start" => e.id \notin Allotted
  /\ e.ev = "delta" => e.id \notin Filed
  /\ e.ev = "history" => e.ids = socket.read /\ socket.join = "reading" /\ socket.unread = {}
  /\ e.ev = "replay" => \E a \in asked : a.read /\ a.ids = e.ids /\ asked' = asked \ {a}
  /\ e.ev = "spawned" => e.room \notin Exists
  /\ e.ev = "roster" => socket.join = "reading" /\ e.rooms = Exists

\* A step says es: a start or a message of whoever starts, every piece that is emitted
\* of what has started, and the end of what is broadcast.
Speaks(es) ==
  /\ es \in Seq(Events) /\ wire' = wire \o es
  /\ \A e \in Elements(es) : Fresh(e)
  /\ \A n \in Messages :
       /\ n \in Allotted /\ HomeOf[n] \in socket.rooms => Pieces(es, n) + text[n] = text'[n]
       /\ Births(es, n) = IF HomeOf[n] \in socket.rooms /\ ~Started(n) /\ Started(n)'
                          THEN 1 ELSE 0
       /\ n \in Streams /\ HomeOf[n] \in socket.rooms /\ post[n] # "sent" /\ post'[n] = "sent"
            => Says("end", n) \in Elements(es)

(* Whoever says nothing starts nothing. *)
LEMMA SilentSpeaks ==
  ASSUME PostsInv, WireInv, wire' = wire, text' = text,
         \A n \in Messages : HomeOf[n] \in socket.rooms =>
           (Started(n) <=> Started(n)') /\ (n \in Streams /\ post'[n] = "sent" => post[n] = "sent")
  PROVE  Speaks(<<>>)
<1> DEFINE z == <<>>
<1>1. z \in Seq(Events) /\ Elements(z) = {} /\ wire = wire \o z
  BY EmptySeq, ConcatEmptySeq DEF WireInv, Elements
<1>2. \A S : Count(z, S) = 0
  BY OnlyOfEmpty, EmptySeq DEF Count
<1> HIDE DEF z
<1>3. \A n \in Messages : Pieces(z, n) = 0 /\ Births(z, n) = 0 /\ text[n] \in Nat
  BY <1>2, ChatAssumption DEF Pieces, Births, PostsInv
<1>4. Speaks(z)
  BY <1>1, <1>3 DEF Speaks
<1> QED BY <1>4 DEF z

(* One thing said. *)
LEMMA OneSaid ==
  ASSUME NEW m \in Messages, NEW name \in {"start", "delta", "error", "end", "message"},
         NEW es, es = <<Says(name, m)>>
  PROVE  /\ es \in Seq(Events) /\ Elements(es) = {Says(name, m)}
         /\ \A n \in Messages :
              /\ Pieces(es, n) = IF n = m /\ name = "delta" THEN 1 ELSE 0
              /\ Births(es, n) = IF n = m /\ name \in {"start", "message"} THEN 1 ELSE 0
<1>1. Says(name, m) \in Events
  BY SaysFacts
<1>2. /\ es \in Seq(Events) /\ Elements(es) = {Says(name, m)}
      /\ \A S : Count(es, S) = IF Says(name, m) \in S THEN 1 ELSE 0
  BY <1>1, OneEvent
<1>3. ASSUME NEW n \in Messages
      PROVE  /\ Says(name, m) \in {Says("delta", n)} <=> n = m /\ name = "delta"
             /\ Says(name, m) \in {Says("start", n), Says("message", n)}
                  <=> n = m /\ name \in {"start", "message"}
  BY DEF Says
<1> QED BY <1>2, <1>3 DEF Pieces, Births

(* What tells of no Message. *)
LEMMA OtherSaid ==
  ASSUME NEW es \in Seq(Events),
         \A e \in Elements(es) : e.ev \notin {"start", "delta", "error", "end", "message"}
  PROVE  \A n \in Messages : Pieces(es, n) = 0 /\ Births(es, n) = 0
<1> SUFFICES ASSUME NEW n \in Messages PROVE Pieces(es, n) = 0 /\ Births(es, n) = 0
  OBVIOUS
<1>1. \A name \in {"start", "delta", "error", "end", "message"} : Says(name, n) \notin Elements(es)
  BY DEF Says
<1>2. Elements(es) \cap {Says("delta", n)} = {}
      /\ Elements(es) \cap {Says("start", n), Says("message", n)} = {}
  BY <1>1
<1> QED BY <1>2, CountOfNone DEF Pieces, Births

(* A step that posts nothing and says nothing of a Message. *)
LEMMA OtherSpeaks ==
  ASSUME PostsInv, UNCHANGED <<post, text>>, NEW es \in Seq(Events), wire' = wire \o es,
         \A e \in Elements(es) :
           e.ev \notin {"start", "delta", "error", "end", "message"} /\ Fresh(e)
  PROVE  Speaks(es)
<1>0. \A n \in Messages : Pieces(es, n) = 0 /\ Births(es, n) = 0
  BY OtherSaid
<1>1. \A n \in Messages : Pieces(es, n) = 0 /\ Births(es, n) = 0 /\ text[n] \in Nat
  BY <1>0, ChatAssumption DEF PostsInv
<1>2. \A n \in Messages : Started(n) <=> Started(n)'
  BY DEF Started, Allotted
<1> QED BY <1>1, <1>2 DEF Speaks

(* A piece is said at once when its start was. *)
LEMMA DeltaSpeaks ==
  ASSUME PostsInv, WireInv, NEW m \in Messages, Delta(m) PROVE \E es : Speaks(es)
<1>1. /\ stream[m] = "open" /\ text' = [text EXCEPT ![m] = @ + 1] /\ UNCHANGED post
      /\ IF post[m] = "reserved" THEN Send(HomeOf[m], Event("delta", m)) ELSE wire' = wire
  BY DEF Delta
<1>2. /\ m \in Streams /\ post[m] \in {"reserving", "reserved"} /\ m \notin Filed
      /\ \A n \in Messages : text[n] \in Nat
      /\ text'[m] = text[m] + 1 /\ \A n \in Messages : n # m => text'[n] = text[n]
  BY <1>1, ChatAssumption DEF PostsInv, Filed
<1>3. \A n \in Messages : Started(n) <=> Started(n)'
  BY <1>1 DEF Started, Allotted
<1>4. CASE post[m] = "reserved" /\ HomeOf[m] \in socket.rooms
  <2> DEFINE es == <<Says("delta", m)>>
  <2>1. wire' = wire \o es
    BY <1>1, <1>4, SaysFacts DEF Send
  <2>2. /\ es \in Seq(Events) /\ Elements(es) = {Says("delta", m)}
        /\ \A n \in Messages : Pieces(es, n) = (IF n = m THEN 1 ELSE 0) /\ Births(es, n) = 0
    BY OneSaid
  <2> HIDE DEF es
  <2>3. \A e \in Elements(es) : Fresh(e)
    BY <1>2, <2>2 DEF Fresh, Says
  <2>4. Speaks(es)
    BY <1>1, <1>2, <1>3, <2>1, <2>2, <2>3 DEF Speaks
  <2> QED BY <2>4
<1>5. CASE ~(post[m] = "reserved" /\ HomeOf[m] \in socket.rooms)
  <2> DEFINE z == <<>>
  <2>1. z \in Seq(Events) /\ Elements(z) = {} /\ wire' = wire \o z
    BY <1>1, <1>5, EmptySeq, ConcatEmptySeq DEF WireInv, Elements, Send
  <2>2. \A S : Count(z, S) = 0
    BY OnlyOfEmpty, EmptySeq DEF Count
  <2> HIDE DEF z
  <2>3. \A n \in Messages : Pieces(z, n) = 0 /\ Births(z, n) = 0
    BY <2>2 DEF Pieces, Births
  <2>4. ASSUME NEW n \in Messages, n \in Allotted, HomeOf[n] \in socket.rooms PROVE n # m
    BY <2>4, <1>2, <1>5 DEF Allotted
  <2>5. Speaks(z)
    BY <1>1, <1>2, <1>3, <2>1, <2>3, <2>4 DEF Speaks
  <2> QED BY <2>5
<1> QED BY <1>4, <1>5

(* A stream begins when its seq is there. *)
LEMMA AllocatedSpeaks ==
  ASSUME PostsInv, WireInv, NEW m \in Messages, Allocated(m) PROVE \E es : Speaks(es)
<1> DEFINE error == IF stream[m] = "failed" THEN Event("error", m) ELSE <<>>
           es == Beginning(m, text[m], error)
<1>1. /\ UNCHANGED text /\ post[m] = "reserving"
      /\ IF m \in Streams THEN Send(HomeOf[m], es) ELSE wire' = wire
  BY DEF Allocated, Beginning
<1>2. /\ post'[m] \in {"spent", "reserved"} /\ \A n \in Messages : n # m => post'[n] = post[n]
  BY DEF Allocated, PostsInv
<1>3. m \notin Allotted /\ m \in Allotted' /\ \A n \in Messages : text[n] \in Nat
  BY <1>1, <1>2, ChatAssumption DEF Allotted, PostsInv
<1>4. \A n \in Messages : n # m => (Started(n) <=> Started(n)')
  BY <1>2 DEF Started, Allotted
<1>5. (m \in Streams => ~Started(m) /\ Started(m)')
      /\ (m \notin Streams => ~Started(m) /\ ~Started(m)')
  BY <1>1, <1>2, <1>3 DEF Started
<1>6. CASE m \in Streams /\ HomeOf[m] \in socket.rooms
  <2>1. wire' = wire \o es
    BY <1>1, <1>6 DEF Send
  <2>2. error = <<>> \/ error = <<Says("error", m)>>
    BY SaysFacts
  <2>3. es = Beginning(m, text[m], error)
    OBVIOUS
  <2> HIDE DEF es, error
  <2>4. /\ es \in Seq(Events)
        /\ \A e \in Elements(es) : e.id = m /\ e.ev \in {"start", "delta", "error"}
        /\ Births(es, m) = 1
    BY <2>2, <2>3, <1>3, BeginningFacts
  <2>5. ASSUME NEW n \in Messages, n # m PROVE Pieces(es, n) = 0 /\ Births(es, n) = 0
    <3>1. \A name : Says(name, n) \notin Elements(es)
      BY <2>4, <2>5 DEF Says
    <3>2. /\ Elements(es) \cap {Says("delta", n)} = {}
          /\ Elements(es) \cap {Says("start", n), Says("message", n)} = {}
      BY <3>1
    <3> QED BY <3>2, <2>4, CountOfNone DEF Pieces, Births
  <2>6. \A e \in Elements(es) : Fresh(e)
    <3>1. m \notin Filed
      BY <1>1 DEF Filed
    <3> QED BY <2>4, <3>1, <1>3 DEF Fresh
  <2>7. ASSUME NEW n \in Messages
        PROVE  /\ n \in Allotted /\ HomeOf[n] \in socket.rooms => Pieces(es, n) + text[n] = text'[n]
               /\ Births(es, n) = IF HomeOf[n] \in socket.rooms /\ ~Started(n) /\ Started(n)'
                                  THEN 1 ELSE 0
               /\ ~(post[n] # "sent" /\ post'[n] = "sent")
    <3>1. CASE n = m
      BY <3>1, <2>4, <1>2, <1>3, <1>5, <1>6
    <3>2. CASE n # m
      BY <3>2, <2>5, <1>1, <1>2, <1>3, <1>4
    <3> QED BY <3>1, <3>2
  <2>8. Speaks(es)
    BY <2>1, <2>4, <2>6, <2>7 DEF Speaks
  <2> QED BY <2>8
<1>7. CASE ~(m \in Streams /\ HomeOf[m] \in socket.rooms)
  <2>1. wire' = wire
    BY <1>1, <1>7 DEF Send
  <2>2. ASSUME NEW n \in Messages, HomeOf[n] \in socket.rooms
        PROVE  (Started(n) <=> Started(n)') /\ (n \in Streams /\ post'[n] = "sent" => post[n] = "sent")
    <3>1. CASE n = m
      BY <3>1, <2>2, <1>2, <1>5, <1>7
    <3>2. CASE n # m
      BY <3>2, <1>2, <1>4
    <3> QED BY <3>1, <3>2
  <2> HIDE DEF es
  <2>3. Speaks(<<>>)
    BY <1>1, <2>1, <2>2, SilentSpeaks
  <2> QED BY <2>3
<1> QED BY <1>6, <1>7

(* A turn fails, or a Message is broadcast. *)
LEMMA LastSpeaks ==
  ASSUME PostsInv, WireInv, NEW m \in Messages, FailTurn(m) \/ Broadcast(m) PROVE \E es : Speaks(es)
<1>1. /\ UNCHANGED text /\ \A n \in Messages : text[n] \in Nat
      /\ \A n \in Messages : n # m => post'[n] = post[n]
  BY ChatAssumption DEF FailTurn, Broadcast, PostsInv
<1>2. \A n \in Messages : n # m => (Started(n) <=> Started(n)')
  BY <1>1 DEF Started, Allotted
<1>3. CASE FailTurn(m)
  <2>1. /\ stream[m] = "open" /\ m \in Streams /\ post[m] \in {"reserving", "reserved"}
        /\ post'[m] = IF post[m] = "reserved" THEN "spent" ELSE post[m]
        /\ wire' = IF post[m] = "reserved" /\ HomeOf[m] \in socket.rooms
                   THEN wire \o <<Says("error", m)>> ELSE wire
    <3>1. stream[m] = "open" /\ m \in Streams /\ post[m] \in {"reserving", "reserved"}
      BY <1>3 DEF FailTurn, PostsInv
    <3>2. post'[m] = IF post[m] = "reserved" THEN "spent" ELSE post[m]
      BY <1>3 DEF FailTurn, PostsInv
    <3>3. Event("error", m) = <<Says("error", m)>>
      BY SaysFacts
    <3>4. wire' = IF post[m] = "reserved" /\ HomeOf[m] \in socket.rooms
                  THEN wire \o <<Says("error", m)>> ELSE wire
      BY <1>3, <3>3 DEF FailTurn, Send
    <3> QED BY <3>1, <3>2, <3>4
  <2>2. (Started(m) <=> Started(m)') /\ post'[m] # "sent" /\ post[m] # "sent"
    BY <2>1 DEF Started, Allotted
  <2>3. CASE post[m] = "reserved" /\ HomeOf[m] \in socket.rooms
    <3> DEFINE es == <<Says("error", m)>>
    <3>0. wire' = wire \o es
      BY <2>1, <2>3
    <3>1. /\ es \in Seq(Events) /\ Elements(es) = {Says("error", m)}
          /\ \A n \in Messages : Pieces(es, n) = 0 /\ Births(es, n) = 0
      BY OneSaid
    <3> HIDE DEF es
    <3>2. \A e \in Elements(es) : Fresh(e)
      BY <3>1 DEF Fresh, Says
    <3>3. Speaks(es)
      BY <1>1, <1>2, <2>2, <3>0, <3>1, <3>2 DEF Speaks
    <3> QED BY <3>3
  <2>4. CASE ~(post[m] = "reserved" /\ HomeOf[m] \in socket.rooms)
    <3>1. wire' = wire
      BY <2>1, <2>4
    <3>2. \A n \in Messages :
            (Started(n) <=> Started(n)') /\ (n \in Streams /\ post'[n] = "sent" => post[n] = "sent")
      BY <1>1, <1>2, <2>2
    <3>3. Speaks(<<>>)
      BY <1>1, <3>1, <3>2, SilentSpeaks
    <3> QED BY <3>3
  <2> QED BY <2>3, <2>4
<1>4. CASE Broadcast(m)
  <2> DEFINE name == IF m \in Streams THEN "end" ELSE "message"
  <2>1. /\ post[m] = "written" /\ post'[m] = "sent"
        /\ wire' = IF HomeOf[m] \in socket.rooms THEN wire \o <<Says(name, m)>> ELSE wire
    BY <1>4, SaysFacts DEF Broadcast, PostsInv, Send
  <2>2. /\ m \in Streams => Started(m) /\ Started(m)'
        /\ m \notin Streams => ~Started(m) /\ Started(m)'
    BY <2>1 DEF Started, Allotted
  <2>3. CASE HomeOf[m] \in socket.rooms
    <3> DEFINE es == <<Says(name, m)>>
    <3>1. name \in {"end", "message"} /\ (name = "end" <=> m \in Streams)
      OBVIOUS
    <3>0. wire' = wire \o es
      BY <2>1, <2>3
    <3> HIDE DEF name
    <3>2. /\ es \in Seq(Events) /\ Elements(es) = {Says(name, m)}
          /\ \A n \in Messages : /\ Pieces(es, n) = 0
                                 /\ Births(es, n) = IF n = m /\ name = "message" THEN 1 ELSE 0
      BY <3>1, OneSaid
    <3> HIDE DEF es
    <3>3. \A e \in Elements(es) : Fresh(e)
      BY <3>1, <3>2 DEF Fresh, Says
    <3>4. ASSUME NEW n \in Messages
          PROVE  /\ Births(es, n) = IF HomeOf[n] \in socket.rooms /\ ~Started(n) /\ Started(n)'
                                    THEN 1 ELSE 0
                 /\ n \in Streams /\ post[n] # "sent" /\ post'[n] = "sent"
                      => Says("end", n) \in Elements(es)
      <4>1. CASE n = m
        BY <4>1, <2>2, <2>3, <3>1, <3>2
      <4>2. CASE n # m
        BY <4>2, <1>1, <1>2, <3>2
      <4> QED BY <4>1, <4>2
    <3>5. Speaks(es)
      BY <1>1, <3>0, <3>2, <3>3, <3>4 DEF Speaks
    <3> QED BY <3>5
  <2>4. CASE HomeOf[m] \notin socket.rooms
    <3>1. wire' = wire
      BY <2>1, <2>4
    <3>2. ASSUME NEW n \in Messages, HomeOf[n] \in socket.rooms
          PROVE  /\ Started(n) <=> Started(n)'
                 /\ n \in Streams /\ post'[n] = "sent" => post[n] = "sent"
      BY <3>2, <1>1, <1>2, <2>4
    <3>3. Speaks(<<>>)
      BY <1>1, <3>1, <3>2, SilentSpeaks
    <3> QED BY <3>3
  <2> QED BY <2>3, <2>4
<1> QED BY <1>3, <1>4

(* Every step of the server speaks so. *)
LEMMA ServerSpeaks ==
  ASSUME PostsInv, SocketInv, WireInv, ServerStep PROVE \E es : Speaks(es)
<1>1. ASSUME NEW m \in Messages, PostMessage(m) \/ StartTurn(m) \/ EndTurn(m) \/ Write(m)
      PROVE  Speaks(<<>>)
  <2>1. UNCHANGED <<wire, text>> /\ \A n \in Messages : n # m => post'[n] = post[n]
    BY <1>1 DEF PostMessage, StartTurn, EndTurn, Write, PostsInv
  <2>2. \/ post'[m] = post[m]
        \/ post[m] = "none" /\ post'[m] = "reserving"
        \/ post[m] = "reserved" /\ post'[m] = "written"
    BY <1>1 DEF PostMessage, StartTurn, EndTurn, Write, PostsInv
  <2>3. \A n \in Messages :
          (Started(n) <=> Started(n)') /\ (n \in Streams /\ post'[n] = "sent" => post[n] = "sent")
    BY <2>1, <2>2 DEF Started, Allotted
  <2> QED BY <2>1, <2>3, SilentSpeaks
<1>2. CASE JoinSession \/ JoinRooms \/ (\E c \in ChatRooms : ReadLog(c) \/ Subscribe(c))
  <2>1. UNCHANGED <<wire, text, post>>
    BY <1>2 DEF JoinSession, JoinRooms, ReadLog, Subscribe, serverVars
  <2>2. \A n \in Messages : (Started(n) <=> Started(n)')
    BY <2>1 DEF Started, Allotted
  <2>3. Speaks(<<>>)
    BY <2>1, <2>2, SilentSpeaks
  <2> QED BY <2>3
<1>3. ASSUME NEW e \in Events, wire' = Append(wire, e), UNCHANGED <<post, text>>, Fresh(e),
             e.ev \notin {"start", "delta", "error", "end", "message"}
      PROVE  \E es : Speaks(es)
  <2> DEFINE es == <<e>>
  <2>1. es \in Seq(Events) /\ Elements(es) = {e}
    BY OneEvent
  <2>2. wire' = wire \o es
    BY <1>3, AppendIsConcat DEF WireInv
  <2> HIDE DEF es
  <2>3. Speaks(es)
    BY <1>3, <2>1, <2>2, OtherSpeaks
  <2> QED BY <2>3
<1>4. ASSUME NEW c \in ChatRooms, Spawn(c) PROVE \E es : Speaks(es)
  <2> DEFINE e == [ev |-> "spawned", room |-> c]
  <2>1. /\ UNCHANGED <<post, text>> /\ c \notin Exists
        /\ (wire' = wire \/ wire' = Append(wire, e))
    BY <1>4 DEF Spawn, Exists
  <2>2. e \in Events /\ e.ev = "spawned" /\ e.room = c
    BY DEF Events
  <2> HIDE DEF e
  <2>3. Fresh(e)
    BY <2>1, <2>2 DEF Fresh
  <2>4. CASE wire' = wire
    <3>1. \A n \in Messages : (Started(n) <=> Started(n)')
      BY <2>1 DEF Started, Allotted
    <3>2. Speaks(<<>>)
      BY <2>1, <2>4, <3>1, SilentSpeaks
    <3> QED BY <3>2
  <2>5. CASE wire' = Append(wire, e)
    BY <2>1, <2>2, <2>3, <2>5, <1>3
  <2> QED BY <2>1, <2>4, <2>5
<1>5. CASE SendReplay
  <2>1. PICK a \in asked : /\ a.read /\ asked' = asked \ {a}
                           /\ wire' = Append(wire, [ev |-> "replay", room |-> a.room, ids |-> a.ids])
    BY <1>5 DEF SendReplay
  <2> DEFINE e == [ev |-> "replay", room |-> a.room, ids |-> a.ids]
  <2>2. a.room \in ChatRooms /\ a.ids \in SUBSET Messages
    BY <2>1 DEF SocketInv
  <2>3. UNCHANGED <<post, text>>
    BY <1>5 DEF SendReplay, serverVars
  <2>4. e \in Events /\ e.ev = "replay" /\ e.ids = a.ids /\ wire' = Append(wire, e)
    BY <2>1, <2>2 DEF Events
  <2> HIDE DEF e
  <2>5. Fresh(e)
    BY <2>1, <2>4 DEF Fresh
  <2> QED BY <2>3, <2>4, <2>5, <1>3
<1>6. CASE SendHistory
  <2>1. PICK h \in Events, r \in Events :
          /\ h = [ev |-> "history", ids |-> socket.read] /\ r = [ev |-> "roster", rooms |-> Exists]
    <3>1. socket.read \in SUBSET Messages /\ Exists \in SUBSET ChatRooms
      BY ChatAssumption DEF SocketInv, PostsInv, Exists
    <3> QED BY <3>1 DEF Events
  <2> DEFINE es == <<h, r>>
  <2>2. /\ wire' = wire \o es /\ UNCHANGED <<post, text>>
        /\ socket.join = "reading" /\ socket.unread = {}
    BY <1>6, <2>1 DEF SendHistory, serverVars
  <2>3. es \in Seq(Events) /\ Elements(es) = {h, r}
    <3>1. es \in Seq(Events) /\ DOMAIN es = {1, 2} /\ es[1] = h /\ es[2] = r
      OBVIOUS
    <3> QED BY <3>1 DEF Elements
  <2> HIDE DEF es
  <2>4. \A e \in Elements(es) :
          e.ev \notin {"start", "delta", "error", "end", "message"} /\ Fresh(e)
    BY <2>1, <2>2, <2>3 DEF Fresh
  <2>5. Speaks(es)
    BY <2>2, <2>3, <2>4, OtherSpeaks
  <2> QED BY <2>5
<1> QED BY <1>1, <1>2, <1>4, <1>5, <1>6, DeltaSpeaks, AllocatedSpeaks, LastSpeaks DEF ServerStep

-----------------------------------------------------------------------------
(* The chat: what a browser shows *)

\* One entry for a Message.
Alike(S) == \A e, f \in S : e.id = f.id => e = f

\* A Message of a Conversation, as far as the browser was told of it.
Entry(e, c) ==
  /\ e.id \in Allotted /\ HomeOf[e.id] = c
  /\ e.id \notin Streams => e.text = Whole
  /\ e.text = Whole => e.id \in Filed /\ Says("delta", e.id) \notin Elements(wire)
  /\ Says("start", e.id) \notin Elements(wire)
  /\ e.id \in browser.streaming => e.text = Whole \/ e.text + Pieces(wire, e.id) = text[e.id]

Reads(b, c) ==
  /\ b \in Seq(Shown) /\ Rising(b) /\ Alike(Elements(b))
  /\ \A e \in Elements(b) : Entry(e, c)

TranscriptInv ==
  /\ browser \in Browsers /\ browser.streaming \subseteq Streams \cap Allotted
  /\ \A m \in browser.streaming : HomeOf[m] \in socket.rooms
  /\ \A c \in ChatRooms : Reads(browser.buckets[c], c)

(* What holds of a bucket is known by its contents. *)
LEMMA ReadsAgain ==
  ASSUME NEW c, NEW d, browser'.buckets[c] = d, Reads(d, c)' PROVE Reads(browser.buckets[c], c)'
BY DEF Reads, Rising, Alike, Entry

(* What is told of Messages that have their seqs has seqs that differ. *)
LEMMA AllottedApart ==
  ASSUME PostsInv, NEW c, NEW S, Alike(S),
         \A e \in S : e.id \in Allotted /\ HomeOf[e.id] = c
  PROVE  Apart(S)
BY DEF Apart, Alike, PostsInv, Allotted

(* The Messages of a replay, as they are shown. *)
LEMMA WholesFacts ==
  ASSUME NEW I \in SUBSET Messages, IsFiniteSet(I), MaxDeltas \in Nat,
         NEW S, S = {[id |-> m, text |-> Whole] : m \in I}
  PROVE  /\ IsFiniteSet(S) /\ Alike(S) /\ S \subseteq Shown
         /\ \A e \in S : e.id \in I /\ e.text = Whole
<1>1. [m \in I |-> [id |-> m, text |-> Whole]] \in Surjection(I, S)
  BY DEF Surjection
<1>2. IsFiniteSet(S)
  BY <1>1, FS_Surjection
<1>3. Whole \in 0 .. Whole
  BY DEF Whole
<1>4. Alike(S) /\ S \subseteq Shown
  BY <1>3 DEF Alike, Shown
<1> QED BY <1>2, <1>4

(* The elements of a sequence are finitely many. *)
LEMMA ElementsFinite ==
  ASSUME NEW T, NEW s \in Seq(T) PROVE IsFiniteSet(Elements(s))
<1>1. s \in Surjection(1 .. Len(s), Elements(s))
  BY DEF Surjection, Elements
<1>2. IsFiniteSet(1 .. Len(s))
  BY FS_Interval
<1> QED BY <1>1, <1>2, FS_Surjection

(* What the server does to the Messages that have their seqs. *)
LEMMA ServerMoves ==
  ASSUME PostsInv, SocketInv, ServerStep
  PROVE  /\ browser' = browser /\ socket.rooms \subseteq socket'.rooms
         /\ \A n \in Allotted : seqOf'[n] = seqOf[n]
         /\ [ChatNext]_chatVars
<1>1. ASSUME NEW m \in Messages, Allocated(m)
      PROVE  \A n \in Allotted : seqOf'[n] = seqOf[n]
  <2>1. m \notin Allotted
    BY <1>1 DEF Allocated, Allotted
  <2>2. \A n \in Messages : n # m => seqOf'[n] = seqOf[n]
    BY <1>1 DEF Allocated, PostsInv
  <2> QED BY <2>1, <2>2 DEF Allotted
<1>2. \A n \in Allotted : seqOf'[n] = seqOf[n]
  BY <1>1 DEF ServerStep, PostMessage, StartTurn, Delta, EndTurn, FailTurn, Write, Broadcast,
          Spawn, ReadLog, Subscribe, JoinSession, JoinRooms, SendHistory, SendReplay, serverVars
<1>3. browser' = browser
  BY DEF ServerStep, PostMessage, StartTurn, Delta, EndTurn, FailTurn, Write, Broadcast,
         Allocated, Spawn, ReadLog, Subscribe, JoinSession, JoinRooms, SendHistory, SendReplay
<1>4. socket'.rooms \in {socket.rooms, Exists}
  BY DEF ServerStep, PostMessage, StartTurn, Delta, EndTurn, FailTurn, Write, Broadcast,
         Allocated, Spawn, ReadLog, Subscribe, JoinSession, JoinRooms, SendHistory, SendReplay,
         SocketInv
<1>5. [ChatNext]_chatVars
  BY DEF ServerStep, ChatNext
<1> QED BY <1>2, <1>3, <1>4, <1>5 DEF SocketInv

(* The server leaves what is shown, and says what belongs to it. *)
LEMMA ServerKeepsTranscript ==
  ASSUME PostsInv, SocketInv, WireInv, TranscriptInv, ServerStep PROVE TranscriptInv'
<1>1. /\ browser' = browser /\ socket.rooms \subseteq socket'.rooms
      /\ \A n \in Allotted : seqOf'[n] = seqOf[n]
      /\ Allotted \subseteq Allotted' /\ Filed \subseteq Filed'
  BY ServerMoves, PostsGrow
<1>2. PICK es : Speaks(es)
  BY ServerSpeaks
<1>3. wire \in Seq(Events) /\ es \in Seq(Events) /\ wire' = wire \o es
  BY <1>2 DEF WireInv, Speaks
<1>4. Elements(wire') = Elements(wire) \cup Elements(es)
  BY <1>3, ElementsOfConcat
<1>5. \A S : Count(wire', S) = Count(wire, S) + Count(es, S)
  BY <1>3, CountOfConcat
<1>6. \A S : Count(wire, S) \in Nat /\ Count(es, S) \in Nat
  BY <1>3, CountIs
<1>7. ASSUME NEW c \in ChatRooms, NEW e \in Elements(browser.buckets[c]), Entry(e, c)
      PROVE  Entry(e, c)'
  <2>1. e \in Shown /\ e.id \in Messages /\ (e.text # Whole => e.text \in Nat)
    <3>1. browser.buckets[c] \in Seq(Shown) /\ Whole \in Nat
      BY ChatAssumption DEF TranscriptInv, Browsers, Whole
    <3>2. e \in Shown
      BY <3>1 DEF Elements
    <3> QED BY <3>1, <3>2 DEF Shown
  <2>2. Says("start", e.id) \notin Elements(wire')
    BY <1>2, <1>4, <1>7 DEF Speaks, Fresh, Says, Entry
  <2>3. e.text = Whole => e.id \in Filed' /\ Says("delta", e.id) \notin Elements(wire')
    BY <1>1, <1>2, <1>4, <1>7 DEF Speaks, Fresh, Says, Entry
  <2>4. ASSUME e.id \in browser'.streaming, e.text # Whole
        PROVE  e.text + Pieces(wire', e.id) = text'[e.id]
    <3>1. /\ e.id \in Allotted /\ HomeOf[e.id] \in socket.rooms
          /\ e.text + Pieces(wire, e.id) = text[e.id]
      BY <2>4, <1>1, <1>7 DEF Entry, TranscriptInv
    <3>2. Pieces(es, e.id) + text[e.id] = text'[e.id]
      BY <1>2, <2>1, <3>1 DEF Speaks
    <3>3. /\ Pieces(wire', e.id) = Pieces(wire, e.id) + Pieces(es, e.id)
          /\ Pieces(wire, e.id) \in Nat /\ Pieces(es, e.id) \in Nat
      BY <1>5, <1>6 DEF Pieces
    <3> QED BY <2>1, <2>4, <3>1, <3>2, <3>3
  <2> QED BY <1>1, <1>7, <2>2, <2>3, <2>4 DEF Entry
<1>8. ASSUME NEW c \in ChatRooms PROVE Reads(browser.buckets[c], c)'
  <2> DEFINE b == browser.buckets[c]
  <2>1. b \in Seq(Shown) /\ Rising(b) /\ Alike(Elements(b)) /\ \A e \in Elements(b) : Entry(e, c)
    BY DEF TranscriptInv, Reads
  <2>2. PICK d : d = b
    OBVIOUS
  <2>3. Rising(d)'
    <3>1. \A i \in DOMAIN d : d[i].id \in Allotted
      BY <2>1, <2>2 DEF Elements, Entry
    <3> QED BY <1>1, <2>1, <2>2, <3>1 DEF Rising
  <2>4. \A e \in Elements(d) : Entry(e, c)'
    BY <1>7, <2>1, <2>2
  <2>5. Reads(d, c)'
    BY <2>1, <2>2, <2>3, <2>4 DEF Reads
  <2> QED BY <1>1, <2>2, <2>5, ReadsAgain
<1> QED BY <1>1, <1>8 DEF TranscriptInv

(* The next event is handled: what is left of the wire. *)
LEMMA HandleFacts ==
  ASSUME WireInv, Handle, NEW h, h = Head(wire)
  PROVE  /\ h \in Events /\ Told(h) /\ browser' = Handled(h)
         /\ UNCHANGED <<serverVars, socket, connects>>
         /\ Allotted' = Allotted /\ Filed' = Filed /\ Exists' = Exists
         /\ Elements(wire) = {h} \cup Elements(wire')
         /\ \A e \in Elements(wire') : Before(h, e)
         /\ \A m : Pieces(wire', m) \in Nat /\ Births(wire', m) \in Nat
         /\ \A m : Pieces(wire, m) = IF h = Says("delta", m) THEN Pieces(wire', m) + 1
                                     ELSE Pieces(wire', m)
         /\ \A m : Births(wire, m) = IF h = Says("start", m) \/ h = Says("message", m)
                                     THEN Births(wire', m) + 1 ELSE Births(wire', m)
<1>1. /\ wire # <<>> /\ wire' = Tail(wire) /\ browser' = Handled(h)
      /\ UNCHANGED <<serverVars, socket, connects>>
  BY DEF Handle
<1>2. wire \in Seq(Events) /\ InTurn(wire)
  BY DEF WireInv
<1> DEFINE t == Tail(wire)
<1>3. /\ h \in Events /\ h \in Elements(wire) /\ Elements(wire) = {h} \cup Elements(t)
      /\ \A S : /\ Count(t, S) \in Nat
                /\ Count(wire, S) = IF h \in S THEN Count(t, S) + 1 ELSE Count(t, S)
  BY <1>1, <1>2, HeadAndTail
<1>4. \A e \in Elements(t) : Before(h, e)
  BY <1>1, <1>2, InTurnTail
<1>5. Told(h)
  BY <1>3 DEF WireInv
<1>6. Allotted' = Allotted /\ Filed' = Filed /\ Exists' = Exists
  BY <1>1 DEF serverVars, Allotted, Filed, Exists
<1>7. wire' = t
  BY <1>1
<1> HIDE DEF t
<1>8. ASSUME NEW m
      PROVE  /\ Pieces(t, m) \in Nat /\ Births(t, m) \in Nat
             /\ Pieces(wire, m) = IF h = Says("delta", m) THEN Pieces(t, m) + 1 ELSE Pieces(t, m)
             /\ Births(wire, m) = IF h = Says("start", m) \/ h = Says("message", m)
                                  THEN Births(t, m) + 1 ELSE Births(t, m)
  <2>1. h \in {Says("delta", m)} <=> h = Says("delta", m)
    OBVIOUS
  <2>2. h \in {Says("start", m), Says("message", m)}
          <=> (h = Says("start", m) \/ h = Says("message", m))
    OBVIOUS
  <2> QED BY <1>3, <2>1, <2>2 DEF Pieces, Births
<1> QED BY <1>1, <1>3, <1>4, <1>5, <1>6, <1>7, <1>8 DEF Pieces, Births

(* An entry that is left as it is. *)
LEMMA EntryStays ==
  ASSUME WireInv, Handle, NEW h, h = Head(wire), NEW c, NEW e \in Shown, Entry(e, c),
         e.id \in browser'.streaming => e.id \in browser.streaming /\ h # Says("delta", e.id)
  PROVE  Entry(e, c)'
<1>1. /\ Allotted' = Allotted /\ Filed' = Filed /\ text' = text
      /\ Elements(wire') \subseteq Elements(wire)
      /\ h # Says("delta", e.id) => Pieces(wire', e.id) = Pieces(wire, e.id)
  <2>1. UNCHANGED serverVars
    BY HandleFacts
  <2>2. /\ Allotted' = Allotted /\ Filed' = Filed /\ Elements(wire) = {h} \cup Elements(wire')
    BY HandleFacts
  <2>3. h # Says("delta", e.id) => Pieces(wire', e.id) = Pieces(wire, e.id)
    BY HandleFacts
  <2> QED BY <2>1, <2>2, <2>3 DEF serverVars
<1> QED BY <1>1 DEF Entry

(* An entry of what is shown whole. *)
LEMMA EntryTold ==
  ASSUME WireInv, Handle, NEW h, h = Head(wire), NEW m \in Wholes(h),
         NEW e, e = [id |-> m, text |-> Whole]
  PROVE  Entry(e, HomeOf[m])'
<1>1. /\ h \in Events /\ Told(h) /\ Allotted' = Allotted /\ Filed' = Filed
      /\ \A x \in Elements(wire') : Before(h, x)
  BY HandleFacts
<1>2. m \in Filed /\ m \in Allotted
  BY <1>1, ToldOfFiled DEF Filed, Allotted
<1>3. m \in About(h)
  BY DEF About, Wholes
<1>4. Says("start", m) \notin Elements(wire') /\ Says("delta", m) \notin Elements(wire')
  BY <1>1, <1>3 DEF Before, Says
<1> QED BY <1>1, <1>2, <1>4 DEF Entry

(* A bucket in which one more is put. *)
LEMMA InsertedReads ==
  ASSUME PostsInv, seqOf' = seqOf, NEW c, NEW b, Reads(b, c), NEW x \in Shown,
         Entry(x, c)', \A e \in Elements(b) : Entry(e, c)' /\ (e.id = x.id => e = x),
         NEW d, d = Inserted(b, x)
  PROVE  Reads(d, c)'
<1>1. /\ d \in Seq(Shown) /\ Elements(d) = Elements(b) \cup {x} /\ Rising(d)
  BY InsertedFacts DEF Reads, PostsInv
<1>2. Alike(Elements(d))
  BY <1>1 DEF Alike, Reads
<1>3. Rising(d)'
  BY <1>1 DEF Rising
<1> QED BY <1>1, <1>2, <1>3 DEF Reads

(* A bucket in which one is edited. *)
LEMMA EditedReads ==
  ASSUME PostsInv, seqOf' = seqOf, NEW c, NEW b, Reads(b, c), NEW m, NEW whole \in BOOLEAN,
         ~whole => \A e \in Elements(b) : e.id = m => e.text < Whole,
         \A e \in Elements(b) : e.id # m => Entry(e, c)',
         \A e \in Elements(b) : e.id = m =>
           Entry([id |-> m, text |-> IF whole THEN Whole ELSE e.text + 1], c)',
         NEW d, d = Edited(b, m, whole)
  PROVE  Reads(d, c)'
<1>1. /\ b \in Seq(Shown) /\ Rising(b) /\ Alike(Elements(b))
  BY DEF Reads
<1>2. /\ d \in Seq(Shown) /\ DOMAIN d = DOMAIN b
      /\ \A i \in DOMAIN b :
           /\ d[i].id = b[i].id
           /\ d[i] = IF b[i].id # m THEN b[i]
                     ELSE [id |-> m, text |-> IF whole THEN Whole ELSE b[i].text + 1]
  BY <1>1, ChatAssumption, EditedFacts
<1>3. Rising(d)'
  BY <1>1, <1>2 DEF Rising
<1>4. Alike(Elements(d))
  BY <1>1, <1>2 DEF Alike, Elements
<1>5. \A e \in Elements(d) : Entry(e, c)'
  BY <1>2 DEF Elements
<1> QED BY <1>2, <1>3, <1>4, <1>5 DEF Reads

(* A bucket that is sorted anew. *)
LEMMA SortedReads ==
  ASSUME PostsInv, seqOf' = seqOf, Allotted' = Allotted, NEW c, NEW S, S \subseteq Shown,
         IsFiniteSet(S), Alike(S), \A e \in S : Entry(e, c)', NEW d, d = InOrder(S)
  PROVE  Reads(d, c)' /\ Elements(d) = S /\ Distinct(d)
<1>1. \A e \in S : e.id \in Allotted /\ HomeOf[e.id] = c
  BY DEF Entry
<1>2. Apart(S)
  BY <1>1, AllottedApart
<1>3. d \in Seq(S) /\ Elements(d) = S /\ Distinct(d) /\ Rising(d)
  BY <1>2, InOrderFacts
<1>4. d \in Seq(Shown)
  BY <1>3
<1>5. Rising(d)'
  BY <1>3 DEF Rising
<1> QED BY <1>3, <1>4, <1>5 DEF Reads

(* What a bucket that reads well has in it. *)
LEMMA ReadsEntries ==
  ASSUME NEW b, NEW c, Reads(b, c), NEW e \in Elements(b)
  PROVE  e \in Shown /\ Entry(e, c) /\ e.id \in Messages
<1>1. b \in Seq(Shown) /\ Entry(e, c)
  BY DEF Reads
<1>2. e \in Shown
  BY <1>1 DEF Elements
<1> QED BY <1>1, <1>2 DEF Shown

(* Of all buckets one is changed. *)
LEMMA OneBucket ==
  ASSUME TranscriptInv, WireInv, Handle, NEW h, h = Head(wire), NEW k \in ChatRooms, NEW d,
         browser'.buckets = [browser.buckets EXCEPT ![k] = d], Reads(d, k)',
         \A m \in Messages : m \in browser'.streaming /\ HomeOf[m] # k =>
                               m \in browser.streaming /\ h # Says("delta", m)
  PROVE  /\ browser'.buckets \in [ChatRooms -> Seq(Shown)]
         /\ \A c \in ChatRooms : Reads(browser.buckets[c], c)'
<1>1. browser.buckets \in [ChatRooms -> Seq(Shown)]
  BY DEF TranscriptInv, Browsers
<1>2. d \in Seq(Shown)
  BY DEF Reads
<1>3. browser'.buckets \in [ChatRooms -> Seq(Shown)] /\ browser'.buckets[k] = d
      /\ \A c \in ChatRooms : c # k => browser'.buckets[c] = browser.buckets[c]
  BY <1>1, <1>2
<1>4. Reads(browser.buckets[k], k)'
  BY <1>3, ReadsAgain
<1>5. ASSUME NEW c \in ChatRooms, c # k PROVE Reads(browser.buckets[c], c)'
  <2>1. PICK b : b = browser.buckets[c]
    OBVIOUS
  <2>2. Reads(b, c)
    BY <2>1 DEF TranscriptInv
  <2>3. ASSUME NEW e \in Elements(b) PROVE Entry(e, c)'
    <3>1. e \in Shown /\ Entry(e, c) /\ e.id \in Messages
      BY <2>2, ReadsEntries
    <3>2. HomeOf[e.id] # k
      BY <1>5, <3>1 DEF Entry
    <3> QED BY <3>1, <3>2, EntryStays
  <2>4. seqOf' = seqOf
    BY HandleFacts DEF serverVars
  <2>5. Reads(b, c)'
    BY <2>2, <2>3, <2>4 DEF Reads, Rising
  <2> QED BY <1>3, <1>5, <2>1, <2>5, ReadsAgain
<1> QED BY <1>3, <1>4, <1>5

(* No bucket is changed. *)
LEMMA NoBucket ==
  ASSUME TranscriptInv, WireInv, Handle, NEW h, h = Head(wire),
         browser'.buckets = browser.buckets,
         \A m \in Messages : m \in browser'.streaming =>
                               m \in browser.streaming /\ h # Says("delta", m)
  PROVE  /\ browser'.buckets \in [ChatRooms -> Seq(Shown)]
         /\ \A c \in ChatRooms : Reads(browser.buckets[c], c)'
<1> SUFFICES ASSUME NEW c \in ChatRooms PROVE Reads(browser.buckets[c], c)'
  BY DEF TranscriptInv, Browsers
<1>1. PICK b : b = browser.buckets[c]
  OBVIOUS
<1>2. Reads(b, c)
  BY <1>1 DEF TranscriptInv
<1>3. ASSUME NEW e \in Elements(b) PROVE Entry(e, c)'
  <2>1. e \in Shown /\ Entry(e, c) /\ e.id \in Messages
    BY <1>2, ReadsEntries
  <2> QED BY <2>1, EntryStays
<1>4. seqOf' = seqOf
  BY HandleFacts DEF serverVars
<1>5. Reads(b, c)'
  BY <1>2, <1>3, <1>4 DEF Reads, Rising
<1> QED BY <1>1, <1>5, ReadsAgain

(* What the browser does with a Message it is told of: a start or a whole. *)
LEMMA PutKeepsTranscript ==
  ASSUME PostsInv, WireInv, TranscriptInv, Handle, NEW h, h = Head(wire),
         h.ev \in {"start", "message"}
  PROVE  /\ browser'.buckets \in [ChatRooms -> Seq(Shown)]
         /\ \A c \in ChatRooms : Reads(browser.buckets[c], c)'
<1>1. /\ h \in Events /\ Told(h) /\ browser' = Handled(h) /\ h \in Elements(wire)
      /\ \A e \in Elements(wire') : Before(h, e)
  BY HandleFacts
<1>2. UNCHANGED serverVars
  BY HandleFacts
<1> DEFINE m == h.id
           k == HomeOf[m]
           x == [id |-> m, text |-> IF h.ev = "start" THEN 0 ELSE Whole]
           b == browser.buckets[k]
           d == Inserted(b, x)
<1>3. /\ m \in Messages /\ k \in ChatRooms /\ x \in Shown /\ Whole \in Nat
      /\ x.id = m /\ x.text = (IF h.ev = "start" THEN 0 ELSE Whole) /\ Whole # 0
  BY <1>1, ChatAssumption DEF Events, Shown, Whole
<1>4. browser'.buckets = [browser.buckets EXCEPT ![k] = d]
      /\ browser'.streaming = IF h.ev = "start" THEN browser.streaming \cup {m} ELSE browser.streaming
  BY <1>1, HandledFields DEF Handled, HandledStart, Put, TranscriptInv, Browsers
<1>5. Reads(b, k)
  BY <1>3 DEF TranscriptInv
<1>6. m \in Allotted /\ (h.ev = "start" <=> m \in Streams) /\ (h.ev = "message" => m \in Filed)
  BY <1>1, <1>3 DEF Told, Filed, Allotted
<1>7. h = Says(h.ev, m)
  BY <1>1 DEF Events, Says
<1>8. Entry(x, k)'
  <2>1. CASE h.ev = "start"
    <3>1. Says("start", m) \notin Elements(wire')
      BY <1>1, <1>7, <2>1 DEF Before, About, Says
    <3>2. Pieces(wire', m) = text[m] /\ Pieces(wire', m) \in Nat
      <4>1. Says("start", m) \in Elements(wire) /\ h # Says("delta", m)
        BY <1>1, <1>7, <2>1 DEF Says
      <4>2. Pieces(wire, m) = text[m]
        BY <4>1, <1>3 DEF WireInv
      <4>3. Pieces(wire, m) = Pieces(wire', m) /\ Pieces(wire', m) \in Nat
        BY <4>1, HandleFacts
      <4> QED BY <4>2, <4>3
    <3>3. Allotted' = Allotted /\ text' = text
      BY <1>2 DEF serverVars, Allotted
    <3>4. x.id = m /\ x.text = 0 /\ x.text # Whole
      BY <1>3, <2>1
    <3> HIDE DEF x, m
    <3>5. HomeOf[m] = k
      OBVIOUS
    <3> HIDE DEF k
    <3> QED BY <1>6, <2>1, <3>1, <3>2, <3>3, <3>4, <3>5 DEF Entry
  <2>2. CASE h.ev = "message"
    <3>1. m \in Wholes(h) /\ x = [id |-> m, text |-> Whole]
      BY <2>2 DEF Wholes
    <3> HIDE DEF x
    <3> QED BY <3>1, EntryTold
  <2> QED BY <1>1, <2>1, <2>2
<1>9. ASSUME NEW e \in Elements(b) PROVE Entry(e, k)' /\ (e.id = m => e = x)
  <2>1. e \in Shown /\ Entry(e, k) /\ e.id \in Messages
    BY <1>5, ReadsEntries
  <2>2. h.ev = "start" => e.id # m
    BY <1>1, <1>7, <2>1 DEF Entry
  <2>3. h # Says("delta", e.id)
    BY DEF Says
  <2>4. e.id \in browser'.streaming => e.id \in browser.streaming
    BY <1>4, <2>2
  <2>5. h.ev = "message" /\ e.id = m => e = x
    <3>1. h.ev = "message" /\ e.id = m => e.text = Whole
      BY <1>6, <2>1 DEF Entry
    <3>2. e = [id |-> e.id, text |-> e.text]
      BY <2>1 DEF Shown
    <3> QED BY <3>1, <3>2
  <2>6. Entry(e, k)'
    BY <2>1, <2>3, <2>4, EntryStays
  <2> QED BY <2>2, <2>5, <2>6
<1>10. \A n \in Messages : n \in browser'.streaming /\ HomeOf[n] # k =>
                             n \in browser.streaming /\ h # Says("delta", n)
  BY <1>4 DEF Says
<1> HIDE DEF x
<1>11. seqOf' = seqOf
  BY <1>2 DEF serverVars
<1>12. PICK bb, dd : bb = b /\ dd = Inserted(bb, x)
  OBVIOUS
<1>13. Reads(bb, k) /\ \A e \in Elements(bb) : Entry(e, k)' /\ (e.id = x.id => e = x)
  BY <1>3, <1>5, <1>9, <1>12
<1>14. Reads(dd, k)'
  BY <1>3, <1>8, <1>11, <1>12, <1>13, InsertedReads
<1>15. browser'.buckets = [browser.buckets EXCEPT ![k] = dd]
  BY <1>4, <1>12
<1> QED BY <1>3, <1>10, <1>14, <1>15, OneBucket

(* What it does with a piece or an end. *)
LEMMA EditKeepsTranscript ==
  ASSUME PostsInv, WireInv, TranscriptInv, Handle, NEW h, h = Head(wire),
         h.ev = "end" \/ (h.ev = "delta" /\ h.id \in browser.streaming)
  PROVE  /\ browser'.buckets \in [ChatRooms -> Seq(Shown)]
         /\ \A c \in ChatRooms : Reads(browser.buckets[c], c)'
<1>1. /\ h \in Events /\ Told(h) /\ browser' = Handled(h) /\ h \in Elements(wire)
      /\ \A e \in Elements(wire') : Before(h, e)
  BY HandleFacts
<1>2. UNCHANGED serverVars
  BY HandleFacts
<1> DEFINE m == h.id
           k == HomeOf[m]
           whole == h.ev = "end"
<1>3. m \in Messages /\ k \in ChatRooms /\ Whole \in Nat /\ Whole = MaxDeltas + 1
  BY <1>1, ChatAssumption DEF Events, Whole
<1>4. /\ browser'.buckets = [browser.buckets EXCEPT ![k] = Edited(browser.buckets[k], m, whole)]
      /\ browser'.streaming = IF whole THEN browser.streaming \ {m} ELSE browser.streaming
  <2>1. CASE h.ev = "end"
    BY <2>1, <1>1 DEF Handled, HandledEnd, TranscriptInv, Browsers
  <2>2. CASE h.ev = "delta" /\ m \in browser.streaming
    BY <2>2, <1>1 DEF Handled, HandledDelta, TranscriptInv, Browsers
  <2> QED BY <2>1, <2>2
<1>5. PICK b, d : b = browser.buckets[k] /\ d = Edited(b, m, whole)
  OBVIOUS
<1>6. Reads(b, k)
  BY <1>3, <1>5 DEF TranscriptInv
<1>7. h = Says(h.ev, m)
  BY <1>1 DEF Events, Says
<1>8. ASSUME NEW e \in Elements(b), e.id # m PROVE Entry(e, k)'
  <2>1. e \in Shown /\ Entry(e, k)
    BY <1>6, ReadsEntries
  <2>2. h # Says("delta", e.id) /\ (e.id \in browser'.streaming => e.id \in browser.streaming)
    BY <1>4, <1>7, <1>8 DEF Says
  <2> QED BY <2>1, <2>2, EntryStays
<1>9. CASE whole
  <2>1. m \in Wholes(h)
    BY <1>9 DEF Wholes
  <2>2. \A x : x = [id |-> m, text |-> Whole] => Entry(x, k)'
    BY <2>1, EntryTold
  <2>3. \A e \in Elements(b) : e.id = m =>
          Entry([id |-> m, text |-> IF whole THEN Whole ELSE e.text + 1], k)'
    BY <2>2, <1>9
  <2>4. seqOf' = seqOf
    BY <1>2 DEF serverVars
  <2>5. Reads(d, k)'
    <3> HIDE DEF whole
    <3>1. whole \in BOOLEAN
      BY DEF whole
    <3> QED BY <1>5, <1>6, <1>8, <1>9, <2>3, <2>4, <3>1, EditedReads
  <2>6. browser'.buckets = [browser.buckets EXCEPT ![k] = d]
    BY <1>4, <1>5
  <2>7. \A n \in Messages : n \in browser'.streaming /\ HomeOf[n] # k =>
                              n \in browser.streaming /\ h # Says("delta", n)
    BY <1>4, <1>9 DEF Says
  <2> QED BY <1>3, <2>5, <2>6, <2>7, OneBucket
<1>10. CASE ~whole
  <2>1. h = Says("delta", m) /\ m \in browser.streaming
    BY <1>7, <1>10
  <2>2. ASSUME NEW e \in Elements(b), e.id = m
        PROVE  e.text < Whole /\ Entry([id |-> m, text |-> e.text + 1], k)'
    <3>1. e \in Shown /\ Entry(e, k)
      BY <1>6, ReadsEntries
    <3>2. Says("delta", m) \in Elements(wire)
      BY <1>1, <2>1
    <3>3. e.text # Whole /\ e.text + Pieces(wire, m) = text[m] /\ e.text \in Nat
      BY <1>3, <2>1, <2>2, <3>1, <3>2 DEF Entry, Shown
    <3>4. Pieces(wire', m) \in Nat /\ Pieces(wire, m) = Pieces(wire', m) + 1
      BY <2>1, HandleFacts
    <3>5. text[m] \in 0 .. MaxDeltas /\ text' = text /\ MaxDeltas \in Nat
      BY <1>2, <1>3, ChatAssumption DEF serverVars, PostsInv
    <3>6. e.text + 1 # Whole /\ e.text < Whole /\ (e.text + 1) + Pieces(wire', m) = text'[m]
      BY <1>3, <3>3, <3>4, <3>5
    <3>7. /\ Allotted' = Allotted /\ Elements(wire') \subseteq Elements(wire)
      BY HandleFacts
    <3>8. m \in Allotted /\ HomeOf[m] = k /\ m \in Streams
          /\ Says("start", m) \notin Elements(wire)
      BY <2>1, <2>2, <3>1 DEF Entry, TranscriptInv
    <3>9. \A x : x.id = m /\ x.text = e.text + 1 => Entry(x, k)'
      BY <3>6, <3>7, <3>8 DEF Entry
    <3> QED BY <3>6, <3>9
  <2>3. seqOf' = seqOf
    BY <1>2 DEF serverVars
  <2>4. Reads(d, k)'
    <3> HIDE DEF whole
    <3>1. whole = FALSE
      BY <1>10 DEF whole
    <3>2. d = Edited(b, m, FALSE)
      BY <1>5, <3>1
    <3>3. \A e \in Elements(b) : e.id = m =>
            Entry([id |-> m, text |-> IF FALSE THEN Whole ELSE e.text + 1], k)'
      BY <2>2
    <3> QED BY <1>6, <1>8, <2>2, <2>3, <3>2, <3>3, EditedReads
  <2>5. browser'.buckets = [browser.buckets EXCEPT ![k] = d]
    BY <1>4, <1>5
  <2>6. \A n \in Messages : n \in browser'.streaming /\ HomeOf[n] # k =>
                              n \in browser.streaming /\ h # Says("delta", n)
    BY <1>4, <1>10, <2>1 DEF Says
  <2> QED BY <1>3, <2>4, <2>5, <2>6, OneBucket
<1> QED BY <1>9, <1>10

(* What it does with a replay: the Messages of it win. *)
LEMMA ReplayKeepsTranscript ==
  ASSUME PostsInv, WireInv, TranscriptInv, Handle, NEW h, h = Head(wire), h.ev = "replay"
  PROVE  /\ browser'.buckets \in [ChatRooms -> Seq(Shown)]
         /\ \A c \in ChatRooms : Reads(browser.buckets[c], c)'
         /\ \A c \in ChatRooms : c # h.room => browser'.buckets[c] = browser.buckets[c]
         /\ Distinct(browser'.buckets[h.room])
         /\ Elements(browser'.buckets[h.room])
              = {s \in Elements(browser.buckets[h.room]) : s.id \notin h.ids}
                  \cup {[id |-> m, text |-> Whole] : m \in h.ids}
<1>1. h \in Events /\ Told(h) /\ browser' = Handled(h) /\ Allotted' = Allotted
  BY HandleFacts
<1>2. UNCHANGED serverVars
  BY HandleFacts
<1> DEFINE k == h.room
<1>3. k \in ChatRooms /\ h.ids \in SUBSET Messages /\ IsFiniteSet(h.ids) /\ h.ids \subseteq AtHome(k)
  BY <1>1 DEF Events, Told
<1>4. /\ browser'.buckets = [browser.buckets EXCEPT ![k] = Merged(browser.buckets[k], h.ids)]
      /\ browser'.streaming = browser.streaming
  BY <1>1 DEF Handled, TranscriptInv, Browsers
<1>5. PICK b, d : b = browser.buckets[k] /\ d = Merged(b, h.ids)
  OBVIOUS
<1>6. Reads(b, k)
  BY <1>3, <1>5 DEF TranscriptInv
<1>7. PICK kept, new : /\ kept = {s \in Elements(b) : s.id \notin h.ids}
                       /\ new = {[id |-> m, text |-> Whole] : m \in h.ids}
  OBVIOUS
<1>8. d = InOrder(kept \cup new)
  BY <1>5, <1>7 DEF Merged, ToSet, Elements
<1>9. IsFiniteSet(new) /\ Alike(new) /\ new \subseteq Shown /\ \A e \in new : e.id \in h.ids
  BY <1>3, <1>7, ChatAssumption, WholesFacts
<1>10. IsFiniteSet(kept)
  <2>1. IsFiniteSet(Elements(b))
    BY <1>6, ElementsFinite DEF Reads
  <2> QED BY <2>1, <1>7, FS_Subset
<1>11. IsFiniteSet(kept \cup new)
  BY <1>9, <1>10, FS_Union
<1>12. Alike(kept \cup new)
  BY <1>6, <1>7, <1>9 DEF Alike, Reads
<1>13. ASSUME NEW e \in new PROVE Entry(e, k)'
  <2>1. PICK m \in h.ids : e = [id |-> m, text |-> Whole]
    BY <1>7
  <2>2. HomeOf[m] = k /\ m \in Wholes(h)
    BY <1>3 DEF AtHome, Wholes
  <2>3. Entry(e, HomeOf[m])'
    BY <2>1, <2>2, EntryTold
  <2> QED BY <2>2, <2>3
<1>14. \A n : h # Says("delta", n)
  BY DEF Says
<1>15. ASSUME NEW e \in kept PROVE e \in Shown /\ Entry(e, k)'
  <2>1. e \in Shown /\ Entry(e, k)
    BY <1>6, <1>7, ReadsEntries
  <2> QED BY <2>1, <1>4, <1>14, EntryStays
<1>16. seqOf' = seqOf
  BY <1>2 DEF serverVars
<1>17. Reads(d, k)' /\ Distinct(d) /\ Elements(d) = kept \cup new
  <2>1. PICK S : S = kept \cup new
    OBVIOUS
  <2>2. S \subseteq Shown /\ IsFiniteSet(S) /\ Alike(S) /\ \A e \in S : Entry(e, k)'
    BY <2>1, <1>9, <1>11, <1>12, <1>13, <1>15
  <2> QED BY <2>1, <2>2, <1>1, <1>8, <1>16, SortedReads
<1>18. browser'.buckets = [browser.buckets EXCEPT ![k] = d]
  BY <1>4, <1>5
<1>19. /\ browser'.buckets \in [ChatRooms -> Seq(Shown)]
       /\ \A c \in ChatRooms : Reads(browser.buckets[c], c)'
  BY <1>3, <1>4, <1>14, <1>17, <1>18, OneBucket
<1>20. browser'.buckets[k] = d
       /\ \A c \in ChatRooms : c # k => browser'.buckets[c] = browser.buckets[c]
  BY <1>3, <1>18 DEF TranscriptInv, Browsers
<1> QED BY <1>5, <1>7, <1>17, <1>19, <1>20

(* What it does with the history: every bucket is made anew. *)
LEMMA HistoryKeepsTranscript ==
  ASSUME PostsInv, WireInv, TranscriptInv, Handle, NEW h, h = Head(wire), h.ev = "history"
  PROVE  /\ browser'.buckets \in [ChatRooms -> Seq(Shown)]
         /\ \A c \in ChatRooms :
              /\ Reads(browser.buckets[c], c)'
              /\ Distinct(browser'.buckets[c])
              /\ Elements(browser'.buckets[c])
                   = {[id |-> m, text |-> Whole] : m \in h.ids \cap AtHome(c)}
<1>1. h \in Events /\ Told(h) /\ browser' = Handled(h) /\ Allotted' = Allotted
  BY HandleFacts
<1>2. UNCHANGED serverVars
  BY HandleFacts
<1>3. h.ids \in SUBSET Messages /\ IsFiniteSet(h.ids)
  BY <1>1 DEF Events, Told
<1>4. browser'.buckets = [c \in ChatRooms |-> Sorted({m \in h.ids : HomeOf[m] = c})]
  BY <1>1 DEF Handled, HandledHistory, TranscriptInv, Browsers
<1>5. seqOf' = seqOf
  BY <1>2 DEF serverVars
<1>6. ASSUME NEW c \in ChatRooms
      PROVE  /\ Reads(browser.buckets[c], c)' /\ browser'.buckets[c] \in Seq(Shown)
             /\ Distinct(browser'.buckets[c])
             /\ Elements(browser'.buckets[c])
                  = {[id |-> m, text |-> Whole] : m \in h.ids \cap AtHome(c)}
  <2>1. PICK I, S : I = {m \in h.ids : HomeOf[m] = c} /\ S = {[id |-> m, text |-> Whole] : m \in I}
    OBVIOUS
  <2>2. I \in SUBSET Messages /\ IsFiniteSet(I) /\ I = h.ids \cap AtHome(c)
    BY <1>3, <2>1, FS_Subset DEF AtHome
  <2>3. IsFiniteSet(S) /\ Alike(S) /\ S \subseteq Shown
    BY <2>1, <2>2, ChatAssumption, WholesFacts
  <2>4. ASSUME NEW e \in S PROVE Entry(e, c)'
    <3>1. PICK m \in I : e = [id |-> m, text |-> Whole]
      BY <2>1
    <3>2. HomeOf[m] = c /\ m \in Wholes(h)
      BY <2>1 DEF Wholes
    <3>3. Entry(e, HomeOf[m])'
      BY <3>1, <3>2, EntryTold
    <3> QED BY <3>2, <3>3
  <2>5. PICK d : d = InOrder(S)
    OBVIOUS
  <2>6. browser'.buckets[c] = d
    BY <1>4, <2>1, <2>5 DEF Sorted
  <2>7. Reads(d, c)' /\ Elements(d) = S /\ Distinct(d)
    BY <1>1, <1>5, <2>3, <2>4, <2>5, SortedReads
  <2>8. d \in Seq(Shown)
    BY <2>7 DEF Reads
  <2> QED BY <2>1, <2>2, <2>6, <2>7, <2>8, ReadsAgain
<1> QED BY <1>4, <1>6

(* Whatever it handles, it shows as before. *)
LEMMA HandleKeepsTranscript ==
  ASSUME PostsInv, WireInv, TranscriptInv, Handle PROVE TranscriptInv'
<1>1. PICK h : h = Head(wire)
  OBVIOUS
<1>2. /\ h \in Events /\ Told(h) /\ browser' = Handled(h)
      /\ Allotted' = Allotted /\ UNCHANGED socket
  BY <1>1, HandleFacts
<1>3. browser \in Browsers
  BY DEF TranscriptInv
<1>4. /\ browser'.state = IF h.ev = "history" THEN "loaded" ELSE browser.state
      /\ browser'.streaming = IF h.ev = "start" THEN browser.streaming \cup {h.id}
                              ELSE IF h.ev \in {"end", "error"} THEN browser.streaming \ {h.id}
                              ELSE browser.streaming
      /\ browser'.subscribed = IF h.ev = "roster" THEN browser.subscribed \cup h.rooms
                               ELSE IF h.ev = "spawned" THEN browser.subscribed \cup {h.room}
                               ELSE browser.subscribed
      /\ browser' = [state |-> browser'.state, buckets |-> browser'.buckets,
                     streaming |-> browser'.streaming, subscribed |-> browser'.subscribed]
  BY <1>2, <1>3, HandledFields
<1>5. /\ h.ev \in {"start", "delta", "error", "end", "message", "history", "replay", "roster",
                   "spawned"}
      /\ h.ev \in {"start", "delta", "error", "end", "message"} => h.id \in Messages
      /\ h.ev = "roster" => h.rooms \subseteq ChatRooms
      /\ h.ev = "spawned" => h.room \in ChatRooms
  BY <1>2 DEF Events
<1>6. /\ browser'.buckets \in [ChatRooms -> Seq(Shown)]
      /\ \A c \in ChatRooms : Reads(browser.buckets[c], c)'
  <2>1. CASE h.ev \in {"start", "message"}
    BY <2>1, <1>1, PutKeepsTranscript
  <2>2. CASE h.ev = "end" \/ (h.ev = "delta" /\ h.id \in browser.streaming)
    BY <2>2, <1>1, EditKeepsTranscript
  <2>3. CASE h.ev = "replay"
    BY <2>3, <1>1, ReplayKeepsTranscript
  <2>4. CASE h.ev = "history"
    BY <2>4, <1>1, HistoryKeepsTranscript
  <2>5. CASE h.ev \in {"error", "roster", "spawned"} \/ (h.ev = "delta" /\ h.id \notin browser.streaming)
    <3>1. browser'.buckets = browser.buckets
      BY <2>5, <1>2 DEF Handled, HandledError, HandledDelta
    <3>2. \A m \in Messages : m \in browser'.streaming =>
                                m \in browser.streaming /\ h # Says("delta", m)
      BY <2>5, <1>4 DEF Says
    <3> QED BY <3>1, <3>2, <1>1, NoBucket
  <2> QED BY <1>5, <2>1, <2>2, <2>3, <2>4, <2>5
<1>7. browser' \in Browsers
  BY <1>3, <1>4, <1>5, <1>6 DEF Browsers
<1>8. /\ browser'.streaming \subseteq Streams \cap Allotted'
      /\ \A m \in browser'.streaming : HomeOf[m] \in socket'.rooms
  BY <1>2, <1>4 DEF Told, TranscriptInv
<1> QED BY <1>6, <1>7, <1>8 DEF TranscriptInv

\* All that is kept.
ChatInv == PostsInv /\ SocketInv /\ WireInv /\ TranscriptInv

(* An empty bucket. *)
LEMMA EmptyReads ==
  ASSUME NEW c, NEW b, b = <<>> PROVE Reads(b, c)
BY EmptySeq DEF Reads, Rising, Alike, Elements

(* Nothing is sent and nothing shown at first. *)
LEMMA ChatInvInitially == ChatInit => ChatInv
<1> SUFFICES ASSUME ChatInit PROVE ChatInv
  OBVIOUS
<1>1. /\ socket = NewSocket /\ wire = <<>> /\ asked = {} /\ browser = NewBrowser("offline")
  BY DEF ChatInit
<1>2. PostsInv
  BY PostsInvInitially
<1>3. browser \in Browsers /\ browser.streaming = {}
      /\ \A c \in ChatRooms : browser.buckets[c] = <<>>
  BY <1>1, EmptySeq DEF NewBrowser, Browsers
<1>4. TranscriptInv
  <2>1. \A c \in ChatRooms : Reads(browser.buckets[c], c)
    BY <1>3, EmptyReads
  <2> QED BY <1>3, <2>1 DEF TranscriptInv
<1>5. WireInv
  BY <1>1, EmptySeq DEF WireInv, InTurn, Elements
<1>6. SocketInv
  BY <1>1, <1>3, NewSocketFields DEF SocketInv
<1> QED BY <1>2, <1>4, <1>5, <1>6 DEF ChatInv

(* A connection that comes or goes leaves what is shown, or nothing. *)
LEMMA ConnectKeepsTranscript ==
  ASSUME TranscriptInv, WireInv, Connect \/ Disconnect PROVE TranscriptInv'
<1>1. UNCHANGED serverVars
  BY DEF Connect, Disconnect
<1>2. Allotted' = Allotted /\ Filed' = Filed
  BY <1>1 DEF serverVars, Allotted, Filed
<1>3. CASE Connect
  <2>1. browser' = NewBrowser("joining")
    BY <1>3 DEF Connect
  <2>2. browser' \in Browsers /\ browser'.streaming = {}
        /\ \A c \in ChatRooms : browser'.buckets[c] = <<>>
    BY <2>1, EmptySeq DEF NewBrowser, Browsers
  <2>3. ASSUME NEW c \in ChatRooms PROVE Reads(browser.buckets[c], c)'
    <3>1. PICK b : b = <<>>
      OBVIOUS
    <3>2. Reads(b, c)'
      BY <3>1, EmptySeq DEF Reads, Rising, Alike, Elements
    <3> QED BY <2>2, <3>1, <3>2, ReadsAgain
  <2> QED BY <2>2, <2>3 DEF TranscriptInv
<1>4. CASE Disconnect
  <2>1. wire' = <<>> /\ browser' = [browser EXCEPT !.state = "offline", !.streaming = {}, !.subscribed = {}]
    BY <1>4 DEF Disconnect
  <2>2. browser' \in Browsers /\ browser'.streaming = {} /\ browser'.buckets = browser.buckets
    BY <2>1 DEF TranscriptInv, Browsers
  <2>3. Elements(wire') = {}
    BY <2>1 DEF Elements
  <2>4. ASSUME NEW c \in ChatRooms PROVE Reads(browser.buckets[c], c)'
    <3>1. PICK b : b = browser.buckets[c]
      OBVIOUS
    <3>2. Reads(b, c)
      BY <3>1 DEF TranscriptInv
    <3>3. ASSUME NEW e \in Elements(b) PROVE Entry(e, c)'
      <4>1. Entry(e, c)
        BY <3>2 DEF Reads
      <4> QED BY <4>1, <1>2, <2>2, <2>3 DEF Entry
    <3>4. seqOf' = seqOf
      BY <1>1 DEF serverVars
    <3>5. Reads(b, c)'
      BY <3>2, <3>3, <3>4 DEF Reads, Rising
    <3> QED BY <2>2, <3>1, <3>5, ReadsAgain
  <2> QED BY <2>2, <2>4 DEF TranscriptInv
<1> QED BY <1>3, <1>4

(* Every step keeps all of it. *)
LEMMA ChatInvKept == ChatInv /\ [ChatNext]_chatVars => ChatInv'
<1> SUFFICES ASSUME ChatInv, [ChatNext]_chatVars PROVE ChatInv'
  OBVIOUS
<1>1. PostsInv /\ SocketInv /\ WireInv /\ TranscriptInv /\ browser \in Browsers
  BY DEF ChatInv, TranscriptInv
<1>2. PostsInv' /\ SocketInv' /\ WireInv'
  BY <1>1, PostsKept, SocketKept, WireKept
<1>3. TranscriptInv'
  <2>1. CASE UNCHANGED chatVars
    BY <1>1, <2>1 DEF TranscriptInv, Reads, Rising, Alike, Entry, Allotted, Filed, Pieces, Count,
                      chatVars
  <2>2. CASE ServerStep
    BY <1>1, <2>2, ServerKeepsTranscript
  <2>3. CASE Connect \/ Disconnect
    BY <1>1, <2>3, ConnectKeepsTranscript
  <2>4. CASE Handle
    BY <1>1, <2>4, HandleKeepsTranscript
  <2>5. UNCHANGED chatVars \/ ServerStep \/ Connect \/ Disconnect \/ Handle
    BY DEF ChatNext, ServerStep
  <2> QED BY <2>1, <2>2, <2>3, <2>4, <2>5
<1> QED BY <1>2, <1>3 DEF ChatInv

(* It holds always. *)
LEMMA ChatInvAlways == ChatSpec => []ChatInv
BY ChatInvInitially, ChatInvKept, PTL DEF ChatSpec

(* The chat's variables stay what they are: a room is of an agent there is, and what is  *)
(* shown is Messages.                                                                    *)
THEOREM ChatTypeCorrect == ChatSpec => []ChatTypeOK
<1>1. ChatInv => ChatTypeOK
  BY DEF ChatInv, PostsInv, SocketInv, TranscriptInv, Reads, ChatTypeOK
<1> QED BY <1>1, ChatInvAlways, PTL

(* A transcript reads in the order of its seqs (insertBySeq, mergeConversation).         *)
THEOREM AlwaysReadsInOrder == ChatSpec => []ReadsInOrder
<1>1. ChatInv => ReadsInOrder
  BY DEF ChatInv, TranscriptInv, Reads, Rising, ReadsInOrder
<1> QED BY <1>1, ChatInvAlways, PTL

(* A streaming bubble and the pieces still on the wire are the whole text (emitStart,    *)
(* emitDelta, editInConversation).                                                       *)
THEOREM BubbleIsAlwaysWhole == ChatSpec => []BubbleIsWhole
<1>1. ASSUME ChatInv PROVE BubbleIsWhole
  <2> SUFFICES ASSUME NEW m \in browser.streaming, NEW i \in EntriesOf(m),
                      browser.buckets[HomeOf[m]][i].text # Whole
               PROVE  browser.buckets[HomeOf[m]][i].text + Pieces(wire, m) = text[m]
    BY DEF BubbleIsWhole, Pieces, Count, Says
  <2>1. m \in Messages /\ HomeOf[m] \in ChatRooms
    BY <1>1, ChatAssumption DEF ChatInv, TranscriptInv, Allotted
  <2>2. PICK b, e : b = browser.buckets[HomeOf[m]] /\ e = b[i]
    OBVIOUS
  <2>3. e \in Elements(b) /\ e.id = m
    BY <2>2 DEF EntriesOf, Elements
  <2>4. Entry(e, HomeOf[m])
    BY <1>1, <2>1, <2>2, <2>3 DEF ChatInv, TranscriptInv, Reads
  <2> QED BY <2>2, <2>3, <2>4 DEF Entry
<1> QED BY <1>1, ChatInvAlways, PTL

-----------------------------------------------------------------------------
(* The chat: no room is missed *)

Spawned(c) == [ev |-> "spawned", room |-> c]

\* A browser will hear of a room before any roster tells it.
Announced(w, c) ==
  \E i \in DOMAIN w :
    /\ w[i] = Spawned(c)
    /\ \A j \in DOMAIN w : j <= i /\ w[j].ev = "roster" => c \notin w[j].rooms

Connected == browser.state # "offline"

\* The browser has asked for a room whose file is not read yet, or it will ask.
ToCome(c) ==
  \/ [room |-> c, read |-> FALSE] \in asked
  \/ c \notin browser.subscribed /\ Announced(wire, c)

\* A room that came up after the rooms were joined.
RoomsInv ==
  Connected =>
    /\ browser.subscribed \subseteq Exists
    /\ socket.join # "asked" => socket.inSession
    /\ socket.join \in {"none", "reading"} =>
         \A c \in Exists \ socket.rooms : ToCome(c)

(* What is sent behind it changes nothing. *)
LEMMA StillAnnounced ==
  ASSUME NEW w \in Seq(Events), NEW u \in Seq(Events), NEW c, Announced(w, c)
  PROVE  Announced(w \o u, c)
<1>1. /\ w \o u \in Seq(Events) /\ Len(w \o u) = Len(w) + Len(u)
      /\ \A i \in 1 .. Len(w) + Len(u) : (w \o u)[i] = IF i <= Len(w) THEN w[i] ELSE u[i - Len(w)]
  BY ConcatProperties
<1> DEFINE v == w \o u
<1>2. /\ Len(w) \in Nat /\ Len(u) \in Nat /\ DOMAIN w = 1 .. Len(w)
      /\ DOMAIN v = 1 .. Len(w) + Len(u)
      /\ \A i \in 1 .. Len(w) : v[i] = w[i]
  BY <1>1
<1> HIDE DEF v
<1>3. PICK i \in DOMAIN w :
        /\ w[i] = Spawned(c)
        /\ \A j \in DOMAIN w : j <= i /\ w[j].ev = "roster" => c \notin w[j].rooms
  BY DEF Announced
<1>4. i \in DOMAIN v /\ v[i] = Spawned(c)
  BY <1>2, <1>3
<1>5. ASSUME NEW j \in DOMAIN v, j <= i PROVE j \in DOMAIN w /\ v[j] = w[j]
  BY <1>2, <1>3, <1>5
<1>6. Announced(v, c)
  BY <1>3, <1>4, <1>5 DEF Announced
<1> QED BY <1>6 DEF v

(* It is announced behind rosters that do not tell it. *)
LEMMA AnnouncedNow ==
  ASSUME NEW w \in Seq(Events), NEW c \in ChatRooms,
         \A e \in Elements(w) : e.ev = "roster" => c \notin e.rooms
  PROVE  Announced(Append(w, Spawned(c)), c)
<1> DEFINE n == Len(w) + 1
           v == Append(w, Spawned(c))
<1>1. Spawned(c) \in Events /\ Spawned(c).ev = "spawned"
  BY DEF Spawned, Events
<1>2. /\ n \in Nat /\ DOMAIN v = 1 .. n /\ DOMAIN w = 1 .. n - 1 /\ n \in DOMAIN v
      /\ v[n] = Spawned(c) /\ \A i \in DOMAIN w : v[i] = w[i]
  BY <1>1
<1> HIDE DEF v, n
<1>3. \A j \in DOMAIN v : v[j].ev = "roster" => c \notin v[j].rooms
  <2> SUFFICES ASSUME NEW j \in DOMAIN v, v[j].ev = "roster" PROVE c \notin v[j].rooms
    OBVIOUS
  <2>1. j # n
    BY <1>1, <1>2
  <2>2. j \in DOMAIN w /\ v[j] = w[j]
    BY <1>2, <2>1
  <2> QED BY <2>2 DEF Elements
<1>4. Announced(v, c)
  BY <1>2, <1>3 DEF Announced
<1> QED BY <1>4 DEF v

(* The next event is the announcement, or comes before it. *)
LEMMA AnnouncedNext ==
  ASSUME NEW w \in Seq(Events), w # <<>>, NEW c, Announced(w, c)
  PROVE  \/ Head(w) = Spawned(c)
         \/ Announced(Tail(w), c) /\ (Head(w).ev = "roster" => c \notin Head(w).rooms)
<1> DEFINE t == Tail(w)
<1>1. /\ 1 \in DOMAIN w /\ Head(w) = w[1]
      /\ DOMAIN w = 1 .. Len(w) /\ Len(w) \in Nat /\ DOMAIN t = 1 .. Len(w) - 1
      /\ \A i \in DOMAIN t : t[i] = w[i + 1]
  OBVIOUS
<1> HIDE DEF t
<1>2. PICK i \in DOMAIN w :
        /\ w[i] = Spawned(c)
        /\ \A j \in DOMAIN w : j <= i /\ w[j].ev = "roster" => c \notin w[j].rooms
  BY DEF Announced
<1>3. CASE i = 1
  BY <1>1, <1>2, <1>3
<1>4. CASE i # 1
  <2>1. i - 1 \in DOMAIN t /\ t[i - 1] = Spawned(c)
    BY <1>1, <1>2, <1>4
  <2>2. ASSUME NEW j \in DOMAIN t, j <= i - 1, t[j].ev = "roster" PROVE c \notin t[j].rooms
    <3>1. j + 1 \in DOMAIN w /\ j + 1 <= i /\ t[j] = w[j + 1]
      BY <1>1, <1>2, <2>2
    <3> QED BY <3>1, <1>2, <2>2
  <2>3. Announced(t, c)
    BY <2>1, <2>2 DEF Announced
  <2>4. Head(w).ev = "roster" => c \notin Head(w).rooms
    <3>1. 1 <= i
      BY <1>1
    <3> QED BY <1>1, <1>2, <3>1
  <2> QED BY <2>3, <2>4 DEF t
<1> QED BY <1>3, <1>4

(* The server forgets no room it is asked for, or will be. *)
LEMMA ToComeStays ==
  ASSUME PostsInv, SocketInv, WireInv, ServerStep, NEW c \in ChatRooms, ToCome(c), ~Subscribe(c)
  PROVE  ToCome(c)'
<1>1. browser' = browser
  BY ServerMoves
<1>2. PICK es : Speaks(es)
  BY ServerSpeaks
<1>3. wire \in Seq(Events) /\ es \in Seq(Events) /\ wire' = wire \o es
  BY <1>2 DEF WireInv, Speaks
<1>4. Announced(wire, c) => Announced(wire, c)'
  <2>1. Announced(wire, c) => Announced(wire \o es, c)
    BY <1>3, StillAnnounced
  <2> QED BY <2>1, <1>3 DEF Announced
<1>5. [room |-> c, read |-> FALSE] \in asked => [room |-> c, read |-> FALSE] \in asked'
  <2>1. CASE \E d \in ChatRooms : Subscribe(d)
    <3>1. PICK d \in ChatRooms : Subscribe(d)
      BY <2>1
    <3>2. d # c /\ asked' = (asked \ {[room |-> d, read |-> FALSE]})
                             \cup {[room |-> d, read |-> TRUE, ids |-> log[d]]}
      BY <3>1 DEF Subscribe
    <3>3. [room |-> c, read |-> FALSE].room = c /\ [room |-> d, read |-> FALSE].room = d
      OBVIOUS
    <3> QED BY <3>2, <3>3
  <2>2. CASE SendReplay
    <3>1. \E a \in asked : a.read /\ asked' = asked \ {a}
      BY <2>2 DEF SendReplay
    <3>2. ~[room |-> c, read |-> FALSE].read
      OBVIOUS
    <3> QED BY <3>1, <3>2
  <2>3. CASE ~SendReplay /\ ~\E d \in ChatRooms : Subscribe(d)
    BY <2>3 DEF ServerStep, PostMessage, StartTurn, Delta, EndTurn, FailTurn, Write, Broadcast,
       Allocated, Spawn, ReadLog, JoinSession, JoinRooms, SendHistory
  <2> QED BY <2>1, <2>2, <2>3
<1> QED BY <1>1, <1>4, <1>5 DEF ToCome

(* Nor does the browser, until it has asked for it. *)
LEMMA ToComeNext ==
  ASSUME WireInv, browser \in Browsers, Handle, NEW c \in ChatRooms, ToCome(c)
  PROVE  ToCome(c)'
<1>1. PICK h : h = Head(wire)
  OBVIOUS
<1>2. h \in Events /\ browser' = Handled(h)
  BY <1>1, HandleFacts
<1>3. /\ wire \in Seq(Events) /\ wire # <<>> /\ wire' = Tail(wire)
      /\ asked' = IF h.ev = "spawned" /\ h.room \notin browser.subscribed
                  THEN asked \cup {[room |-> h.room, read |-> FALSE]} ELSE asked
  BY <1>1 DEF Handle, WireInv
<1>4. browser'.subscribed = IF h.ev = "roster" THEN browser.subscribed \cup h.rooms
                            ELSE IF h.ev = "spawned" THEN browser.subscribed \cup {h.room}
                            ELSE browser.subscribed
  BY <1>2, HandledFields
<1> SUFFICES ASSUME [room |-> c, read |-> FALSE] \notin asked'
             PROVE  c \notin browser'.subscribed /\ Announced(wire, c)'
  BY DEF ToCome
<1>5. c \notin browser.subscribed /\ Announced(wire, c)
  BY <1>3 DEF ToCome
<1>6. h # Spawned(c)
  BY <1>3, <1>5 DEF Spawned
<1>7. Announced(Tail(wire), c) /\ (h.ev = "roster" => c \notin h.rooms)
  BY <1>1, <1>3, <1>5, <1>6, AnnouncedNext
<1>8. h.ev = "spawned" => h.room # c
  <2>1. h.ev = "spawned" => h = Spawned(h.room)
    BY <1>2 DEF Events, Spawned
  <2> QED BY <2>1, <1>6
<1> QED BY <1>3, <1>4, <1>5, <1>7, <1>8 DEF Announced

(* Whatever the server does while the browser's rooms are joined. *)
LEMMA ServerKeepsRooms ==
  ASSUME PostsInv, SocketInv, WireInv, RoomsInv, ServerStep PROVE RoomsInv'
<1> SUFFICES ASSUME Connected' PROVE RoomsInv'
  BY DEF RoomsInv
<1>1. browser' = browser /\ Exists \subseteq Exists'
  BY ServerMoves, PostsGrow
<1>2. /\ Connected /\ browser.subscribed \subseteq Exists
      /\ socket.join # "asked" => socket.inSession
  BY <1>1 DEF RoomsInv, Connected
<1>3. browser'.subscribed \subseteq Exists' /\ Exists \subseteq ChatRooms
  BY <1>1, <1>2, ChatAssumption DEF Exists, PostsInv
<1>4. CASE JoinSession
  BY <1>3, <1>4 DEF JoinSession, RoomsInv, SocketInv
<1>5. CASE JoinRooms \/ \E c \in ChatRooms : Subscribe(c)
  <2>1. socket'.rooms = Exists /\ Exists' = Exists /\ socket'.inSession = socket.inSession
        /\ (socket'.join # "asked" => socket.join # "asked")
    BY <1>5 DEF JoinRooms, Subscribe, serverVars, Exists, SocketInv
  <2> QED BY <1>2, <1>3, <2>1 DEF RoomsInv
<1>6. CASE \E c \in ChatRooms : Spawn(c)
  <2>1. PICK c \in ChatRooms : Spawn(c)
    BY <1>6
  <2>2. /\ c \notin Exists /\ Exists' = Exists \cup {c} /\ UNCHANGED <<socket, asked>>
        /\ wire' = IF socket.inSession THEN Append(wire, Spawned(c)) ELSE wire
    BY <2>1, ChatAssumption DEF Spawn, Exists, Spawned
  <2>3. socket.inSession => Announced(wire, c)'
    <3>1. wire \in Seq(Events) /\ \A e \in Elements(wire) : e.ev = "roster" => c \notin e.rooms
      BY <2>2 DEF WireInv, Told
    <3>2. Announced(Append(wire, Spawned(c)), c)
      BY <3>1, AnnouncedNow
    <3> QED BY <2>2, <3>2 DEF Announced
  <2>4. socket.inSession => ToCome(c)'
    BY <1>1, <1>2, <2>2, <2>3 DEF ToCome
  <2>5. \A d \in ChatRooms : ~Subscribe(d)
    <3>1. spawned' # spawned
      BY <2>1 DEF Spawn
    <3> QED BY <3>1 DEF Subscribe, serverVars
  <2>6. \A d \in Exists : ToCome(d) => ToCome(d)'
    BY <1>3, <2>5, ToComeStays
  <2> QED BY <1>2, <1>3, <2>2, <2>4, <2>6 DEF RoomsInv
<1>7. CASE \/ \E m \in Messages : \/ PostMessage(m) \/ StartTurn(m) \/ Delta(m) \/ EndTurn(m)
                                  \/ FailTurn(m) \/ Allocated(m) \/ Write(m) \/ Broadcast(m)
           \/ \E c \in ChatRooms : ReadLog(c)
           \/ SendHistory \/ SendReplay
  <2>1. /\ UNCHANGED spawned /\ socket'.rooms = socket.rooms
        /\ socket'.inSession = socket.inSession
        /\ socket'.join # "asked" => socket.join # "asked"
        /\ socket'.join \in {"none", "reading"} => socket.join \in {"none", "reading"}
    <3>1. CASE \E m \in Messages : \/ PostMessage(m) \/ StartTurn(m) \/ Delta(m) \/ EndTurn(m)
                                   \/ FailTurn(m) \/ Allocated(m) \/ Write(m) \/ Broadcast(m)
      BY <3>1 DEF PostMessage, StartTurn, Delta, EndTurn, FailTurn, Allocated, Write, Broadcast
    <3>2. CASE (\E c \in ChatRooms : ReadLog(c)) \/ SendHistory \/ SendReplay
      BY <3>2 DEF ReadLog, SendHistory, SendReplay, serverVars, SocketInv
    <3> QED BY <1>7, <3>1, <3>2
  <2>2. Exists' = Exists
    BY <2>1 DEF Exists
  <2>3. CASE \E d \in ChatRooms : Subscribe(d)
    BY <2>3, <1>5
  <2>4. CASE \A d \in ChatRooms : ~Subscribe(d)
    <3>1. \A d \in Exists : ToCome(d) => ToCome(d)'
      BY <1>3, <2>4, ToComeStays
    <3> QED BY <1>2, <1>3, <2>1, <2>2, <3>1 DEF RoomsInv
  <2> QED BY <2>3, <2>4
<1> QED BY <1>4, <1>5, <1>6, <1>7 DEF ServerStep

(* Every step keeps them. *)
LEMMA RoomsKept ==
  ASSUME ChatInv, RoomsInv, [ChatNext]_chatVars PROVE RoomsInv'
<1>1. PostsInv /\ SocketInv /\ WireInv /\ TranscriptInv /\ browser \in Browsers
  BY DEF ChatInv, TranscriptInv
<1>2. CASE UNCHANGED chatVars
  BY <1>2 DEF RoomsInv, ToCome, Connected, Announced, Exists, chatVars
<1>3. CASE ServerStep
  BY <1>1, <1>3, ServerKeepsRooms
<1>4. CASE Connect
  BY <1>4 DEF Connect, NewBrowser, NewSocket, RoomsInv
<1>5. CASE Disconnect
  BY <1>1, <1>5 DEF Disconnect, RoomsInv, Connected, Browsers
<1>6. CASE Handle
  <2>1. PICK h : h = Head(wire)
    OBVIOUS
  <2>2. /\ h \in Events /\ Told(h) /\ browser' = Handled(h) /\ Exists' = Exists /\ UNCHANGED socket
    BY <1>1, <1>6, <2>1, HandleFacts
  <2>3. Connected
    BY <1>1, <1>6 DEF Handle, Connected, SocketInv
  <2>4. browser'.subscribed = IF h.ev = "roster" THEN browser.subscribed \cup h.rooms
                              ELSE IF h.ev = "spawned" THEN browser.subscribed \cup {h.room}
                              ELSE browser.subscribed
    BY <1>1, <2>2, HandledFields
  <2>5. browser'.subscribed \subseteq Exists'
    BY <2>2, <2>3, <2>4 DEF RoomsInv, Told
  <2>6. \A c \in Exists : ToCome(c) => ToCome(c)'
    <3>1. Exists \subseteq ChatRooms
      BY <1>1, ChatAssumption DEF Exists, PostsInv
    <3> QED BY <3>1, <1>1, <1>6, ToComeNext
  <2> QED BY <2>2, <2>3, <2>5, <2>6 DEF RoomsInv
<1>7. UNCHANGED chatVars \/ ServerStep \/ Connect \/ Disconnect \/ Handle
  BY DEF ChatNext, ServerStep
<1> QED BY <1>2, <1>3, <1>4, <1>5, <1>6, <1>7

-----------------------------------------------------------------------------
(* The chat: a browser catches up *)

(* A sequence that begins with another. *)
LEMMA TailOfConcat ==
  ASSUME NEW T, NEW s \in Seq(T), s # <<>>, NEW t \in Seq(T)
  PROVE  s \o t \in Seq(T) /\ s \o t # <<>> /\ Head(s \o t) = Head(s) /\ Tail(s \o t) = Tail(s) \o t
<1> DEFINE h == Head(s)
           r == Tail(s)
           q == r \o t
<1>1. s = <<h>> \o r /\ h \in T /\ r \in Seq(T) /\ <<h>> \in Seq(T)
  BY HeadTailProperties
<1>2. q \in Seq(T)
  BY <1>1, ConcatProperties
<1>3. s \o t = <<h>> \o q
  BY <1>1, ConcatAssociative
<1> HIDE DEF q, h, r
<1>4. <<h>> \o q \in Seq(T) /\ <<h>> \o q # <<>> /\ Head(<<h>> \o q) = h /\ Tail(<<h>> \o q) = q
  BY <1>1, <1>2
<1> QED BY <1>3, <1>4 DEF q, h, r

\* How often a bucket shows a Message, and whether as a whole.
Copies(b, m) == Count(b, {e \in Shown : e.id = m})
AllWhole(b, m) == \A e \in Elements(b) : e.id = m => e.text = Whole

\* What is shown of a Message is made anew.
Overrides(e, m) == e.ev = "history" \/ (e.ev = "replay" /\ m \in e.ids)

\* Where n copies are shown, w makes one of what has begun, and a whole of what was
\* broadcast.
Brings(w, m, n, whole) ==
  /\ \A e \in Elements(w) : ~Overrides(e, m)
  /\ Births(w, m) + n = IF Started(m) THEN 1 ELSE 0
  /\ m \in Streams /\ post[m] = "sent" /\ Says("end", m) \notin Elements(w)
       => Says("start", m) \notin Elements(w) /\ whole

\* What the last transcript on the wire says, or else what is shown, and what follows it.
Arrives(m) ==
  \/ \A b : b = browser.buckets[HomeOf[m]] => Brings(wire, m, Copies(b, m), AllWhole(b, m))
  \/ \E u, v \in Seq(Events) :
       /\ wire = u \o v /\ v # <<>> /\ Overrides(Head(v), m)
       /\ Brings(Tail(v), m, IF m \in Head(v).ids THEN 1 ELSE 0, TRUE)

\* It was read from its file, and what was read will be sent.
Carried(m) == \E a \in asked : a.read /\ m \in a.ids

\* No other way is left by which a Message could get lost, or be told twice.
Caught(m) ==
  /\ socket.join = "reading" /\ HomeOf[m] \notin socket.unread /\ post[m] # "none"
       => post[m] = "sent" /\ m \in socket.read
  /\ Carried(m) => post[m] = "sent"
  /\ socket.join = "none" /\ (post[m] = "none" \/ ~ToCome(HomeOf[m])) => Arrives(m) \/ Carried(m)

CaughtInv == Connected => \A m \in Messages \ raced : post[m] # "spent" => Caught(m)

(* How a Message comes to be. *)
LEMMA PostGoesOn ==
  ASSUME PostsInv, ServerStep, NEW m \in Messages
  PROVE  /\ post[m] = "spent" => post'[m] = "spent"
         /\ post[m] # "none" => post'[m] # "none"
         /\ post[m] = "none" => post'[m] = "none"
                                \/ (post'[m] = "reserving" /\ (PostMessage(m) \/ StartTurn(m)))
<1>1. CASE \E n \in Messages : n # m /\ \/ PostMessage(n) \/ StartTurn(n) \/ FailTurn(n)
                                        \/ Allocated(n) \/ Write(n) \/ Broadcast(n)
  BY <1>1 DEF PostMessage, StartTurn, FailTurn, Allocated, Write, Broadcast, PostsInv
<1>2. CASE PostMessage(m) \/ StartTurn(m)
  BY <1>2 DEF PostMessage, StartTurn, PostsInv
<1>3. CASE FailTurn(m) \/ Allocated(m) \/ Write(m) \/ Broadcast(m)
  BY <1>3 DEF FailTurn, Allocated, Write, Broadcast, PostsInv
<1>4. CASE UNCHANGED post
  BY <1>4
<1>5. \/ \E n \in Messages : \/ PostMessage(n) \/ StartTurn(n) \/ FailTurn(n)
                              \/ Allocated(n) \/ Write(n) \/ Broadcast(n)
      \/ UNCHANGED post
  BY DEF ServerStep, Delta, EndTurn, Spawn, ReadLog, Subscribe, JoinSession, JoinRooms,
     SendHistory, SendReplay, serverVars
<1> QED BY <1>1, <1>2, <1>3, <1>4, <1>5

(* What follows a transcript goes on to be sent. *)
LEMMA BringsMore ==
  ASSUME PostsInv, ServerStep, NEW m \in Messages, post'[m] # "spent",
         post[m] = "none" \/ HomeOf[m] \in socket.rooms,
         NEW es, Speaks(es), \A e \in Elements(es) : ~Overrides(e, m),
         NEW w \in Seq(Events), NEW n \in Nat, NEW whole, Brings(w, m, n, whole)
  PROVE  Brings(w \o es, m, n, whole)'
<1>1. PICK x : x = w \o es
  OBVIOUS
<1>2. /\ es \in Seq(Events) /\ Elements(x) = Elements(w) \cup Elements(es)
      /\ Births(x, m) = Births(w, m) + Births(es, m) /\ Births(w, m) \in Nat
  <2>1. es \in Seq(Events)
    BY DEF Speaks
  <2>2. Elements(x) = Elements(w) \cup Elements(es)
    BY <1>1, <2>1, ElementsOfConcat
  <2>3. \A S : Count(x, S) = Count(w, S) + Count(es, S) /\ Count(w, S) \in Nat
    BY <1>1, <2>1, CountOfConcat, CountIs
  <2> QED BY <2>1, <2>2, <2>3 DEF Births
<1>3. /\ \A e \in Elements(w) : ~Overrides(e, m)
      /\ Births(w, m) + n = IF Started(m) THEN 1 ELSE 0
      /\ m \in Streams /\ post[m] = "sent" /\ Says("end", m) \notin Elements(w)
           => Says("start", m) \notin Elements(w) /\ whole
  BY DEF Brings
<1>4. post[m] = "none" => ~Started(m) /\ ~Started(m)' /\ post'[m] # "sent"
  <2>1. post[m] = "none" => post'[m] \in {"none", "reserving"}
    BY PostGoesOn
  <2> QED BY <2>1 DEF Started, Allotted
<1>5. Started(m) => Started(m)'
  <2>1. [ChatNext]_chatVars
    BY DEF ServerStep, ChatNext
  <2> QED BY <2>1, PostsGrow DEF Started
<1>6. Births(es, m) = IF ~Started(m) /\ Started(m)' THEN 1 ELSE 0
  <2>1. Births(es, m) = IF HomeOf[m] \in socket.rooms /\ ~Started(m) /\ Started(m)'
                        THEN 1 ELSE 0
    BY DEF Speaks
  <2> QED BY <2>1, <1>4
<1>7. Births(x, m) + n = IF Started(m)' THEN 1 ELSE 0
  BY <1>2, <1>3, <1>5, <1>6
<1>8. ASSUME m \in Streams, post'[m] = "sent", Says("end", m) \notin Elements(x)
      PROVE  Says("start", m) \notin Elements(x) /\ whole
  <2>1. HomeOf[m] \in socket.rooms
    BY <1>4, <1>8
  <2>2. post[m] = "sent"
    BY <1>2, <1>8, <2>1 DEF Speaks
  <2>3. Says("start", m) \notin Elements(es)
    <3>1. m \in Allotted
      BY <2>2 DEF Allotted
    <3> QED BY <3>1 DEF Speaks, Fresh, Says
  <2> QED BY <1>2, <1>3, <1>8, <2>2, <2>3
<1>9. \A e \in Elements(x) : ~Overrides(e, m)
  BY <1>2, <1>3
<1>10. Brings(x, m, n, whole)'
  BY <1>7, <1>8, <1>9 DEF Brings, Births, Count, Overrides
<1> QED BY <1>1, <1>10

(* The copies of a Message in a bucket. *)
LEMMA CopiesAre ==
  ASSUME PostsInv, TranscriptInv, NEW m \in Messages, NEW b, b = browser.buckets[HomeOf[m]]
  PROVE  b \in Seq(Shown) /\ Copies(b, m) \in Nat
<1>1. b \in Seq(Shown)
  BY ChatAssumption DEF TranscriptInv, Reads
<1> QED BY <1>1, CountIs DEF Copies

(* So the server goes on with a Message that arrives. *)
LEMMA ServerKeepsArrives ==
  ASSUME PostsInv, SocketInv, WireInv, TranscriptInv, ServerStep, NEW m \in Messages,
         post'[m] # "spent", post[m] = "none" \/ HomeOf[m] \in socket.rooms,
         NEW es, Speaks(es), \A e \in Elements(es) : ~Overrides(e, m), Arrives(m)
  PROVE  Arrives(m)'
<1>1. browser' = browser
  BY ServerMoves
<1>2. wire \in Seq(Events) /\ es \in Seq(Events) /\ wire' = wire \o es
  BY DEF WireInv, Speaks
<1>3. CASE \A b : b = browser.buckets[HomeOf[m]] => Brings(wire, m, Copies(b, m), AllWhole(b, m))
  <2>1. PICK b, n, whole : /\ b = browser.buckets[HomeOf[m]]
                           /\ n = Copies(b, m) /\ whole = AllWhole(b, m)
    OBVIOUS
  <2>2. n \in Nat /\ Brings(wire, m, n, whole)
    BY <1>3, <2>1, CopiesAre
  <2>3. PICK w : w = wire
    OBVIOUS
  <2>4. w \in Seq(Events) /\ Brings(w, m, n, whole) /\ wire' = w \o es
    BY <1>2, <2>2, <2>3
  <2>5. Brings(w \o es, m, n, whole)'
    BY <2>2, <2>4, BringsMore
  <2>6. Brings(wire, m, n, whole)'
    BY <2>4, <2>5
  <2> QED BY <1>1, <2>1, <2>6 DEF Arrives
<1>4. CASE \E u, v \in Seq(Events) :
             /\ wire = u \o v /\ v # <<>> /\ Overrides(Head(v), m)
             /\ Brings(Tail(v), m, IF m \in Head(v).ids THEN 1 ELSE 0, TRUE)
  <2>1. PICK u \in Seq(Events), v \in Seq(Events) :
             /\ wire = u \o v /\ v # <<>> /\ Overrides(Head(v), m)
             /\ Brings(Tail(v), m, IF m \in Head(v).ids THEN 1 ELSE 0, TRUE)
    BY <1>4
  <2>2. PICK h, w, n : h = Head(v) /\ w = Tail(v) /\ n = IF m \in h.ids THEN 1 ELSE 0
    OBVIOUS
  <2>3. w \in Seq(Events) /\ n \in Nat /\ Brings(w, m, n, TRUE)
    <3>1. w \in Seq(Events) /\ n \in Nat
      BY <2>1, <2>2
    <3> QED BY <3>1, <2>1, <2>2
  <2>4. Brings(w \o es, m, n, TRUE)'
    BY <2>3, BringsMore
  <2>5. PICK x : x = v \o es
    OBVIOUS
  <2>6. x \in Seq(Events) /\ x # <<>> /\ Head(x) = h /\ Tail(x) = w \o es
    BY <1>2, <2>1, <2>2, <2>5, TailOfConcat
  <2>7. wire' = u \o x
    BY <1>2, <2>1, <2>5, ConcatAssociative
  <2> QED BY <2>1, <2>2, <2>4, <2>6, <2>7 DEF Arrives, Overrides
<1> QED BY <1>3, <1>4 DEF Arrives

(* What the browser is told of one Message adds to what it shows of it. *)
LEMMA HandledCopies ==
  ASSUME PostsInv, WireInv, TranscriptInv, Handle, NEW h, h = Head(wire), NEW m \in Messages,
         NEW b, b = browser.buckets[HomeOf[m]], NEW d, d = browser'.buckets[HomeOf[m]],
         h.ev # "history", h.ev = "replay" => m \notin h.ids /\ Copies(b, m) \in {0, 1}
  PROVE  /\ Copies(b, m) \in Nat
         /\ Copies(d, m) = IF h = Says("start", m) \/ h = Says("message", m)
                           THEN Copies(b, m) + 1 ELSE Copies(b, m)
         /\ AllWhole(b, m) /\ h # Says("start", m) => AllWhole(d, m)
         /\ h = Says("end", m) => AllWhole(d, m)
<1>1. /\ h \in Events /\ Told(h) /\ browser' = Handled(h) /\ h \in Elements(wire)
  BY HandleFacts
<1>2. HomeOf[m] \in ChatRooms /\ Whole \in Nat /\ MaxDeltas \in Nat
  BY ChatAssumption DEF Whole
<1>3. Reads(b, HomeOf[m])
  BY <1>2 DEF TranscriptInv
<1>4. b \in Seq(Shown) /\ Rising(b)
  BY <1>3 DEF Reads
<1>5. PICK S : S = {e \in Shown : e.id = m}
  OBVIOUS
<1>6. Count(b, S) \in Nat
  BY <1>4, CountIs
<1>7. \A q : Copies(q, m) = Count(q, S)
  BY <1>5 DEF Copies
<1>8. CASE d = b /\ h # Says("start", m) /\ h # Says("message", m) /\ h # Says("end", m)
  BY <1>8, <1>6, <1>7
<1>9. CASE h.ev \in {"start", "message"}
  <2>1. PICK n \in Messages : n = h.id /\ h = Says(h.ev, n)
    BY <1>1, <1>9 DEF Events, Says
  <2>2. PICK x : x = [id |-> n, text |-> IF h.ev = "start" THEN 0 ELSE Whole]
    OBVIOUS
  <2>3. x \in Shown /\ (x \in S <=> n = m) /\ x.id = n
    BY <1>2, <1>5, <2>2 DEF Shown
  <2>4. browser'.buckets = [browser.buckets EXCEPT ![HomeOf[n]] = Inserted(@, x)]
    BY <1>1, <1>9, <2>1, <2>2 DEF Handled, HandledStart, Put, TranscriptInv, Browsers
  <2>5. CASE HomeOf[n] # HomeOf[m]
    <3>1. d = b
      BY <2>4, <2>5, <1>2 DEF TranscriptInv, Browsers
    <3>2. h # Says("start", m) /\ h # Says("message", m) /\ h # Says("end", m)
      BY <2>1, <2>5 DEF Says
    <3> QED BY <3>1, <3>2, <1>8
  <2>6. CASE HomeOf[n] = HomeOf[m]
    <3>1. d = Inserted(b, x)
      BY <2>4, <2>6, <1>2 DEF TranscriptInv, Browsers
    <3>2. /\ Elements(d) = Elements(b) \cup {x}
          /\ Count(d, S) = IF x \in S THEN Count(b, S) + 1 ELSE Count(b, S)
      <4>1. seqOf \in [Messages -> Nat]
        BY DEF PostsInv
      <4>2. /\ Elements(Inserted(b, x)) = Elements(b) \cup {x}
            /\ \A Q : Count(Inserted(b, x), Q) = IF x \in Q THEN Count(b, Q) + 1 ELSE Count(b, Q)
        BY <1>4, <2>3, <4>1, InsertedFacts
      <4> QED BY <3>1, <4>2
    <3>3. h = Says("start", m) \/ h = Says("message", m) <=> n = m
      BY <1>9, <2>1 DEF Says
    <3>4. h # Says("end", m)
      BY <1>9, <2>1 DEF Says
    <3>5. AllWhole(b, m) /\ h # Says("start", m) => AllWhole(d, m)
      <4>1. n = m /\ h # Says("start", m) => x.text = Whole
        BY <2>1, <2>2
      <4> QED BY <4>1, <2>3, <3>2 DEF AllWhole
    <3> QED BY <1>6, <1>7, <2>3, <3>2, <3>3, <3>4, <3>5
  <2> QED BY <2>5, <2>6
<1>10. CASE h.ev = "end" \/ (h.ev = "delta" /\ h.id \in browser.streaming)
  <2>1. PICK n \in Messages : n = h.id /\ h = Says(h.ev, n)
    BY <1>1, <1>10 DEF Events, Says
  <2>2. PICK whole \in BOOLEAN : whole = (h.ev = "end")
    OBVIOUS
  <2>3. browser'.buckets = [browser.buckets EXCEPT ![HomeOf[n]] = Edited(@, n, whole)]
    <3>1. CASE h.ev = "end"
      BY <3>1, <1>1, <2>1, <2>2 DEF Handled, HandledEnd, TranscriptInv, Browsers
    <3>2. CASE h.ev = "delta" /\ h.id \in browser.streaming
      BY <3>2, <1>1, <2>1, <2>2 DEF Handled, HandledDelta, TranscriptInv, Browsers
    <3> QED BY <1>10, <3>1, <3>2
  <2>4. h # Says("start", m) /\ h # Says("message", m) /\ (h = Says("end", m) => n = m /\ whole)
    <3>1. h.ev = "end" \/ h.ev = "delta"
      BY <1>10
    <3>2. \A name : Says(name, m).ev = name /\ Says(name, m).id = m
      BY DEF Says
    <3>3. h # Says("start", m) /\ h # Says("message", m)
      BY <3>1, <3>2
    <3>4. h = Says("end", m) => n = m /\ h.ev = "end"
      BY <2>1, <3>2
    <3>5. h.ev = "end" => whole
      BY <2>2
    <3> QED BY <3>3, <3>4, <3>5
  <2>5. CASE HomeOf[n] # HomeOf[m]
    <3>1. d = b
      BY <2>3, <2>5, <1>2 DEF TranscriptInv, Browsers
    <3> QED BY <2>4, <2>5, <3>1, <1>6, <1>7
  <2>6. CASE HomeOf[n] = HomeOf[m]
    <3>1. d = Edited(b, n, whole)
      BY <2>3, <2>6, <1>2 DEF TranscriptInv, Browsers
    <3>2. ASSUME ~whole, NEW e \in Elements(b), e.id = n PROVE e.text < Whole
      <4>1. e \in Shown /\ Entry(e, HomeOf[m])
        BY <1>3, ReadsEntries
      <4>2. Says("delta", n) \in Elements(wire)
        BY <1>1, <1>10, <2>1, <2>2, <3>2
      <4> QED BY <1>2, <3>2, <4>1, <4>2 DEF Entry, Shown
    <3>3. /\ d \in Seq(Shown) /\ DOMAIN d = DOMAIN b
          /\ \A i \in DOMAIN b :
               /\ d[i].id = b[i].id
               /\ d[i] = IF b[i].id # n THEN b[i]
                         ELSE [id |-> n, text |-> IF whole THEN Whole ELSE b[i].text + 1]
      <4>1. ~whole => \A e \in Elements(b) : e.id = n => e.text < Whole
        BY <3>2
      <4> QED BY <1>2, <1>4, <3>1, <4>1, EditedFacts
    <3>4. Count(d, S) = Count(b, S)
      <4>1. \A i \in DOMAIN d : b[i] \in Shown /\ d[i] \in Shown
        BY <1>4, <3>3
      <4>2. \A i \in DOMAIN d : d[i] \in S <=> b[i] \in S
        BY <1>5, <3>3, <4>1
      <4> QED BY <1>4, <3>3, <4>2, CountByPlace
    <3>5. ASSUME AllWhole(b, m) \/ h = Says("end", m) PROVE AllWhole(d, m)
      <4> SUFFICES ASSUME NEW i \in DOMAIN d, d[i].id = m PROVE d[i].text = Whole
        BY DEF AllWhole, Elements
      <4>1. CASE n # m
        <5>1. d[i] = b[i] /\ AllWhole(b, m)
          BY <4>1, <3>3, <3>5, <2>4
        <5> QED BY <5>1, <3>3 DEF AllWhole, Elements
      <4>2. CASE n = m /\ whole
        BY <4>2, <3>3
      <4>3. CASE n = m /\ ~whole
        <5>1. b[i].text = Whole /\ b[i] \in Elements(b) /\ b[i].id = n
          BY <4>3, <3>3, <3>5, <2>4 DEF AllWhole, Elements
        <5> QED BY <5>1, <4>3, <3>2, <1>2
      <4> QED BY <4>1, <4>2, <4>3
    <3> QED BY <1>6, <1>7, <2>4, <3>4, <3>5
  <2> QED BY <2>5, <2>6
<1>11. CASE h.ev \in {"error", "roster", "spawned"} \/ (h.ev = "delta" /\ h.id \notin browser.streaming)
  <2>1. browser'.buckets = browser.buckets
    BY <1>1, <1>11 DEF Handled, HandledError, HandledDelta
  <2>2. h # Says("start", m) /\ h # Says("message", m) /\ h # Says("end", m)
    BY <1>11 DEF Says
  <2> QED BY <1>8, <2>1, <2>2
<1>12. CASE h.ev = "replay"
  <2>1. h # Says("start", m) /\ h # Says("message", m) /\ h # Says("end", m)
    BY <1>12 DEF Says
  <2>2. CASE h.room # HomeOf[m]
    <3>1. d = b
      BY <2>2, <1>2, <1>12, ReplayKeepsTranscript
    <3> QED BY <1>8, <2>1, <3>1
  <2>3. CASE h.room = HomeOf[m]
    <3>1. /\ d \in Seq(Shown) /\ Distinct(d)
          /\ Elements(d) = {s \in Elements(b) : s.id \notin h.ids}
                             \cup {[id |-> n, text |-> Whole] : n \in h.ids}
      <4>1. /\ browser'.buckets \in [ChatRooms -> Seq(Shown)]
            /\ Distinct(browser'.buckets[h.room])
            /\ Elements(browser'.buckets[h.room])
                 = {s \in Elements(browser.buckets[h.room]) : s.id \notin h.ids}
                     \cup {[id |-> n, text |-> Whole] : n \in h.ids}
        BY <1>12, ReplayKeepsTranscript
      <4> QED BY <4>1, <2>3, <1>2
    <3>2. Elements(d) \cap S = Elements(b) \cap S
      BY <1>4, <1>5, <1>12, <3>1 DEF Elements
    <3>3. Count(d, S) = Count(b, S)
      <4>1. CASE Elements(b) \cap S = {}
        BY <4>1, <1>4, <3>1, <3>2, CountOfNone
      <4>2. CASE Elements(b) \cap S # {}
        <5>1. PICK e : e \in Elements(b) \cap S
          BY <4>2
        <5>2. Elements(b) \cap S = {e}
          BY <5>1, <1>3, <1>5 DEF Reads, Alike
        <5>3. Count(d, S) = 1
          BY <3>1, <3>2, <5>2, CountOfOne
        <5>4. Count(b, S) # 0
          BY <4>2, <1>4, CountOfNone
        <5> QED BY <5>3, <5>4, <1>7, <1>12
      <4> QED BY <4>1, <4>2
    <3>4. AllWhole(b, m) => AllWhole(d, m)
      BY <3>1 DEF AllWhole
    <3> QED BY <1>6, <1>7, <2>1, <3>3, <3>4
  <2> QED BY <2>2, <2>3
<1>13. h.ev \in {"start", "delta", "error", "end", "message", "replay", "roster", "spawned"}
  BY <1>1 DEF Events
<1> QED BY <1>9, <1>10, <1>11, <1>12, <1>13

(* What a transcript makes of what is shown of a Message. *)
LEMMA Overridden ==
  ASSUME PostsInv, WireInv, TranscriptInv, Handle, NEW h, h = Head(wire), NEW m \in Messages,
         Overrides(h, m), NEW d, d = browser'.buckets[HomeOf[m]]
  PROVE  AllWhole(d, m) /\ Copies(d, m) = IF m \in h.ids THEN 1 ELSE 0
<1>1. HomeOf[m] \in ChatRooms
  BY ChatAssumption
<1>2. PICK x, S : x = [id |-> m, text |-> Whole] /\ S = {e \in Shown : e.id = m}
  OBVIOUS
<1>3. x \in S
  BY <1>2, ChatAssumption DEF Shown, Whole
<1>4. h \in Events /\ Told(h)
  BY HandleFacts
<1>5. /\ d \in Seq(Shown) /\ Distinct(d) /\ AllWhole(d, m)
      /\ Elements(d) \cap S = IF m \in h.ids THEN {x} ELSE {}
  <2>1. CASE h.ev = "history"
    <3>1. /\ d \in Seq(Shown) /\ Distinct(d)
          /\ Elements(d) = {[id |-> n, text |-> Whole] : n \in h.ids \cap AtHome(HomeOf[m])}
      <4>1. /\ browser'.buckets \in [ChatRooms -> Seq(Shown)]
            /\ \A c \in ChatRooms :
                 /\ Distinct(browser'.buckets[c])
                 /\ Elements(browser'.buckets[c])
                      = {[id |-> n, text |-> Whole] : n \in h.ids \cap AtHome(c)}
        BY <2>1, HistoryKeepsTranscript
      <4> QED BY <4>1, <1>1
    <3> QED BY <1>2, <1>3, <3>1 DEF AllWhole, AtHome
  <2>2. CASE h.ev = "replay" /\ m \in h.ids
    <3>1. h.room = HomeOf[m]
      BY <1>4, <2>2 DEF Told, AtHome
    <3>2. /\ d \in Seq(Shown) /\ Distinct(d)
          /\ Elements(d) = {s \in Elements(browser.buckets[h.room]) : s.id \notin h.ids}
                             \cup {[id |-> n, text |-> Whole] : n \in h.ids}
      <4>1. /\ browser'.buckets \in [ChatRooms -> Seq(Shown)]
            /\ Distinct(browser'.buckets[h.room])
            /\ Elements(browser'.buckets[h.room])
                 = {s \in Elements(browser.buckets[h.room]) : s.id \notin h.ids}
                     \cup {[id |-> n, text |-> Whole] : n \in h.ids}
        BY <2>2, ReplayKeepsTranscript
      <4> QED BY <4>1, <3>1, <1>1
    <3>3. Elements(d) \cap S = {x}
      BY <1>2, <1>3, <2>2, <3>2
    <3>4. AllWhole(d, m)
      BY <2>2, <3>2 DEF AllWhole
    <3> QED BY <2>2, <3>2, <3>3, <3>4
  <2> QED BY <2>1, <2>2 DEF Overrides
<1>6. Copies(d, m) = IF m \in h.ids THEN 1 ELSE 0
  <2>1. m \in h.ids => Count(d, S) = 1
    BY <1>5, CountOfOne
  <2>2. m \notin h.ids => Count(d, S) = 0
    BY <1>5, CountOfNone
  <2> QED BY <1>2, <2>1, <2>2 DEF Copies
<1> QED BY <1>5, <1>6

(* What is handled of a Message that arrives. *)
LEMMA HandleKeepsArrives ==
  ASSUME PostsInv, WireInv, TranscriptInv, Handle, NEW m \in Messages, Arrives(m)
  PROVE  Arrives(m)'
<1>1. PICK h, b, d : /\ h = Head(wire) /\ b = browser.buckets[HomeOf[m]]
                     /\ d = browser'.buckets[HomeOf[m]]
  OBVIOUS
<1>2. /\ UNCHANGED <<serverVars, socket>> /\ h \in Elements(wire)
      /\ Elements(wire') \subseteq Elements(wire) /\ Elements(wire) = {h} \cup Elements(wire')
      /\ \A e \in Elements(wire') : Before(h, e)
      /\ Births(wire', m) \in Nat
      /\ Births(wire, m) = IF h = Says("start", m) \/ h = Says("message", m)
                           THEN Births(wire', m) + 1 ELSE Births(wire', m)
  BY <1>1, HandleFacts
<1>3. post' = post /\ (Started(m)' <=> Started(m))
  BY <1>2 DEF serverVars, Started, Allotted
<1>4. wire \in Seq(Events) /\ wire # <<>> /\ wire' = Tail(wire)
  BY DEF Handle, WireInv
<1>5. CASE \A q : q = browser.buckets[HomeOf[m]] => Brings(wire, m, Copies(q, m), AllWhole(q, m))
  <2>1. /\ \A e \in Elements(wire) : ~Overrides(e, m)
        /\ Births(wire, m) + Copies(b, m) = IF Started(m) THEN 1 ELSE 0
        /\ m \in Streams /\ post[m] = "sent" /\ Says("end", m) \notin Elements(wire)
             => Says("start", m) \notin Elements(wire) /\ AllWhole(b, m)
    BY <1>1, <1>5 DEF Brings
  <2>2. Copies(b, m) \in {0, 1}
    <3>1. Births(wire, m) \in Nat /\ Copies(b, m) \in Nat
      BY <1>1, <1>2, CopiesAre
    <3> QED BY <3>1, <2>1
  <2>3. h.ev # "history" /\ (h.ev = "replay" => m \notin h.ids)
    BY <1>2, <2>1 DEF Overrides
  <2>4. /\ Copies(d, m) = IF h = Says("start", m) \/ h = Says("message", m)
                          THEN Copies(b, m) + 1 ELSE Copies(b, m)
        /\ AllWhole(b, m) /\ h # Says("start", m) => AllWhole(d, m)
        /\ h = Says("end", m) => AllWhole(d, m)
    BY <1>1, <2>2, <2>3, HandledCopies
  <2>5. Births(wire', m) + Copies(d, m) = IF Started(m)' THEN 1 ELSE 0
    BY <1>2, <1>3, <2>1, <2>2, <2>4
  <2>6. ASSUME m \in Streams, post'[m] = "sent", Says("end", m) \notin Elements(wire')
        PROVE  Says("start", m) \notin Elements(wire') /\ AllWhole(d, m)
    <3>1. CASE h = Says("end", m)
      <4>1. m \in About(h)
        BY <3>1 DEF About, Says
      <4>2. Says("start", m) \notin Elements(wire')
        BY <4>1, <1>2 DEF Before, Says
      <4> QED BY <4>2, <3>1, <2>4
    <3>2. CASE h # Says("end", m)
      <4>1. Says("start", m) \notin Elements(wire) /\ AllWhole(b, m)
        BY <3>2, <1>2, <1>3, <2>1, <2>6
      <4> QED BY <4>1, <1>2, <2>4
    <3> QED BY <3>1, <3>2
  <2>7. Brings(wire, m, Copies(d, m), AllWhole(d, m))'
    BY <1>2, <2>1, <2>5, <2>6 DEF Brings, Births, Count, Copies, Overrides
  <2> QED BY <1>1, <2>7 DEF Arrives, Copies, Count, AllWhole
<1>6. CASE \E u, v \in Seq(Events) :
             /\ wire = u \o v /\ v # <<>> /\ Overrides(Head(v), m)
             /\ Brings(Tail(v), m, IF m \in Head(v).ids THEN 1 ELSE 0, TRUE)
  <2>1. PICK u \in Seq(Events), v \in Seq(Events) :
             /\ wire = u \o v /\ v # <<>> /\ Overrides(Head(v), m)
             /\ Brings(Tail(v), m, IF m \in Head(v).ids THEN 1 ELSE 0, TRUE)
    BY <1>6
  <2>2. PICK n, w : n = (IF m \in Head(v).ids THEN 1 ELSE 0) /\ w = Tail(v)
    OBVIOUS
  <2>3. Brings(w, m, n, TRUE)'
    BY <1>3, <2>1, <2>2 DEF Brings, Births, Count, Overrides
  <2>4. CASE u = <<>>
    <3>1. wire = v /\ h = Head(v) /\ wire' = w
      BY <1>1, <1>4, <2>1, <2>2, <2>4, ConcatEmptySeq
    <3>2. AllWhole(d, m) /\ Copies(d, m) = n
      BY <1>1, <2>1, <2>2, <3>1, Overridden
    <3>3. Brings(wire, m, n, TRUE)'
      BY <2>3, <3>1
    <3>4. Brings(wire, m, Copies(d, m), AllWhole(d, m))'
      BY <3>2, <3>3 DEF Brings, Copies, Count, AllWhole
    <3> QED BY <1>1, <3>4 DEF Arrives, Copies, Count, AllWhole
  <2>5. CASE u # <<>>
    <3>1. Tail(u) \in Seq(Events) /\ wire' = Tail(u) \o v
      BY <1>4, <2>1, <2>5, TailOfConcat, HeadTailProperties
    <3>2. Brings(Tail(v), m, IF m \in Head(v).ids THEN 1 ELSE 0, TRUE)'
      BY <2>2, <2>3
    <3> QED BY <2>1, <3>1, <3>2 DEF Arrives, Overrides
  <2> QED BY <2>4, <2>5
<1> QED BY <1>5, <1>6 DEF Arrives

(* A Message goes on: it arrives while its room was joined, or before it begins. *)
LEMMA MessageStepCaught ==
  ASSUME ChatInv, RoomsInv, Connected, ServerStep, UNCHANGED <<socket, asked>>,
         NEW m \in Messages, m \notin raced', post'[m] # "spent", Caught(m)
  PROVE  Caught(m)'
<1>1. PostsInv /\ SocketInv /\ WireInv /\ TranscriptInv
  BY DEF ChatInv
<1>2. HomeOf[m] \in ChatRooms /\ HomeOf[m] = (HomeOf[m])'
  BY ChatAssumption
<1>3. /\ post[m] # "none" => post'[m] # "none"
      /\ post[m] = "none" => post'[m] = "none"
                             \/ (post'[m] = "reserving" /\ (PostMessage(m) \/ StartTurn(m)))
      /\ post[m] = "sent" => post'[m] = "sent"
  <2>1. [ChatNext]_chatVars
    BY DEF ServerStep, ChatNext
  <2> QED BY <1>1, <2>1, PostGoesOn, PostsGrow
<1>4. Carried(m)' <=> Carried(m)
  BY DEF Carried
<1>5. ASSUME socket'.join = "reading", HomeOf[m] \notin socket'.unread, post'[m] # "none"
      PROVE  post'[m] = "sent" /\ m \in socket'.read
  <2>1. CASE post[m] # "none"
    BY <2>1, <1>3, <1>5 DEF Caught
  <2>2. CASE post[m] = "none"
    <3>1. PostMessage(m) \/ StartTurn(m)
      BY <2>2, <1>3, <1>5
    <3>2. m \in raced'
      BY <3>1, <1>5 DEF PostMessage, StartTurn, Begin
    <3> QED BY <3>2
  <2> QED BY <2>1, <2>2
<1>6. ASSUME socket'.join = "none", post'[m] = "none" \/ ~ToCome(HomeOf[m])', ~Carried(m)
      PROVE  Arrives(m)'
  <2>1. \A c \in ChatRooms : ~Subscribe(c)
    <3>1. ASSUME NEW c \in ChatRooms, Subscribe(c) PROVE FALSE
      <4>1. /\ [room |-> c, read |-> FALSE] \in asked
            /\ asked' = (asked \ {[room |-> c, read |-> FALSE]})
                         \cup {[room |-> c, read |-> TRUE, ids |-> log[c]]}
        BY <3>1 DEF Subscribe
      <4>2. ~[room |-> c, read |-> FALSE].read /\ [room |-> c, read |-> TRUE, ids |-> log[c]].read
        OBVIOUS
      <4> QED BY <4>1, <4>2
    <3> QED BY <3>1
  <2>2. ToCome(HomeOf[m]) => ToCome(HomeOf[m])'
    BY <1>1, <1>2, <2>1, ToComeStays
  <2>3. post[m] = "none" \/ ~ToCome(HomeOf[m])
    BY <1>3, <1>6, <2>2
  <2>4. Arrives(m)
    BY <1>6, <2>3 DEF Caught
  <2>5. post[m] = "none" \/ HomeOf[m] \in socket.rooms
    BY <1>1, <1>6, <2>3 DEF PostsInv, RoomsInv
  <2>6. PICK es : Speaks(es)
    BY <1>1, ServerSpeaks
  <2>7. ASSUME NEW e \in Elements(es) PROVE ~Overrides(e, m)
    <3>1. Fresh(e)
      BY <2>6 DEF Speaks
    <3> QED BY <3>1, <1>6 DEF Fresh, Overrides
  <2> QED BY <1>1, <2>4, <2>5, <2>6, <2>7, ServerKeepsArrives
<1>7. Carried(m)' => post'[m] = "sent"
  BY <1>3, <1>4 DEF Caught
<1> QED BY <1>4, <1>5, <1>6, <1>7 DEF Caught

(* A file is read: what was under way then is let go. *)
LEMMA ReadsCaught ==
  ASSUME ChatInv, NEW c \in ChatRooms, ReadLog(c) \/ Subscribe(c), ServerStep,
         NEW m \in Messages, m \notin raced', post[m] # "spent", Caught(m)
  PROVE  Caught(m)'
<1>1. PostsInv /\ SocketInv /\ WireInv /\ TranscriptInv
  BY DEF ChatInv
<1>2. /\ UNCHANGED <<serverVars, wire, browser>> /\ raced' = raced \cup UnderWay(c)
      /\ UNCHANGED <<post, log>> /\ HomeOf[m] \in ChatRooms
  BY ChatAssumption DEF ReadLog, Subscribe, serverVars
<1>3. HomeOf[m] = c /\ post[m] # "none" => post[m] = "sent" /\ m \in log[c]
  BY <1>1, <1>2 DEF UnderWay, PostsInv, Filed, AtHome
<1>4. m \in log[c] => HomeOf[m] = c /\ post[m] # "none"
  BY <1>1 DEF PostsInv, Filed, AtHome
<1>5. Arrives(m)' <=> Arrives(m)
  BY <1>2 DEF Arrives, Brings, Births, Copies, Count, Started, Allotted, serverVars
<1>6. CASE ReadLog(c)
  <2>1. /\ socket.join = "reading" /\ socket'.join = "reading" /\ asked' = asked
        /\ socket'.unread = socket.unread \ {c} /\ socket'.read = socket.read \cup log[c]
    BY <1>1, <1>6 DEF ReadLog, SocketInv
  <2>2. Carried(m)' <=> Carried(m)
    BY <2>1 DEF Carried
  <2> QED BY <1>2, <1>3, <2>1, <2>2 DEF Caught
<1>7. CASE Subscribe(c)
  <2>1. PICK r, a : /\ r = [room |-> c, read |-> FALSE]
                    /\ a = [room |-> c, read |-> TRUE, ids |-> log[c]]
    OBVIOUS
  <2>2. /\ asked' = (asked \ {r}) \cup {a} /\ ~r.read /\ a.read /\ a.ids = log[c]
        /\ socket'.join = socket.join /\ socket'.unread = socket.unread
        /\ socket'.read = socket.read
    BY <1>1, <1>7, <2>1 DEF Subscribe, SocketInv
  <2>3. Carried(m)' <=> Carried(m) \/ m \in log[c]
    BY <2>2 DEF Carried
  <2>4. ASSUME HomeOf[m] # c PROVE ToCome(HomeOf[m]) => ToCome(HomeOf[m])'
    <3>1. ~Subscribe(HomeOf[m])
      <4>1. ASSUME Subscribe(HomeOf[m]) PROVE FALSE
        <5>1. PICK q, z : /\ q = [room |-> HomeOf[m], read |-> FALSE]
                          /\ z = [room |-> HomeOf[m], read |-> TRUE, ids |-> log[HomeOf[m]]]
          OBVIOUS
        <5>2. q \in asked /\ asked' = (asked \ {q}) \cup {z} /\ z # q
          BY <4>1, <5>1 DEF Subscribe
        <5>3. q.room = HomeOf[m] /\ r.room = c /\ a.room = c
          BY <5>1, <2>1
        <5> QED BY <2>2, <2>4, <5>2, <5>3
      <4> QED BY <4>1
    <3> QED BY <1>1, <1>2, <3>1, ToComeStays
  <2> QED BY <1>2, <1>3, <1>4, <1>5, <2>2, <2>3, <2>4 DEF Caught
<1> QED BY <1>6, <1>7

(* The history is sent: it has what was broadcast, and of the rest nothing has begun. *)
LEMMA HistoryCaught ==
  ASSUME ChatInv, SendHistory, NEW m \in Messages, Caught(m)
  PROVE  Caught(m)'
<1>1. PostsInv /\ SocketInv /\ WireInv
  BY DEF ChatInv
<1>2. PICK h, r : /\ h = [ev |-> "history", ids |-> socket.read]
                  /\ r = [ev |-> "roster", rooms |-> Exists]
  OBVIOUS
<1>3. h \in Events /\ r \in Events
  <2>1. socket.read \in SUBSET Messages /\ Exists \in SUBSET ChatRooms
    BY <1>1, ChatAssumption DEF SocketInv, PostsInv, Exists
  <2> QED BY <1>2, <2>1 DEF Events
<1>4. PICK v : v = <<h, r>>
  OBVIOUS
<1>5. v \in Seq(Events) /\ v # <<>> /\ Head(v) = h /\ Tail(v) = <<r>>
  BY <1>3, <1>4
<1>6. /\ wire' = wire \o v /\ post' = post /\ asked' = asked
      /\ socket.join = "reading" /\ socket.unread = {} /\ socket'.join = "none"
  BY <1>1, <1>2, <1>4 DEF SendHistory, serverVars, SocketInv
<1>7. post[m] = "none" \/ (post[m] = "sent" /\ m \in socket.read)
  BY <1>6 DEF Caught
<1>8. post[m] = "none" => m \notin socket.read
  BY <1>1 DEF SocketInv, Filed
<1>9. PICK w, n : w = <<r>> /\ n = (IF m \in h.ids THEN 1 ELSE 0)
  OBVIOUS
<1>10. w \in Seq(Events) /\ Elements(w) = {r} /\ Births(w, m) = 0
  <2>1. w \in Seq(Events) /\ Elements(w) = {r}
    BY <1>3, <1>9, OneEvent
  <2>2. \A e \in Elements(w) : e.ev \notin {"start", "delta", "error", "end", "message"}
    BY <1>2, <2>1
  <2> QED BY <2>1, <2>2, OtherSaid
<1>11. Brings(w, m, n, TRUE)'
  <2>1. \A e \in Elements(w) : ~Overrides(e, m)
    BY <1>2, <1>10 DEF Overrides
  <2>2. Started(m)' <=> n = 1
    BY <1>2, <1>6, <1>7, <1>8, <1>9 DEF Started, Allotted
  <2>3. Says("start", m) \notin Elements(w)
    BY <1>2, <1>10 DEF Says
  <2> QED BY <1>9, <1>10, <2>1, <2>2, <2>3 DEF Brings, Births, Count, Overrides
<1>12. Arrives(m)'
  <2>1. Overrides(Head(v), m)'
    BY <1>2, <1>5 DEF Overrides
  <2>2. Brings(Tail(v), m, IF m \in Head(v).ids THEN 1 ELSE 0, TRUE)'
    BY <1>5, <1>9, <1>11
  <2>3. wire \in Seq(Events)
    BY <1>1 DEF WireInv
  <2> QED BY <1>5, <1>6, <2>1, <2>2, <2>3 DEF Arrives
<1>13. Carried(m)' <=> Carried(m)
  BY <1>6 DEF Carried
<1> QED BY <1>6, <1>12, <1>13 DEF Caught

(* A Conversation's Messages are sent: those it has are shown once. *)
LEMMA ReplayCaught ==
  ASSUME ChatInv, RoomsInv, Connected, SendReplay, NEW m \in Messages, post[m] # "spent", Caught(m)
  PROVE  Caught(m)'
<1>1. PostsInv /\ SocketInv /\ WireInv /\ TranscriptInv /\ ServerStep
  BY DEF ChatInv, ServerStep
<1>2. PICK a \in asked : /\ a.read /\ asked' = asked \ {a}
                         /\ wire' = Append(wire, [ev |-> "replay", room |-> a.room, ids |-> a.ids])
  BY DEF SendReplay
<1>3. PICK e : e = [ev |-> "replay", room |-> a.room, ids |-> a.ids]
  OBVIOUS
<1>4. e \in Events /\ e.ev = "replay" /\ e.ids = a.ids
  <2>1. a.room \in ChatRooms /\ a.ids \in SUBSET Messages
    BY <1>1, <1>2 DEF SocketInv
  <2> QED BY <1>3, <2>1 DEF Events
<1>5. /\ UNCHANGED <<post, text, socket, browser>> /\ wire' = Append(wire, e)
      /\ HomeOf[m] \in ChatRooms
  BY <1>2, <1>3, ChatAssumption DEF SendReplay, serverVars
<1>6. PICK v : v = <<e>>
  OBVIOUS
<1>7. v \in Seq(Events) /\ Elements(v) = {e} /\ wire \in Seq(Events) /\ wire' = wire \o v
  BY <1>1, <1>4, <1>5, <1>6, OneEvent, AppendIsConcat DEF WireInv
<1>8. Carried(m)' => Carried(m)
  BY <1>2 DEF Carried
<1>9. ASSUME socket'.join = "none", post'[m] = "none" \/ ~ToCome(HomeOf[m])'
      PROVE  Arrives(m)' \/ Carried(m)'
  <2>1. CASE m \in a.ids
    <3>1. post[m] = "sent"
      BY <1>2, <2>1 DEF Caught, Carried
    <3>2. PICK w : w = <<>>
      OBVIOUS
    <3>3. w \in Seq(Events) /\ Elements(w) = {} /\ Births(w, m) = 0
      <4>1. w \in Seq(Events) /\ Elements(w) = {}
        BY <3>2, EmptySeq DEF Elements
      <4> QED BY <4>1, OtherSaid
    <3>4. Started(m)'
      BY <3>1, <1>5 DEF Started, Allotted
    <3>5. Brings(w, m, 1, TRUE)'
      BY <3>3, <3>4 DEF Brings, Births, Count
    <3>6. v # <<>> /\ Head(v) = e /\ Tail(v) = w
      BY <1>6, <3>2
    <3>7. Overrides(Head(v), m)' /\ Brings(Tail(v), m, IF m \in Head(v).ids THEN 1 ELSE 0, TRUE)'
      BY <1>4, <2>1, <3>5, <3>6 DEF Overrides
    <3> QED BY <1>7, <3>6, <3>7 DEF Arrives
  <2>2. CASE m \notin a.ids
    <3>1. Carried(m)' <=> Carried(m)
      BY <1>2, <2>2 DEF Carried
    <3>2. \A c \in ChatRooms : ~Subscribe(c)
      BY <1>2 DEF Subscribe
    <3>3. post[m] = "none" \/ ~ToCome(HomeOf[m])
      BY <1>1, <1>5, <1>9, <3>2, ToComeStays
    <3>4. post[m] = "none" \/ HomeOf[m] \in socket.rooms
      BY <1>1, <1>5, <1>9, <3>3 DEF PostsInv, RoomsInv
    <3>5. Speaks(v)
      <4>1. Fresh(e)
        BY <1>2, <1>4 DEF Fresh
      <4> QED BY <4>1, <1>1, <1>4, <1>5, <1>7, OtherSpeaks
    <3>6. \A x \in Elements(v) : ~Overrides(x, m)
      BY <1>4, <1>7, <2>2 DEF Overrides
    <3>7. Arrives(m) => Arrives(m)'
      BY <1>1, <1>5, <3>4, <3>5, <3>6, ServerKeepsArrives
    <3> QED BY <1>5, <1>9, <3>1, <3>3, <3>7 DEF Caught
  <2> QED BY <2>1, <2>2
<1> QED BY <1>5, <1>8, <1>9 DEF Caught

(* Every step keeps every Message that is not let go. *)
LEMMA CaughtKept ==
  ASSUME ChatInv, RoomsInv, CaughtInv, [ChatNext]_chatVars PROVE CaughtInv'
<1>1. PostsInv /\ SocketInv /\ WireInv /\ TranscriptInv /\ browser \in Browsers
  BY DEF ChatInv, TranscriptInv
<1>2. CASE UNCHANGED chatVars
  <2>1. \A m : Caught(m)' <=> Caught(m)
    BY <1>2 DEF chatVars, Caught, Carried, ToCome, Announced, Arrives, Brings, Births, Copies, Count,
                Started, Allotted
  <2> QED BY <1>2, <2>1 DEF CaughtInv, Connected, chatVars
<1>3. CASE Disconnect
  BY <1>1, <1>3 DEF Disconnect, CaughtInv, Connected, Browsers
<1>4. CASE Connect
  <2>1. socket'.join = "asked" /\ asked' = {}
    BY <1>1, <1>4 DEF Connect, NewSocket, SocketInv
  <2> QED BY <2>1 DEF CaughtInv, Caught, Carried
<1>5. CASE ServerStep
  <2> SUFFICES ASSUME Connected', NEW m \in Messages \ raced', post'[m] # "spent" PROVE Caught(m)'
    BY DEF CaughtInv
  <2>1. Connected /\ post[m] # "spent"
    BY <1>1, <1>5, ServerMoves, PostGoesOn DEF Connected
  <2>2. m \notin raced
    BY <1>5 DEF ServerStep, PostMessage, StartTurn, Begin, Delta, EndTurn, FailTurn, Allocated, Write,
       Broadcast, Spawn, ReadLog, Subscribe, JoinSession, JoinRooms, SendHistory, SendReplay
  <2>3. Caught(m)
    BY <2>1, <2>2 DEF CaughtInv
  <2>4. CASE JoinSession
    <3>1. socket'.join = "reviving" /\ UNCHANGED <<post, asked>>
      BY <1>1, <2>4 DEF JoinSession, SocketInv, serverVars
    <3> QED BY <2>3, <3>1 DEF Caught, Carried
  <2>5. CASE JoinRooms
    <3>1. socket'.join = "reading" /\ socket'.unread = Exists /\ UNCHANGED <<post, asked>>
      BY <1>1, <2>5 DEF JoinRooms, SocketInv, serverVars
    <3> QED BY <1>1, <2>3, <3>1 DEF Caught, Carried, PostsInv
  <2>6. CASE SendHistory
    BY <2>3, <2>6, HistoryCaught
  <2>7. CASE SendReplay
    BY <2>1, <2>3, <2>7, ReplayCaught
  <2>8. CASE \E c \in ChatRooms : ReadLog(c) \/ Subscribe(c)
    BY <1>5, <2>1, <2>3, <2>8, ReadsCaught
  <2>9. CASE UNCHANGED <<socket, asked>>
    BY <1>5, <2>1, <2>3, <2>9, MessageStepCaught
  <2>10. \/ JoinSession \/ JoinRooms \/ SendHistory \/ SendReplay
         \/ \E c \in ChatRooms : ReadLog(c) \/ Subscribe(c)
         \/ UNCHANGED <<socket, asked>>
    BY <1>5 DEF ServerStep, PostMessage, StartTurn, Delta, EndTurn, FailTurn, Allocated, Write,
       Broadcast, Spawn
  <2> QED BY <2>4, <2>5, <2>6, <2>7, <2>8, <2>9, <2>10
<1>6. CASE Handle
  <2> SUFFICES ASSUME NEW m \in Messages \ raced', post'[m] # "spent" PROVE Caught(m)'
    BY DEF CaughtInv
  <2>1. Connected
    BY <1>1, <1>6 DEF Handle, Connected, SocketInv
  <2>2. m \notin raced /\ UNCHANGED <<post, socket>>
    BY <1>6 DEF Handle, serverVars
  <2>3. Caught(m)
    BY <2>1, <2>2 DEF CaughtInv
  <2>4. Carried(m)' <=> Carried(m)
    <3>1. PICK r : r = [room |-> Head(wire).room, read |-> FALSE]
      OBVIOUS
    <3>2. ~r.read /\ asked' \in {asked, asked \cup {r}}
      BY <1>6, <3>1 DEF Handle
    <3> QED BY <3>2 DEF Carried
  <2>5. ToCome(HomeOf[m]) => ToCome(HomeOf[m])'
    BY <1>1, <1>6, ChatAssumption, ToComeNext
  <2>6. Arrives(m) => Arrives(m)'
    BY <1>1, <1>6, HandleKeepsArrives
  <2> QED BY <2>2, <2>3, <2>4, <2>5, <2>6 DEF Caught
<1>7. UNCHANGED chatVars \/ ServerStep \/ Connect \/ Disconnect \/ Handle
  BY DEF ChatNext, ServerStep
<1> QED BY <1>2, <1>3, <1>4, <1>5, <1>6, <1>7

(* A browser that has caught up shows every Message of its rooms exactly once, whichever   *)
(* history, replay or broadcast brought it, but for those under way after its file was     *)
(* read and before that was sent (handleChatJoin, handleConversationSubscribe,             *)
(* SessionChatRoom).                                                                       *)
THEOREM AlwaysCatchesUp == ChatSpec => []CaughtUp
<1>1. ChatInit => RoomsInv /\ CaughtInv
  BY DEF ChatInit, NewBrowser, RoomsInv, CaughtInv, Connected
<1>2. ASSUME ChatInv, CaughtInv PROVE CaughtUp
  <2> SUFFICES ASSUME Quiet, NEW m \in Messages, post[m] = "sent", m \notin raced PROVE ShowsOnce(m)
    BY DEF CaughtUp
  <2>1. Connected /\ wire = <<>> /\ socket.join = "none" /\ asked = {}
    BY DEF Quiet, Connected
  <2>2. Caught(m) /\ ~ToCome(HomeOf[m]) /\ ~Carried(m)
    BY <1>2, <2>1 DEF CaughtInv, ToCome, Announced, Carried
  <2>3. PICK b : b = browser.buckets[HomeOf[m]]
    OBVIOUS
  <2>4. b \in Seq(Shown)
    BY <1>2, <2>3, ChatAssumption DEF ChatInv, TranscriptInv, Reads
  <2>5. PICK S : S = {e \in Shown : e.id = m}
    OBVIOUS
  <2>6. IsFiniteSet(At(b, S)) /\ Count(b, S) \in Nat /\ Count(b, S) = Cardinality(At(b, S))
    BY <2>4, CountIs
  <2>7. /\ Births(wire, m) + Copies(b, m) = (IF Started(m) THEN 1 ELSE 0) /\ Births(wire, m) = 0
        /\ m \in Streams => AllWhole(b, m)
    <3>1. PICK w : w = <<>>
      OBVIOUS
    <3>2. w \in Seq(Events) /\ Elements(w) = {} /\ Births(w, m) = 0
      <4>1. w \in Seq(Events) /\ Elements(w) = {}
        BY <3>1, EmptySeq DEF Elements
      <4> QED BY <4>1, OtherSaid
    <3>3. Arrives(m)
      BY <2>1, <2>2 DEF Caught
    <3>4. \A u, v \in Seq(Events) : wire = u \o v => v = <<>>
      BY <2>1, ConcatEqualIffEmpty
    <3>5. Brings(wire, m, Copies(b, m), AllWhole(b, m))
      BY <2>3, <3>3, <3>4 DEF Arrives
    <3> QED BY <2>1, <3>1, <3>2, <3>5 DEF Brings
  <2>8. Started(m)
    BY DEF Started, Allotted
  <2>9. Copies(b, m) = 1
    <3>1. Copies(b, m) \in Nat
      BY <2>5, <2>6 DEF Copies
    <3> QED BY <3>1, <2>7, <2>8
  <2>10. At(b, S) = EntriesOf(m)
    BY <2>3, <2>4, <2>5 DEF At, EntriesOf
  <2>11. Cardinality(EntriesOf(m)) = 1
    BY <2>5, <2>6, <2>9, <2>10 DEF Copies
  <2>12. EntriesOf(m) # {}
    BY <2>11, FS_EmptySet
  <2>13. PICK i \in DOMAIN b : b[i].id = m
    BY <2>3, <2>12 DEF EntriesOf
  <2>14. b[i].text = Whole
    <3>1. CASE m \in Streams
      BY <3>1, <2>7, <2>13 DEF AllWhole, Elements
    <3>3. CASE m \notin Streams
      <4>1. Entry(b[i], HomeOf[m])
        BY <1>2, <2>3, <2>13, ChatAssumption DEF ChatInv, TranscriptInv, Reads, Elements
      <4> QED BY <3>3, <4>1, <2>13 DEF Entry
    <3> QED BY <3>1, <3>3
  <2>15. m \in ShownWhole
    BY <2>3, <2>13, <2>14 DEF ShownWhole, EntriesOf
  <2> QED BY <2>11, <2>15 DEF ShowsOnce
<1>3. ChatInv /\ RoomsInv /\ CaughtInv /\ [ChatNext]_chatVars => ChatInv' /\ RoomsInv' /\ CaughtInv'
  BY ChatInvKept, RoomsKept, CaughtKept
<1> QED BY <1>1, <1>2, <1>3, ChatInvInitially, PTL DEF ChatSpec

-----------------------------------------------------------------------------
(* Windows *)

Desks ==
  [up : BOOLEAN, state : [Windows -> WindowStates],
   before : [Windows -> (WindowStates \cup {"none"}) \ {"closed"}],
   dock : [Windows -> Sides \cup {"none"}], order : [Sides -> Seq(Windows)],
   collapsed : [Sides -> BOOLEAN], unsaved : BOOLEAN]

Layouts ==
  [saved : BOOLEAN, known : SUBSET Windows, minimized : SUBSET Windows,
   hidden : SUBSET Windows, dock : [Windows -> Sides \cup {"none"}],
   order : [Sides -> Seq(Windows)], collapsed : [Sides -> BOOLEAN]]

\* What is docked where, and no state a floating window is not drawn in: what it
\* would be restored to is minimized only while it is maximized or hidden, and
\* then it has no handle to be dragged out by.
Placed(d) ==
  /\ \A s \in Sides :
       /\ IsInjective(d.order[s])
       /\ ToSet(d.order[s]) = {w \in Windows : d.state[w] # "closed" /\ d.dock[w] = s}
  /\ \A w \in Windows :
       /\ d.dock[w] = "none" => d.state[w] # "minimized" /\ d.before[w] # "minimized"
       /\ d.before[w] = "minimized" => d.state[w] \in {"maximized", "hidden"}

\* A layout lists a window on one side at most, the one it is known to be docked on,
\* and says of the desk it was saved from what ReloadKeepsDesk asks for.
LayoutTells ==
  /\ \A s \in Sides :
       /\ IsInjective(layout.order[s])
       /\ \A w \in ToSet(layout.order[s]) : w \in layout.known /\ layout.dock[w] = s
  /\ layout.saved =>
       /\ Placed(shown) /\ layout.order = shown.order /\ layout.collapsed = shown.collapsed
       /\ \A w \in Windows :
            shown.state[w] # "closed" =>
              /\ w \in layout.known /\ layout.dock[w] = shown.dock[w]
              /\ w \in layout.minimized <=> shown.state[w] = "minimized"
              /\ w \in layout.hidden <=> shown.state[w] = "hidden"

DesksPlaced ==
  \A p \in Pages : /\ desk[p].up => Placed(desk[p])
                   /\ ~desk[p].up => desk[p] = Bare

DeskInv ==
  /\ desk \in [Pages -> Desks] /\ shown \in Desks
  /\ layout \in Layouts /\ moves \in 0 .. MaxMoves
  /\ DesksPlaced /\ LayoutTells

(* A page that is not there is a desk like another. *)
LEMMA BareIsADesk == Bare \in Desks /\ Bare.up = FALSE
<1>1. <<>> \in Seq(Windows)
  BY EmptySeq
<1> QED BY <1>1 DEF Bare, Desks, WindowStates, Sides

(* The fields of a desk have the types of Desks. *)
LEMMA DeskFields ==
  ASSUME NEW d \in Desks
  PROVE  /\ d.up \in BOOLEAN /\ d.state \in [Windows -> WindowStates]
         /\ d.before \in [Windows -> (WindowStates \cup {"none"}) \ {"closed"}]
         /\ d.dock \in [Windows -> Sides \cup {"none"}]
         /\ d.order \in [Sides -> Seq(Windows)]
         /\ d.collapsed \in [Sides -> BOOLEAN] /\ d.unsaved \in BOOLEAN
BY DEF Desks

(* The same of a layout. *)
LEMMA LayoutFields ==
  ASSUME NEW l \in Layouts
  PROVE  /\ l.saved \in BOOLEAN /\ l.known \in SUBSET Windows
         /\ l.minimized \in SUBSET Windows /\ l.hidden \in SUBSET Windows
         /\ l.dock \in [Windows -> Sides \cup {"none"}]
         /\ l.order \in [Sides -> Seq(Windows)] /\ l.collapsed \in [Sides -> BOOLEAN]
BY DEF Layouts

(* The invariant holds of a browser that has opened no page. *)
LEMMA DeskInvInitially == DeskInit => DeskInv
<1> SUFFICES ASSUME DeskInit PROVE DeskInv
  OBVIOUS
<1>1. desk = [p \in Pages |-> Bare] /\ shown = Bare /\ layout = NoLayout /\ moves = 0
  BY DEF DeskInit
<1>2. desk \in [Pages -> Desks] /\ shown \in Desks /\ DesksPlaced
  BY <1>1, BareIsADesk DEF DesksPlaced
<1>3. NoLayout \in Layouts
  <2>1. NoLayout.dock = Bare.dock /\ NoLayout.order = Bare.order
        /\ NoLayout.collapsed = Bare.collapsed
    BY DEF NoLayout
  <2> QED BY <2>1, BareIsADesk, DeskFields DEF NoLayout, Layouts
<1>4. LayoutTells
  <2>1. layout.saved = FALSE /\ layout.order = [s \in Sides |-> <<>>]
    BY <1>1 DEF NoLayout, Bare
  <2>2. ToSet(<<>>) = {} /\ IsInjective(<<>>)
    BY EmptySeq DEF ToSet, IsInjective
  <2> QED BY <2>1, <2>2 DEF LayoutTells
<1> QED BY <1>1, <1>2, <1>3, <1>4, DeskAssumption DEF DeskInv

-----------------------------------------------------------------------------
(* The orders of the dock areas *)

(* To take a window out of an order is to take it from the set listed. *)
LEMMA TakenOut ==
  ASSUME NEW s \in Seq(Windows), IsInjective(s), NEW w \in Windows
  PROVE  /\ Without(s, {w}) \in Seq(Windows) /\ IsInjective(Without(s, {w}))
         /\ ToSet(Without(s, {w})) = ToSet(s) \ {w}
         /\ w \notin ToSet(s) => Without(s, {w}) = s
<1>1. Without(s, {w}) = Only(s, Elements(s) \ {w}) /\ Distinct(s)
  BY DEF Without, Elements, Distinct, IsInjective
<1>2. Distinct(Without(s, {w}))
  BY <1>1, OnlyDistinct
<1>3. Without(s, {w}) \in Seq(Windows) /\ Elements(Without(s, {w})) = Elements(s) \ {w}
  BY WithoutFacts
<1>4. w \notin Elements(s) => Without(s, {w}) = s
  BY <1>1, OnlyOfAll
<1> QED BY <1>2, <1>3, <1>4 DEF Distinct, IsInjective, Elements, ToSet

(* A window is contained in an order when it is in the set listed. *)
LEMMA ContainsIs ==
  ASSUME NEW s \in Seq(Windows), NEW w PROVE Contains(s, w) <=> w \in ToSet(s)
BY DEF Contains, ToSet

(* removeFromDockAreaOrder: of a window one side lists at most, no side is left. *)
LEMMA UndockedIs ==
  ASSUME NEW order \in [Sides -> Seq(Windows)], \A s \in Sides : IsInjective(order[s]),
         NEW w \in Windows, ~(w \in ToSet(order["left"]) /\ w \in ToSet(order["right"]))
  PROVE  /\ Undocked(order, w) \in [Sides -> Seq(Windows)]
         /\ \A s \in Sides : /\ IsInjective(Undocked(order, w)[s])
                             /\ ToSet(Undocked(order, w)[s]) = ToSet(order[s]) \ {w}
<1>1. \A s \in Sides :
        /\ Without(order[s], {w}) \in Seq(Windows) /\ IsInjective(Without(order[s], {w}))
        /\ ToSet(Without(order[s], {w})) = ToSet(order[s]) \ {w}
        /\ w \notin ToSet(order[s]) => Without(order[s], {w}) = order[s]
  BY TakenOut
<1>2. Undocked(order, w) = [s \in Sides |-> Without(order[s], {w})]
  <2>1. CASE w \in ToSet(order["left"])
    <3>1. Undocked(order, w) = [order EXCEPT !["left"] = Without(@, {w})]
      BY <2>1, ContainsIs DEF Undocked, Sides
    <3>2. Without(order["right"], {w}) = order["right"]
      BY <2>1, <1>1 DEF Sides
    <3> QED BY <3>1, <3>2 DEF Sides
  <2>2. CASE w \notin ToSet(order["left"])
    <3>1. Undocked(order, w) = [order EXCEPT !["right"] = Without(@, {w})]
      BY <2>2, ContainsIs DEF Undocked, Sides
    <3>2. Without(order["left"], {w}) = order["left"]
      BY <2>2, <1>1 DEF Sides
    <3> QED BY <3>1, <3>2 DEF Sides
  <2> QED BY <2>1, <2>2
<1> QED BY <1>1, <1>2

(* A window is listed behind the others, unless it is listed. *)
LEMMA RegisteredIs ==
  ASSUME NEW order \in [Sides -> Seq(Windows)], \A s \in Sides : IsInjective(order[s]),
         NEW side \in Sides \cup {"none"}, NEW w \in Windows
  PROVE  /\ Registered(order, side, w) \in [Sides -> Seq(Windows)]
         /\ \A s \in Sides :
              /\ IsInjective(Registered(order, side, w)[s])
              /\ ToSet(Registered(order, side, w)[s])
                   = IF s = side THEN ToSet(order[s]) \cup {w} ELSE ToSet(order[s])
              /\ \/ Registered(order, side, w)[s] = order[s]
                 \/ Registered(order, side, w)[s] = Append(order[s], w)
<1>1. CASE side = "none" \/ Contains(order[side], w)
  <2>1. Registered(order, side, w) = order
    BY <1>1 DEF Registered
  <2>2. side \in Sides => w \in ToSet(order[side])
    BY <1>1, ContainsIs DEF Sides
  <2> QED BY <2>1, <2>2
<1>2. CASE ~(side = "none" \/ Contains(order[side], w))
  <2>1. /\ Registered(order, side, w) = [order EXCEPT ![side] = Append(@, w)]
        /\ side \in Sides /\ w \notin ToSet(order[side])
    BY <1>2, ContainsIs DEF Registered
  <2> DEFINE s == order[side]
  <2>2. s \in Seq(Windows) /\ IsInjective(s) /\ w \notin ToSet(s)
    BY <2>1
  <2> HIDE DEF s
  <2>3. Append(s, w) \in Seq(Windows) /\ Elements(Append(s, w)) = Elements(s) \cup {w}
    BY <2>2, ElementsOfAppend
  <2>4. IsInjective(Append(s, w))
    <3>1. \A i \in DOMAIN s : s[i] # w
      BY <2>2 DEF ToSet
    <3> QED BY <2>2, <3>1 DEF IsInjective
  <2>5. ToSet(Append(s, w)) = ToSet(s) \cup {w}
    BY <2>3 DEF ToSet, Elements
  <2> QED BY <2>1, <2>3, <2>4, <2>5 DEF s
<1> QED BY <1>1, <1>2

(* A window dropped between two others is listed there. *)
LEMMA InsertAtIs ==
  ASSUME NEW s \in Seq(Windows), IsInjective(s), NEW w \in Windows, w \notin ToSet(s),
         NEW i \in 0 .. Len(s)
  PROVE  /\ InsertAt(s, i + 1, w) \in Seq(Windows) /\ IsInjective(InsertAt(s, i + 1, w))
         /\ ToSet(InsertAt(s, i + 1, w)) = ToSet(s) \cup {w}
<1> DEFINE a == SubSeq(s, 1, i)
           b == SubSeq(s, i + 1, Len(s))
           n == Len(s)
           t == InsertAt(s, i + 1, w)
<1>1. /\ n \in Nat /\ i \in Nat /\ i <= n /\ DOMAIN s = 1 .. n
      /\ \A j \in 1 .. n : s[j] \in Windows /\ s[j] # w
  BY DEF ToSet
<1>2. a \in Seq(Windows) /\ Len(a) = i /\ \A j \in 1 .. i : a[j] = s[j]
  <2>1. \A j \in 1 .. i : s[j] \in Windows
    BY <1>1
  <2> QED BY <1>1, <2>1
<1>3. b \in Seq(Windows) /\ Len(b) = n - i /\ \A j \in 1 .. n - i : b[j] = s[i + j]
  <2>1. \A j \in i + 1 .. n : s[j] \in Windows
    BY <1>1
  <2>2. b = [j \in 1 .. n - i |-> s[i + j]]
    BY <1>1
  <2>3. \A j \in 1 .. n - i : i + j \in 1 .. n
    BY <1>1
  <2>4. n - i \in Nat
    BY <1>1
  <2> DEFINE m == n - i
  <2>5. m \in Nat /\ b = [j \in 1 .. m |-> s[i + j]] /\ \A j \in 1 .. m : s[i + j] \in Windows
    BY <1>1, <2>2, <2>3, <2>4
  <2> HIDE DEF m, b
  <2> QED BY <2>5 DEF m
<1>4. t = (a \o <<w>>) \o b
  <2>1. (i + 1) - 1 = i
    BY <1>1
  <2> QED BY <2>1 DEF InsertAt
<1> HIDE DEF a, b, t
<1>5. a \o <<w>> = Append(a, w) /\ Append(a, w) \in Seq(Windows) /\ Len(Append(a, w)) = i + 1
      /\ Append(a, w)[i + 1] = w /\ \A j \in 1 .. i : Append(a, w)[j] = s[j]
  <2>1. a \o <<w>> = Append(a, w)
    BY <1>2, AppendIsConcat
  <2> QED BY <1>2, <2>1
<1>6. t \in Seq(Windows) /\ Len(t) = n + 1
      /\ \A j \in 1 .. n + 1 :
           t[j] = IF j <= i + 1 THEN Append(a, w)[j] ELSE b[j - (i + 1)]
  <2>1. Len(Append(a, w)) + Len(b) = n + 1
    BY <1>1, <1>3, <1>5
  <2>2. Append(a, w) \in Seq(Windows) /\ b \in Seq(Windows) /\ Len(Append(a, w)) = i + 1
    BY <1>3, <1>5
  <2> DEFINE c == Append(a, w)
  <2> HIDE DEF c
  <2>3. t = c \o b
    BY <1>4, <1>5 DEF c
  <2>4. /\ c \o b \in Seq(Windows) /\ Len(c \o b) = Len(c) + Len(b)
        /\ \A j \in 1 .. Len(c) + Len(b) :
             (c \o b)[j] = IF j <= Len(c) THEN c[j] ELSE b[j - Len(c)]
    BY <2>2, ConcatProperties DEF c
  <2> QED BY <2>1, <2>2, <2>3, <2>4 DEF c
<1>7. \A j \in 1 .. n + 1 :
        t[j] = IF j <= i THEN s[j] ELSE IF j = i + 1 THEN w ELSE s[j - 1]
  <2> SUFFICES ASSUME NEW j \in 1 .. n + 1
               PROVE  t[j] = IF j <= i THEN s[j] ELSE IF j = i + 1 THEN w ELSE s[j - 1]
    OBVIOUS
  <2>1. CASE j <= i
    BY <2>1, <1>1, <1>5, <1>6
  <2>2. CASE j = i + 1
    BY <2>2, <1>1, <1>5, <1>6
  <2>3. CASE j > i + 1
    <3>1. j - (i + 1) \in 1 .. n - i /\ i + (j - (i + 1)) = j - 1 /\ ~(j <= i + 1)
      BY <2>3, <1>1
    <3>2. t[j] = b[j - (i + 1)]
      BY <3>1, <1>6
    <3>3. b[j - (i + 1)] = s[j - 1] /\ ~(j <= i) /\ j # i + 1
      BY <3>1, <2>3, <1>1, <1>3
    <3> QED BY <3>2, <3>3
  <2> QED BY <1>1, <2>1, <2>2, <2>3
<1> HIDE DEF n
<1>8. DOMAIN t = 1 .. n + 1
  BY <1>6
<1>9. ASSUME NEW j \in 1 .. n + 1, NEW k \in 1 .. n + 1, t[j] = t[k] PROVE j = k
  <2>1. \A x, y \in 1 .. n : s[x] = s[y] => x = y
    BY <1>1 DEF IsInjective
  <2> DEFINE Old(x) == IF x <= i THEN x ELSE x - 1
  <2>2. \A x \in 1 .. n + 1 : x # i + 1 => Old(x) \in 1 .. n /\ t[x] = s[Old(x)]
    BY <1>1, <1>7
  <2>3. t[i + 1] = w /\ i + 1 \in 1 .. n + 1
    BY <1>1, <1>7
  <2> HIDE DEF Old
  <2>4. CASE j = i + 1 \/ k = i + 1
    <3>1. \A x \in 1 .. n + 1 : x # i + 1 => t[x] # w
      BY <2>2, <1>1
    <3> QED BY <2>3, <2>4, <3>1, <1>9
  <2>5. CASE j # i + 1 /\ k # i + 1
    <3>1. Old(j) = Old(k)
      BY <2>1, <2>2, <2>5, <1>9
    <3> QED BY <3>1, <2>5, <1>1 DEF Old
  <2> QED BY <2>4, <2>5
<1>10. ToSet(t) = ToSet(s) \cup {w}
  <2>1. ASSUME NEW j \in 1 .. n + 1 PROVE t[j] \in ToSet(s) \cup {w}
    <3>1. (j <= i => j \in 1 .. n) /\ (~(j <= i) /\ j # i + 1 => j - 1 \in 1 .. n)
      BY <1>1
    <3> QED BY <3>1, <1>1, <1>7 DEF ToSet
  <2>2. ASSUME NEW j \in 1 .. n PROVE s[j] \in ToSet(t)
    <3>1. CASE j <= i
      <4>1. j \in 1 .. n + 1 /\ t[j] = s[j]
        BY <3>1, <1>1, <1>7
      <4> QED BY <4>1, <1>8 DEF ToSet
    <3>2. CASE ~(j <= i)
      <4>1. j + 1 \in 1 .. n + 1 /\ ~(j + 1 <= i) /\ j + 1 # i + 1 /\ (j + 1) - 1 = j
        BY <3>2, <1>1
      <4>2. t[j + 1] = s[j]
        BY <4>1, <1>7
      <4> QED BY <4>1, <4>2, <1>8 DEF ToSet
    <3> QED BY <3>1, <3>2
  <2>3. w \in ToSet(t)
    <3>1. i + 1 \in 1 .. n + 1 /\ ~(i + 1 <= i)
      BY <1>1
    <3> QED BY <3>1, <1>7, <1>8 DEF ToSet
  <2>4. ToSet(t) = {t[j] : j \in 1 .. n + 1} /\ ToSet(s) = {s[j] : j \in 1 .. n}
    BY <1>1, <1>8 DEF ToSet
  <2> QED BY <2>1, <2>2, <2>3, <2>4
<1> QED BY <1>6, <1>8, <1>9, <1>10 DEF IsInjective, t

-----------------------------------------------------------------------------
(* The windows a page opens *)

(* Where a window starts, and how: what is minimized is docked. *)
LEMMA StartFacts ==
  ASSUME layout \in Layouts, NEW w \in Windows
  PROVE  /\ StartDock(w) \in Sides \cup {"none"}
         /\ StartState(w) \in {"hidden", "minimized", "normal"}
         /\ StartState(w) = "minimized" => StartDock(w) # "none"
<1>1. StartDock(w) \in Sides \cup {"none"}
  BY LayoutFields, DeskAssumption DEF StartDock
<1>2. StartState(w) = IF StartsHidden(w) THEN "hidden"
                      ELSE IF w \in layout.minimized /\ StartDock(w) # "none" THEN "minimized"
                      ELSE "normal"
  BY DEF StartState
<1> QED BY <1>1, <1>2

\* The state a window would be restored to when it was just opened.
StartBefore(w) == IF StartState(w) = "normal" THEN "none" ELSE "normal"

(* What it is to open one. *)
LEMMA OpenedIs ==
  ASSUME layout \in Layouts, NEW d \in Desks, \A s \in Sides : IsInjective(d.order[s]),
         NEW w \in Windows, NEW z, z = Opened(d, w)
  PROVE  /\ z \in Desks /\ z.up = d.up /\ z.collapsed = d.collapsed
         /\ z.state = [d.state EXCEPT ![w] = StartState(w)]
         /\ z.before = [d.before EXCEPT ![w] = StartBefore(w)]
         /\ z.dock = [d.dock EXCEPT ![w] = StartDock(w)]
         /\ z.order = Registered(d.order, StartDock(w), w)
<1>1. z = [d EXCEPT !.state[w] = StartState(w), !.before[w] = StartBefore(w),
                    !.dock[w] = StartDock(w), !.order = Registered(@, StartDock(w), w)]
  BY DEF Opened, StartBefore
<1> DEFINE state == [d.state EXCEPT ![w] = StartState(w)]
           before == [d.before EXCEPT ![w] = StartBefore(w)]
           dock == [d.dock EXCEPT ![w] = StartDock(w)]
           order == Registered(d.order, StartDock(w), w)
<1>2. z = [d EXCEPT !.state = state, !.before = before, !.dock = dock, !.order = order]
  BY <1>1 DEF Desks
<1>3. /\ state \in [Windows -> WindowStates]
      /\ before \in [Windows -> (WindowStates \cup {"none"}) \ {"closed"}]
      /\ dock \in [Windows -> Sides \cup {"none"}]
  BY DeskFields, StartFacts DEF WindowStates, StartBefore
<1>4. order \in [Sides -> Seq(Windows)]
  BY DeskFields, StartFacts, RegisteredIs
<1> HIDE DEF state, before, dock, order
<1>5. /\ z \in Desks /\ z.up = d.up /\ z.collapsed = d.collapsed
      /\ z.state = state /\ z.before = before /\ z.dock = dock /\ z.order = order
  BY <1>2, <1>3, <1>4 DEF Desks
<1> QED BY <1>5 DEF state, before, dock, order

\* The desk at every stage, when the first n windows of StartOrder are opened on d.
Opening(d, n, f) ==
  f = [m \in 0 .. n |-> IF m = 0 THEN d ELSE Opened(f[m - 1], StartOrder[m])]

(* There is such a function, however many windows. *)
LEMMA OpeningExists ==
  ASSUME NEW d
  PROVE  \A n \in Nat : \E f : Opening(d, n, f)
<1> DEFINE N == {n \in Nat : \E f : Opening(d, n, f)}
<1>1. 0 \in N
  <2> SUFFICES ASSUME NEW n \in Nat, n = 0 PROVE n \in N
    OBVIOUS
  <2> DEFINE g == [m \in 0 .. n |-> IF m = 0 THEN d ELSE Opened(d, StartOrder[m])]
  <2>1. \A m \in 0 .. n : g[m] = IF m = 0 THEN d ELSE Opened(g[m - 1], StartOrder[m])
    OBVIOUS
  <2>2. g = [m \in 0 .. n |-> g[m]]
    OBVIOUS
  <2> HIDE DEF g
  <2>3. Opening(d, n, g)
    BY <2>1, <2>2 DEF Opening
  <2> QED BY <2>3
<1>2. ASSUME NEW n \in Nat, n \in N PROVE n + 1 \in N
  <2>1. PICK f : Opening(d, n, f)
    BY <1>2
  <2> DEFINE g == [m \in 0 .. n + 1 |->
                     IF m = n + 1 THEN Opened(f[n], StartOrder[m]) ELSE f[m]]
  <2>2. \A m \in 0 .. n + 1 : g[m] = IF m = 0 THEN d ELSE Opened(g[m - 1], StartOrder[m])
    <3> SUFFICES ASSUME NEW m \in 0 .. n + 1
                 PROVE  g[m] = IF m = 0 THEN d ELSE Opened(g[m - 1], StartOrder[m])
      OBVIOUS
    <3>1. CASE m = n + 1
      <4>1. m # 0 /\ m - 1 = n /\ n \in 0 .. n + 1 /\ n # n + 1
        BY <3>1
      <4>2. g[m] = Opened(f[n], StartOrder[m]) /\ g[n] = f[n]
        BY <3>1, <4>1
      <4> QED BY <4>1, <4>2
    <3>2. CASE m # n + 1
      <4>1. m \in 0 .. n /\ (m # 0 => m - 1 \in 0 .. n /\ m - 1 \in 0 .. n + 1 /\ m - 1 # n + 1)
        BY <3>2
      <4>2. g[m] = f[m] /\ (m # 0 => g[m - 1] = f[m - 1])
        BY <3>2, <4>1
      <4>3. f[m] = IF m = 0 THEN d ELSE Opened(f[m - 1], StartOrder[m])
        BY <2>1, <4>1 DEF Opening
      <4> QED BY <4>2, <4>3
    <3> QED BY <3>1, <3>2
  <2>3. g = [m \in 0 .. n + 1 |-> g[m]]
    OBVIOUS
  <2> HIDE DEF g
  <2>4. Opening(d, n + 1, g)
    BY <2>2, <2>3 DEF Opening
  <2> QED BY <2>4
<1>3. Nat \subseteq N
  <2> HIDE DEF N
  <2> QED BY <1>1, <1>2, NumbersFrom
<1> QED BY <1>3

(* And the page is the last of them. *)
LEMMA AllOpenedIs ==
  ASSUME NEW d
  PROVE  \E f : Opening(d, Len(StartOrder), f) /\ AllOpened(d) = f[Len(StartOrder)]
<1> DEFINE n == Len(StartOrder)
           page == CHOOSE f : f = [m \in 0 .. n |->
                       IF m = 0 THEN d ELSE Opened(f[m - 1], StartOrder[m])]
<1>1. AllOpened(d) = page[n]
  BY DEF AllOpened
<1>2. Opening(d, n, page)
  <2>1. n \in Nat
    BY DeskAssumption
  <2>2. \E f : Opening(d, n, f)
    BY <2>1, OpeningExists
  <2> QED BY <2>2 DEF Opening
<1> QED BY <1>1, <1>2

\* The windows a page opens first.
First(n) == {StartOrder[i] : i \in 1 .. n}

\* A page of which the first n are open, the others not yet: behind what was saved
\* of a side are those of them that start there.
OpenSoFar(z, n) ==
  /\ z \in Desks /\ z.up /\ z.collapsed = layout.collapsed
  /\ \A w \in First(n) :
       z.state[w] = StartState(w) /\ z.before[w] = StartBefore(w) /\ z.dock[w] = StartDock(w)
  /\ \A w \in Windows \ First(n) : z.dock[w] = "none" /\ z.before[w] = "none"
  /\ \A s \in Sides :
       /\ IsInjective(z.order[s]) /\ IsPrefix(layout.order[s], z.order[s])
       /\ ToSet(z.order[s]) = ToSet(layout.order[s]) \cup {w \in First(n) : StartDock(w) = s}

(* What is extended behind a prefix has it for a prefix. *)
LEMMA PrefixOfAppend ==
  ASSUME NEW s \in Seq(Windows), NEW t \in Seq(Windows), NEW w \in Windows
  PROVE  /\ IsPrefix(s, t) <=> Len(s) <= Len(t) /\ \A i \in 1 .. Len(s) : s[i] = t[i]
         /\ IsPrefix(s, t) => IsPrefix(s, Append(t, w))
<1>1. ASSUME NEW u \in Seq(Windows)
      PROVE  IsPrefix(s, u) <=> Len(s) <= Len(u) /\ \A i \in 1 .. Len(s) : s[i] = u[i]
  <2>1. CASE Len(s) <= Len(u)
    <3>1. /\ SubSeq(s, 1, Len(s)) = [i \in 1 .. Len(s) |-> s[i]]
          /\ SubSeq(u, 1, Len(s)) = [i \in 1 .. Len(s) |-> u[i]]
      BY <2>1
    <3> QED BY <2>1, <3>1 DEF IsPrefix
  <2>2. CASE ~(Len(s) <= Len(u))
    BY <2>2 DEF IsPrefix
  <2> QED BY <2>1, <2>2
<1>2. Append(t, w) \in Seq(Windows) /\ Len(Append(t, w)) = Len(t) + 1
      /\ \A i \in 1 .. Len(t) : Append(t, w)[i] = t[i]
  OBVIOUS
<1>3. ASSUME IsPrefix(s, t) PROVE IsPrefix(s, Append(t, w))
  <2>1. Len(s) <= Len(t) /\ \A i \in 1 .. Len(s) : s[i] = t[i]
    BY <1>1, <1>3
  <2>2. Len(s) <= Len(t) + 1 /\ \A i \in 1 .. Len(s) : i \in 1 .. Len(t)
    BY <2>1
  <2>3. Len(s) <= Len(Append(t, w)) /\ \A i \in 1 .. Len(s) : s[i] = Append(t, w)[i]
    BY <1>2, <2>1, <2>2
  <2> QED BY <1>1, <1>2, <2>3
<1> QED BY <1>1, <1>3

(* One more is opened. *)
LEMMA OpenSoFarOneMore ==
  ASSUME layout \in Layouts, NEW n \in Nat, n + 1 <= Len(StartOrder), NEW z, OpenSoFar(z, n)
  PROVE  OpenSoFar(Opened(z, StartOrder[n + 1]), n + 1)
<1> DEFINE w == StartOrder[n + 1]
           y == Opened(z, w)
<1>1. w \in Windows /\ First(n + 1) = First(n) \cup {w} /\ First(n) \subseteq Windows
  <2>1. n + 1 \in 1 .. Len(StartOrder) /\ 1 .. n + 1 = (1 .. n) \cup {n + 1}
        /\ 1 .. n \subseteq 1 .. Len(StartOrder)
    BY DeskAssumption
  <2>2. \A i \in 1 .. Len(StartOrder) : StartOrder[i] \in Windows
    BY DeskAssumption
  <2> QED BY <2>1, <2>2 DEF First
<1> HIDE DEF w, y
<1>2. z \in Desks /\ \A s \in Sides : IsInjective(z.order[s])
  BY DEF OpenSoFar
<1>3. /\ y \in Desks /\ y.up = z.up /\ y.collapsed = z.collapsed
      /\ y.state = [z.state EXCEPT ![w] = StartState(w)]
      /\ y.before = [z.before EXCEPT ![w] = StartBefore(w)]
      /\ y.dock = [z.dock EXCEPT ![w] = StartDock(w)]
      /\ y.order = Registered(z.order, StartDock(w), w)
  BY <1>1, <1>2, OpenedIs DEF y
<1>4. /\ \A v \in First(n + 1) :
           y.state[v] = StartState(v) /\ y.before[v] = StartBefore(v) /\ y.dock[v] = StartDock(v)
      /\ \A v \in Windows \ First(n + 1) : y.dock[v] = "none" /\ y.before[v] = "none"
  <2>1. /\ z.state \in [Windows -> WindowStates] /\ DOMAIN z.before = Windows
        /\ DOMAIN z.dock = Windows
    BY <1>2, DeskFields
  <2>2. \A v \in Windows :
          /\ y.state[v] = IF v = w THEN StartState(w) ELSE z.state[v]
          /\ y.before[v] = IF v = w THEN StartBefore(w) ELSE z.before[v]
          /\ y.dock[v] = IF v = w THEN StartDock(w) ELSE z.dock[v]
    BY <1>1, <1>3, <2>1
  <2> QED BY <1>1, <2>2 DEF OpenSoFar
<1>5. ASSUME NEW s \in Sides
      PROVE  /\ IsInjective(y.order[s]) /\ IsPrefix(layout.order[s], y.order[s])
             /\ ToSet(y.order[s])
                  = ToSet(layout.order[s]) \cup {v \in First(n + 1) : StartDock(v) = s}
  <2>1. /\ IsInjective(y.order[s])
        /\ ToSet(y.order[s]) = IF s = StartDock(w) THEN ToSet(z.order[s]) \cup {w}
                               ELSE ToSet(z.order[s])
        /\ y.order[s] = z.order[s] \/ y.order[s] = Append(z.order[s], w)
    <3>1. z.order \in [Sides -> Seq(Windows)] /\ StartDock(w) \in Sides \cup {"none"}
      BY <1>1, <1>2, DeskFields, StartFacts
    <3> DEFINE order == z.order
               side == StartDock(w)
    <3>2. order \in [Sides -> Seq(Windows)] /\ (\A r \in Sides : IsInjective(order[r]))
          /\ side \in Sides \cup {"none"} /\ y.order = Registered(order, side, w)
      BY <1>2, <1>3, <3>1
    <3> HIDE DEF order, side
    <3>3. /\ IsInjective(Registered(order, side, w)[s])
          /\ ToSet(Registered(order, side, w)[s])
               = IF s = side THEN ToSet(order[s]) \cup {w} ELSE ToSet(order[s])
          /\ \/ Registered(order, side, w)[s] = order[s]
             \/ Registered(order, side, w)[s] = Append(order[s], w)
      BY <1>1, <3>2, RegisteredIs
    <3> QED BY <3>2, <3>3 DEF order, side
  <2>2. /\ IsPrefix(layout.order[s], z.order[s])
        /\ ToSet(z.order[s]) = ToSet(layout.order[s]) \cup {v \in First(n) : StartDock(v) = s}
    BY DEF OpenSoFar
  <2>3. layout.order[s] \in Seq(Windows) /\ z.order[s] \in Seq(Windows)
    BY <1>2, DeskFields, LayoutFields
  <2>4. IsPrefix(layout.order[s], y.order[s])
    BY <1>1, <2>1, <2>2, <2>3, PrefixOfAppend
  <2> QED BY <1>1, <2>1, <2>2, <2>4
<1> QED BY <1>3, <1>4, <1>5 DEF OpenSoFar, w, y

(* All of them are: the page's desk. *)
LEMMA LoadedIs ==
  ASSUME DeskInv, NEW d,
         d = [Bare EXCEPT !.up = TRUE, !.order = layout.order, !.collapsed = layout.collapsed]
  PROVE  OpenSoFar(AllOpened(d), Len(StartOrder)) /\ First(Len(StartOrder)) = Windows
<1> DEFINE n == Len(StartOrder)
<1>1. n \in Nat /\ First(n) = Windows
  BY DeskAssumption DEF First, Windows, ToSet
<1>2. layout \in Layouts /\ LayoutTells
  BY DEF DeskInv
<1>3. OpenSoFar(d, 0)
  <2>1. /\ d \in Desks /\ d.up /\ d.collapsed = layout.collapsed /\ d.order = layout.order
        /\ d.dock = Bare.dock /\ d.before = Bare.before
    BY <1>2, BareIsADesk, LayoutFields DEF Desks
  <2>2. \A w \in Windows : Bare.dock[w] = "none" /\ Bare.before[w] = "none"
    BY DEF Bare
  <2>3. First(0) = {}
    BY DEF First
  <2>4. \A s \in Sides : IsPrefix(layout.order[s], layout.order[s])
    <3> SUFFICES ASSUME NEW s \in Sides PROVE IsPrefix(layout.order[s], layout.order[s])
      OBVIOUS
    <3>1. layout.order[s] \in Seq(Windows)
      BY <1>2, LayoutFields
    <3> QED BY <3>1 DEF IsPrefix
  <2>5. \A s \in Sides : IsInjective(layout.order[s])
    BY <1>2 DEF LayoutTells
  <2> QED BY <2>1, <2>2, <2>3, <2>4, <2>5 DEF OpenSoFar
<1>4. PICK f : Opening(d, n, f) /\ AllOpened(d) = f[n]
  BY AllOpenedIs
<1>5. \A m \in 0 .. n : f[m] = IF m = 0 THEN d ELSE Opened(f[m - 1], StartOrder[m])
  BY <1>4 DEF Opening
<1> DEFINE N == {m \in Nat : m <= n => OpenSoFar(f[m], m)}
<1>6. 0 \in N
  BY <1>1, <1>3, <1>5
<1>7. ASSUME NEW m \in Nat, m \in N PROVE m + 1 \in N
  <2> SUFFICES ASSUME m + 1 <= n PROVE OpenSoFar(f[m + 1], m + 1)
    OBVIOUS
  <2>1. m + 1 \in 0 .. n /\ m + 1 # 0 /\ (m + 1) - 1 = m /\ m <= n
    BY <1>1
  <2>2. f[m + 1] = Opened(f[m], StartOrder[m + 1])
    BY <1>5, <2>1
  <2> QED BY <1>2, <1>7, <2>1, <2>2, OpenSoFarOneMore
<1>8. Nat \subseteq N
  <2> HIDE DEF N
  <2> QED BY <1>6, <1>7, NumbersFrom
<1> QED BY <1>1, <1>4, <1>8

-----------------------------------------------------------------------------
(* What is done to a window *)

\* A desk with another state of one window.
Standing(d, w, state, before) == [d EXCEPT !.state[w] = state, !.before[w] = before]

(* A window that is open stays listed where it is while only its state changes. *)
LEMMA PlacedStill ==
  ASSUME NEW d \in Desks, Placed(d), NEW w \in Windows, d.state[w] # "closed",
         NEW state \in WindowStates \ {"closed"},
         NEW before \in (WindowStates \cup {"none"}) \ {"closed"},
         d.dock[w] = "none" => state # "minimized" /\ before # "minimized",
         before = "minimized" => state \in {"maximized", "hidden"},
         NEW z, z = Standing(d, w, state, before)
  PROVE  z \in Desks /\ z.up = d.up /\ Placed(z)
<1> DEFINE st == [d.state EXCEPT ![w] = state]
           be == [d.before EXCEPT ![w] = before]
<1>1. /\ st \in [Windows -> WindowStates]
      /\ be \in [Windows -> (WindowStates \cup {"none"}) \ {"closed"}]
      /\ \A v \in Windows : /\ st[v] = IF v = w THEN state ELSE d.state[v]
                            /\ be[v] = IF v = w THEN before ELSE d.before[v]
  BY DeskFields
<1>2. z = [d EXCEPT !.state = st, !.before = be]
  BY DEF Desks, Standing
<1> HIDE DEF st, be
<1>3. /\ z \in Desks /\ z.up = d.up /\ z.state = st /\ z.before = be
      /\ z.dock = d.dock /\ z.order = d.order
  BY <1>1, <1>2 DEF Desks
<1>4. \A v \in Windows : z.state[v] # "closed" <=> d.state[v] # "closed"
  BY <1>1, <1>3
<1>5. \A s \in Sides : /\ IsInjective(z.order[s])
                       /\ ToSet(z.order[s]) = {v \in Windows : z.state[v] # "closed" /\ z.dock[v] = s}
  BY <1>3, <1>4 DEF Placed
<1>6. \A v \in Windows :
        /\ z.dock[v] = "none" => z.state[v] # "minimized" /\ z.before[v] # "minimized"
        /\ z.before[v] = "minimized" => z.state[v] \in {"maximized", "hidden"}
  BY <1>1, <1>3 DEF Placed
<1> QED BY <1>3, <1>5, <1>6 DEF Placed

(* A window is turned minimized when it is docked, or maximized or hidden. *)
LEMMA TurnedPlaced ==
  ASSUME NEW d \in Desks, Placed(d), NEW w \in Windows, Drawn(d, w),
         NEW state \in {"minimized", "maximized", "hidden"},
         state = "minimized" => d.dock[w] # "none" /\ d.state[w] # "minimized"
  PROVE  /\ Turned(d, w, state) \in Desks /\ Turned(d, w, state).up = d.up
         /\ Placed(Turned(d, w, state))
<1>1. Turned(d, w, state) = [d EXCEPT !.before[w] = d.state[w], !.state[w] = state]
  BY DEF Turned
<1>2. Turned(d, w, state) = Standing(d, w, state, d.state[w])
  BY <1>1 DEF Desks, Standing
<1>3. d.state[w] \in WindowStates \ {"closed"} /\ state \in WindowStates \ {"closed"}
  BY DeskFields DEF Drawn, WindowStates
<1>4. d.dock[w] = "none" => state # "minimized" /\ d.state[w] # "minimized"
  BY DEF Placed
<1>5. d.state[w] = "minimized" => state \in {"maximized", "hidden"}
  OBVIOUS
<1> DEFINE before == d.state[w]
           z == Turned(d, w, state)
<1>6. /\ d.state[w] # "closed" /\ before \in (WindowStates \cup {"none"}) \ {"closed"}
      /\ z = Standing(d, w, state, before)
      /\ d.dock[w] = "none" => state # "minimized" /\ before # "minimized"
      /\ before = "minimized" => state \in {"maximized", "hidden"}
  BY <1>2, <1>3, <1>4, <1>5
<1> HIDE DEF before, z
<1>7. z \in Desks /\ z.up = d.up /\ Placed(z)
  BY <1>3, <1>6, PlacedStill
<1> QED BY <1>7 DEF z

(* A window that is open is restored to what it may be. *)
LEMMA RestoredPlaced ==
  ASSUME NEW d \in Desks, Placed(d), NEW w \in Windows, d.state[w] # "closed"
  PROVE  Restored(d, w) \in Desks /\ Restored(d, w).up = d.up /\ Placed(Restored(d, w))
<1> DEFINE state == IF d.before[w] \in {"maximized", "none"} THEN "normal" ELSE d.before[w]
<1>1. Restored(d, w) = Standing(d, w, state, "none")
  BY DEF Restored, Standing
<1>2. state \in WindowStates \ {"closed"} /\ "none" \in (WindowStates \cup {"none"}) \ {"closed"}
  BY DeskFields DEF WindowStates
<1>3. d.dock[w] = "none" => state # "minimized" /\ "none" # "minimized"
  BY DEF Placed
<1> HIDE DEF state
<1> DEFINE before == "none"
           z == Restored(d, w)
<1>4. /\ before \in (WindowStates \cup {"none"}) \ {"closed"} /\ before # "minimized"
      /\ z = Standing(d, w, state, before)
  BY <1>1, <1>2
<1> HIDE DEF before, z
<1>5. z \in Desks /\ z.up = d.up /\ Placed(z)
  BY <1>2, <1>3, <1>4, PlacedStill
<1> QED BY <1>5 DEF z

(* A window that was closed is listed where it starts. *)
LEMMA OpenedPlaced ==
  ASSUME layout \in Layouts, NEW d \in Desks, Placed(d), NEW w \in Windows,
         d.state[w] = "closed"
  PROVE  Opened(d, w) \in Desks /\ Opened(d, w).up = d.up /\ Placed(Opened(d, w))
<1> DEFINE z == Opened(d, w)
<1>1. \A s \in Sides : IsInjective(d.order[s])
  BY DEF Placed
<1>2. /\ z \in Desks /\ z.up = d.up
      /\ z.state = [d.state EXCEPT ![w] = StartState(w)]
      /\ z.before = [d.before EXCEPT ![w] = StartBefore(w)]
      /\ z.dock = [d.dock EXCEPT ![w] = StartDock(w)]
      /\ z.order = Registered(d.order, StartDock(w), w)
  BY <1>1, OpenedIs
<1> HIDE DEF z
<1>3. \A v \in Windows :
        /\ z.state[v] = IF v = w THEN StartState(w) ELSE d.state[v]
        /\ z.before[v] = IF v = w THEN StartBefore(w) ELSE d.before[v]
        /\ z.dock[v] = IF v = w THEN StartDock(w) ELSE d.dock[v]
  BY <1>2, DeskFields
<1>4. /\ StartDock(w) \in Sides \cup {"none"} /\ StartState(w) \in {"hidden", "minimized", "normal"}
      /\ StartState(w) = "minimized" => StartDock(w) # "none"
      /\ StartBefore(w) \in {"none", "normal"}
  BY StartFacts DEF StartBefore
<1>5. ASSUME NEW s \in Sides
      PROVE  /\ IsInjective(z.order[s])
             /\ ToSet(z.order[s]) = {v \in Windows : z.state[v] # "closed" /\ z.dock[v] = s}
  <2>1. d.order \in [Sides -> Seq(Windows)]
    BY DeskFields
  <2>2. /\ IsInjective(z.order[s])
        /\ ToSet(z.order[s]) = IF s = StartDock(w) THEN ToSet(d.order[s]) \cup {w}
                               ELSE ToSet(d.order[s])
    <3> DEFINE order == d.order
               side == StartDock(w)
    <3>1. order \in [Sides -> Seq(Windows)] /\ (\A r \in Sides : IsInjective(order[r]))
          /\ side \in Sides \cup {"none"} /\ z.order = Registered(order, side, w)
      BY <1>1, <1>2, <1>4, <2>1
    <3> HIDE DEF order, side
    <3>2. /\ IsInjective(Registered(order, side, w)[s])
          /\ ToSet(Registered(order, side, w)[s])
               = IF s = side THEN ToSet(order[s]) \cup {w} ELSE ToSet(order[s])
          /\ \/ Registered(order, side, w)[s] = order[s]
             \/ Registered(order, side, w)[s] = Append(order[s], w)
      BY <3>1, RegisteredIs
    <3> QED BY <3>1, <3>2 DEF order, side
  <2>3. ToSet(d.order[s]) = {v \in Windows : d.state[v] # "closed" /\ d.dock[v] = s}
    BY DEF Placed
  <2> QED BY <1>3, <1>4, <2>2, <2>3
<1>6. \A v \in Windows :
        /\ z.dock[v] = "none" => z.state[v] # "minimized" /\ z.before[v] # "minimized"
        /\ z.before[v] = "minimized" => z.state[v] \in {"maximized", "hidden"}
  BY <1>3, <1>4 DEF Placed
<1> QED BY <1>2, <1>5, <1>6 DEF Placed, z

(* The page that has opened all of its windows. *)
LEMMA LoadedPlaced ==
  ASSUME DeskInv, NEW z, OpenSoFar(z, Len(StartOrder)), First(Len(StartOrder)) = Windows
  PROVE  Placed(z)
<1>1. layout \in Layouts /\ LayoutTells
  BY DEF DeskInv
<1>2. \A w \in Windows :
        z.state[w] = StartState(w) /\ z.before[w] = StartBefore(w) /\ z.dock[w] = StartDock(w)
  BY DEF OpenSoFar
<1>3. \A w \in Windows :
        /\ StartState(w) \in {"hidden", "minimized", "normal"}
        /\ StartState(w) = "minimized" => StartDock(w) # "none"
        /\ StartBefore(w) \in {"none", "normal"}
  BY <1>1, StartFacts DEF StartBefore
<1>4. ASSUME NEW s \in Sides
      PROVE  /\ IsInjective(z.order[s])
             /\ ToSet(z.order[s]) = {w \in Windows : z.state[w] # "closed" /\ z.dock[w] = s}
  <2>1. /\ IsInjective(z.order[s])
        /\ ToSet(z.order[s]) = ToSet(layout.order[s]) \cup {w \in Windows : StartDock(w) = s}
    BY DEF OpenSoFar
  <2>2. \A w \in ToSet(layout.order[s]) : w \in Windows /\ StartDock(w) = s
    <3>1. \A w \in ToSet(layout.order[s]) : w \in Windows
      BY <1>1, LayoutFields DEF ToSet
    <3> QED BY <1>1, <3>1 DEF LayoutTells, StartDock
  <2> QED BY <1>2, <1>3, <2>1, <2>2
<1> QED BY <1>2, <1>3, <1>4 DEF Placed

\* A desk z with one window of d on neither side.
Floated(d, z, w, state, before) ==
  /\ z \in Desks /\ z.up = d.up /\ z.order = Undocked(d.order, w)
  /\ \A v \in Windows : /\ z.state[v] = IF v = w THEN state ELSE d.state[v]
                        /\ z.before[v] = IF v = w THEN before ELSE d.before[v]
                        /\ z.dock[v] = IF v = w THEN "none" ELSE d.dock[v]

(* A window that is closed, or dragged out, is listed no more. *)
LEMMA TakenOutPlaced ==
  ASSUME NEW d \in Desks, Placed(d), NEW w \in Windows,
         NEW state \in WindowStates \ {"minimized"},
         NEW before \in (WindowStates \cup {"none"}) \ {"closed", "minimized"},
         NEW z, Floated(d, z, w, state, before)
  PROVE  Placed(z)
<1>0. /\ z \in Desks /\ z.up = d.up /\ z.order = Undocked(d.order, w)
      /\ \A v \in Windows : /\ z.state[v] = IF v = w THEN state ELSE d.state[v]
                            /\ z.before[v] = IF v = w THEN before ELSE d.before[v]
                            /\ z.dock[v] = IF v = w THEN "none" ELSE d.dock[v]
  BY DEF Floated
<1>1. ASSUME NEW s \in Sides
      PROVE  IsInjective(z.order[s]) /\ ToSet(z.order[s]) = ToSet(d.order[s]) \ {w}
  <2> DEFINE order == d.order
  <2>1. /\ order \in [Sides -> Seq(Windows)] /\ z.order = Undocked(order, w)
        /\ (\A r \in Sides : IsInjective(order[r]))
        /\ ~(w \in ToSet(order["left"]) /\ w \in ToSet(order["right"]))
    BY <1>0, DeskFields DEF Placed, Sides
  <2> HIDE DEF order
  <2>2. /\ Undocked(order, w) \in [Sides -> Seq(Windows)]
        /\ \A r \in Sides : /\ IsInjective(Undocked(order, w)[r])
                            /\ ToSet(Undocked(order, w)[r]) = ToSet(order[r]) \ {w}
    BY <2>1, UndockedIs
  <2> QED BY <2>1, <2>2 DEF order
<1>2. ASSUME NEW s \in Sides
      PROVE  /\ IsInjective(z.order[s])
             /\ ToSet(z.order[s]) = {v \in Windows : z.state[v] # "closed" /\ z.dock[v] = s}
  <2>1. ToSet(d.order[s]) = {v \in Windows : d.state[v] # "closed" /\ d.dock[v] = s}
    BY DEF Placed
  <2>2. s # "none"
    BY DEF Sides
  <2> QED BY <1>0, <1>1, <2>1, <2>2
<1>3. \A v \in Windows :
        /\ z.dock[v] = "none" => z.state[v] # "minimized" /\ z.before[v] # "minimized"
        /\ z.before[v] = "minimized" => z.state[v] \in {"maximized", "hidden"}
  BY <1>0 DEF Placed
<1> QED BY <1>2, <1>3 DEF Placed

(* closeWindow. *)
LEMMA ClosedPlaced ==
  ASSUME NEW d \in Desks, Placed(d), NEW w \in Windows, NEW z,
         z = [d EXCEPT !.order = Undocked(@, w), !.state[w] = "closed",
                       !.before[w] = "none", !.dock[w] = "none"]
  PROVE  z \in Desks /\ z.up = d.up /\ Placed(z)
<1> DEFINE st == [d.state EXCEPT ![w] = "closed"]
           be == [d.before EXCEPT ![w] = "none"]
           do == [d.dock EXCEPT ![w] = "none"]
           or == Undocked(d.order, w)
<1>1. /\ st \in [Windows -> WindowStates]
      /\ be \in [Windows -> (WindowStates \cup {"none"}) \ {"closed"}]
      /\ do \in [Windows -> Sides \cup {"none"}]
      /\ \A v \in Windows : /\ st[v] = IF v = w THEN "closed" ELSE d.state[v]
                            /\ be[v] = IF v = w THEN "none" ELSE d.before[v]
                            /\ do[v] = IF v = w THEN "none" ELSE d.dock[v]
  BY DeskFields DEF WindowStates
<1>2. or \in [Sides -> Seq(Windows)]
  <2>1. /\ d.order \in [Sides -> Seq(Windows)]
        /\ (\A r \in Sides : IsInjective(d.order[r]))
        /\ ~(w \in ToSet(d.order["left"]) /\ w \in ToSet(d.order["right"]))
    BY DeskFields DEF Placed, Sides
  <2> DEFINE o == d.order
  <2> HIDE DEF o
  <2>2. Undocked(o, w) \in [Sides -> Seq(Windows)]
    BY <2>1, UndockedIs DEF o
  <2> QED BY <2>2 DEF o
<1>3. z = [d EXCEPT !.order = or, !.state = st, !.before = be, !.dock = do]
  BY DEF Desks
<1> HIDE DEF st, be, do, or
<1>4. /\ z \in Desks /\ z.up = d.up /\ z.state = st /\ z.before = be
      /\ z.dock = do /\ z.order = or
  BY <1>1, <1>2, <1>3 DEF Desks
<1>5. z.order = Undocked(d.order, w)
  BY <1>4 DEF or
<1> DEFINE state == "closed"
           before == "none"
<1>6. /\ state \in WindowStates \ {"minimized"}
      /\ before \in (WindowStates \cup {"none"}) \ {"closed", "minimized"}
      /\ \A v \in Windows : /\ z.state[v] = IF v = w THEN state ELSE d.state[v]
                            /\ z.before[v] = IF v = w THEN before ELSE d.before[v]
                            /\ z.dock[v] = IF v = w THEN "none" ELSE d.dock[v]
  BY <1>1, <1>4 DEF WindowStates
<1>7. Floated(d, z, w, state, before)
  BY <1>4, <1>5, <1>6 DEF Floated
<1> HIDE DEF state, before
<1> QED BY <1>4, <1>6, <1>7, TakenOutPlaced

(* undockWindow: a minimized window is drawn again when it floats. *)
LEMMA DraggedPlaced ==
  ASSUME NEW d \in Desks, Placed(d), NEW w \in Windows, Drawn(d, w), d.state[w] # "maximized",
         NEW z,
         z = [d EXCEPT !.order = Undocked(@, w), !.dock[w] = "none",
                       !.state[w] = IF @ = "minimized" THEN "normal" ELSE @]
  PROVE  z \in Desks /\ z.up = d.up /\ Placed(z)
<1> DEFINE state == IF d.state[w] = "minimized" THEN "normal" ELSE d.state[w]
           before == d.before[w]
           st == [d.state EXCEPT ![w] = state]
           do == [d.dock EXCEPT ![w] = "none"]
           or == Undocked(d.order, w)
<1>1. /\ state \in WindowStates \ {"minimized"}
      /\ before \in (WindowStates \cup {"none"}) \ {"closed", "minimized"}
  <2>1. d.state[w] \notin {"maximized", "hidden"}
    BY DEF Drawn
  <2>2. before # "minimized"
    BY <2>1 DEF Placed
  <2> QED BY <2>2, DeskFields DEF WindowStates
<1>2. /\ st \in [Windows -> WindowStates] /\ do \in [Windows -> Sides \cup {"none"}]
      /\ \A v \in Windows : /\ st[v] = IF v = w THEN state ELSE d.state[v]
                            /\ do[v] = IF v = w THEN "none" ELSE d.dock[v]
  <2> HIDE DEF state
  <2> QED BY <1>1, DeskFields
<1>3. or \in [Sides -> Seq(Windows)]
  <2>1. /\ d.order \in [Sides -> Seq(Windows)]
        /\ (\A r \in Sides : IsInjective(d.order[r]))
        /\ ~(w \in ToSet(d.order["left"]) /\ w \in ToSet(d.order["right"]))
    BY DeskFields DEF Placed, Sides
  <2> DEFINE o == d.order
  <2> HIDE DEF o
  <2>2. Undocked(o, w) \in [Sides -> Seq(Windows)]
    BY <2>1, UndockedIs DEF o
  <2> QED BY <2>2 DEF o
<1>4. z = [d EXCEPT !.order = or, !.dock = do, !.state = st]
  BY DEF Desks
<1> HIDE DEF st, do, or, state, before
<1>5. /\ z \in Desks /\ z.up = d.up /\ z.state = st /\ z.before = d.before
      /\ z.dock = do /\ z.order = or
  BY <1>2, <1>3, <1>4 DEF Desks
<1>6. z.order = Undocked(d.order, w)
  BY <1>5 DEF or
<1>7. \A v \in Windows : /\ z.state[v] = IF v = w THEN state ELSE d.state[v]
                         /\ z.before[v] = IF v = w THEN before ELSE d.before[v]
                         /\ z.dock[v] = IF v = w THEN "none" ELSE d.dock[v]
  BY <1>2, <1>5 DEF before
<1>8. Floated(d, z, w, state, before)
  BY <1>5, <1>6, <1>7 DEF Floated
<1> QED BY <1>1, <1>5, <1>8, TakenOutPlaced

(* dockWindow: a floating window is listed where it is dropped. *)
LEMMA DroppedPlaced ==
  ASSUME NEW d \in Desks, Placed(d), NEW w \in Windows, Drawn(d, w), d.dock[w] = "none",
         NEW side \in Sides, NEW i \in 0 .. Len(d.order[side]), NEW z,
         z = [d EXCEPT !.order = Docked(@, w, side, i), !.dock[w] = side,
                       !.collapsed[side] = FALSE]
  PROVE  z \in Desks /\ z.up = d.up /\ Placed(z)
<1> DEFINE o == d.order
           do == [d.dock EXCEPT ![w] = side]
           co == [d.collapsed EXCEPT ![side] = FALSE]
           or == [o EXCEPT ![side] = InsertAt(@, i + 1, w)]
<1>1. /\ do \in [Windows -> Sides \cup {"none"}] /\ co \in [Sides -> BOOLEAN]
      /\ \A v \in Windows : do[v] = IF v = w THEN side ELSE d.dock[v]
  BY DeskFields
<1>2. /\ o \in [Sides -> Seq(Windows)] /\ (\A s \in Sides : IsInjective(o[s]))
      /\ \A s \in Sides : w \notin ToSet(o[s])
  BY DeskFields DEF Placed, Sides
<1>3. Undocked(o, w) = o
  <2> HIDE DEF o
  <2>1. ~Contains(o["left"], w)
    BY <1>2, ContainsIs DEF Sides
  <2>2. Without(o["right"], {w}) = o["right"]
    BY <1>2, TakenOut DEF Sides
  <2>3. Undocked(o, w) = [o EXCEPT !["right"] = Without(@, {w})]
    BY <2>1 DEF Undocked
  <2> QED BY <1>2, <2>2, <2>3
<1>4. /\ or \in [Sides -> Seq(Windows)]
      /\ \A s \in Sides : /\ IsInjective(or[s])
                          /\ ToSet(or[s]) = IF s = side THEN ToSet(o[s]) \cup {w} ELSE ToSet(o[s])
  <2> DEFINE t == o[side]
  <2>0. i \in 0 .. Len(t)
    OBVIOUS
  <2> HIDE DEF o
  <2>1. t \in Seq(Windows) /\ IsInjective(t) /\ w \notin ToSet(t)
    BY <1>2
  <2> HIDE DEF t
  <2>2. /\ InsertAt(t, i + 1, w) \in Seq(Windows) /\ IsInjective(InsertAt(t, i + 1, w))
        /\ ToSet(InsertAt(t, i + 1, w)) = ToSet(t) \cup {w}
    BY <2>0, <2>1, InsertAtIs
  <2> QED BY <1>2, <2>2 DEF t
<1>5. Docked(o, w, side, i) = or
  BY <1>3 DEF Docked
<1>6. z = [d EXCEPT !.order = Docked(o, w, side, i), !.dock = do, !.collapsed = co]
  BY DEF Desks
<1> HIDE DEF do, co, or
<1>7. /\ z \in Desks /\ z.up = d.up /\ z.state = d.state /\ z.before = d.before
      /\ z.dock = do /\ z.order = or
  BY <1>1, <1>4, <1>5, <1>6 DEF Desks
<1>8. \A s \in Sides :
        /\ IsInjective(z.order[s])
        /\ ToSet(z.order[s]) = {v \in Windows : z.state[v] # "closed" /\ z.dock[v] = s}
  <2>1. \A s \in Sides : ToSet(o[s]) = {v \in Windows : d.state[v] # "closed" /\ d.dock[v] = s}
    BY DEF Placed
  <2>2. d.state[w] # "closed" /\ d.dock[w] \notin Sides
    BY DEF Drawn, Sides
  <2> HIDE DEF o
  <2> QED BY <1>1, <1>4, <1>7, <2>1, <2>2
<1>9. \A v \in Windows :
        /\ z.dock[v] = "none" => z.state[v] # "minimized" /\ z.before[v] # "minimized"
        /\ z.before[v] = "minimized" => z.state[v] \in {"maximized", "hidden"}
  <2>1. side # "none"
    BY DEF Sides
  <2> QED BY <1>1, <1>7, <2>1 DEF Placed
<1> QED BY <1>7, <1>8, <1>9 DEF Placed

-----------------------------------------------------------------------------
(* The pages, and what they save *)

(* A page that changes to a desk that is sound keeps the invariant. *)
LEMMA ChangesKeeps ==
  ASSUME DeskInv, NEW p \in Pages, NEW d \in Desks, d.up, Placed(d), Changes(p, d)
  PROVE  DeskInv'
<1> DEFINE z == [d EXCEPT !.unsaved = TRUE]
<1>1. /\ z \in Desks /\ z.up /\ z.state = d.state /\ z.before = d.before
      /\ z.dock = d.dock /\ z.order = d.order
  BY DEF Desks
<1>2. Placed(z)
  BY <1>1 DEF Placed
<1>3. /\ moves < MaxMoves /\ moves' = moves + 1 /\ desk' = [desk EXCEPT ![p] = z]
      /\ UNCHANGED <<layout, shown>>
  BY DEF Changes
<1> HIDE DEF z
<1>4. desk' \in [Pages -> Desks] /\ \A q \in Pages : desk'[q] = IF q = p THEN z ELSE desk[q]
  BY <1>1, <1>3 DEF DeskInv
<1>5. moves' \in 0 .. MaxMoves
  BY <1>3, DeskAssumption DEF DeskInv
<1>6. DesksPlaced'
  BY <1>1, <1>2, <1>4 DEF DesksPlaced, DeskInv
<1>7. LayoutTells'
  BY <1>3 DEF LayoutTells, DeskInv
<1> QED BY <1>3, <1>4, <1>5, <1>6, <1>7 DEF DeskInv

(* A page loads, from a layout any page saved. *)
LEMMA LoadKeeps ==
  ASSUME DeskInv, NEW p \in Pages, LoadPage(p)
  PROVE  DeskInv'
<1> DEFINE d == [Bare EXCEPT !.up = TRUE, !.order = layout.order, !.collapsed = layout.collapsed]
           z == AllOpened(d)
<1>1. Changes(p, z)
  BY DEF LoadPage
<1> HIDE DEF d, z
<1>2. OpenSoFar(z, Len(StartOrder)) /\ First(Len(StartOrder)) = Windows
  BY LoadedIs DEF d, z
<1>3. z \in Desks /\ z.up
  BY <1>2 DEF OpenSoFar
<1>4. Placed(z)
  BY <1>2, LoadedPlaced
<1> QED BY <1>1, <1>3, <1>4, ChangesKeeps

(* A page is left. *)
LEMMA LeaveKeeps ==
  ASSUME DeskInv, NEW p \in Pages, LeavePage(p)
  PROVE  DeskInv'
<1>1. desk' = [desk EXCEPT ![p] = Bare] /\ UNCHANGED <<layout, shown, moves>>
  BY DEF LeavePage
<1>2. desk' \in [Pages -> Desks] /\ \A q \in Pages : desk'[q] = IF q = p THEN Bare ELSE desk[q]
  BY <1>1, BareIsADesk DEF DeskInv
<1>3. DesksPlaced'
  BY <1>2, BareIsADesk DEF DesksPlaced, DeskInv
<1>4. LayoutTells'
  BY <1>1 DEF LayoutTells, DeskInv
<1> QED BY <1>1, <1>2, <1>3, <1>4 DEF DeskInv

(* A page saves what it shows. *)
LEMMA SaveKeeps ==
  ASSUME DeskInv, NEW p \in Pages, SaveLayout(p)
  PROVE  DeskInv'
<1> DEFINE d == desk[p]
           open == {w \in Windows : d.state[w] # "closed"}
           l == layout'
<1>1. d \in Desks /\ Placed(d) /\ layout \in Layouts /\ LayoutTells
  BY DEF SaveLayout, DeskInv, DesksPlaced
<1>2. /\ l.saved /\ l.known = layout.known \cup open
      /\ l.minimized = (layout.minimized \ open) \cup {w \in open : d.state[w] = "minimized"}
      /\ l.hidden = (layout.hidden \ open) \cup {w \in open : d.state[w] = "hidden"}
      /\ l.dock = [w \in Windows |-> IF w \in open THEN d.dock[w] ELSE layout.dock[w]]
      /\ l.order = [s \in Sides |-> Only(d.order[s], open)]
      /\ l.collapsed = d.collapsed
      /\ l = [saved |-> l.saved, known |-> l.known, minimized |-> l.minimized,
              hidden |-> l.hidden, dock |-> l.dock, order |-> l.order,
              collapsed |-> l.collapsed]
  BY DEF SaveLayout
<1>3. shown' = d /\ desk' = [desk EXCEPT ![p].unsaved = FALSE] /\ moves' = moves
  BY DEF SaveLayout
<1>4. l.order = d.order
  <2>1. ASSUME NEW s \in Sides PROVE Only(d.order[s], open) = d.order[s]
    <3>1. d.order[s] \in Seq(Windows) /\ Elements(d.order[s]) \subseteq open
      BY <1>1, DeskFields DEF Placed, ToSet, Elements
    <3> QED BY <3>1, OnlyOfAll
  <2>2. d.order \in [Sides -> Seq(Windows)]
    BY <1>1, DeskFields
  <2> QED BY <1>2, <2>1, <2>2
<1> HIDE DEF d, l
<1>5. l \in Layouts
  <2>1. /\ l.saved \in BOOLEAN /\ l.known \in SUBSET Windows /\ l.minimized \in SUBSET Windows
        /\ l.hidden \in SUBSET Windows /\ l.collapsed \in [Sides -> BOOLEAN]
        /\ l.order \in [Sides -> Seq(Windows)]
    BY <1>1, <1>2, <1>4, DeskFields, LayoutFields
  <2>2. l.dock \in [Windows -> Sides \cup {"none"}]
    BY <1>1, <1>2, DeskFields, LayoutFields
  <2> QED BY <1>2, <2>1, <2>2 DEF Layouts
<1>6. LayoutTells'
  <2>1. ASSUME NEW s \in Sides
        PROVE  IsInjective(l.order[s]) /\ \A w \in ToSet(l.order[s]) : w \in l.known /\ l.dock[w] = s
    BY <1>1, <1>2, <1>4 DEF Placed
  <2>2. ASSUME NEW w \in Windows, d.state[w] # "closed"
        PROVE  /\ w \in l.known /\ l.dock[w] = d.dock[w]
               /\ w \in l.minimized <=> d.state[w] = "minimized"
               /\ w \in l.hidden <=> d.state[w] = "hidden"
    BY <1>2, <2>2
  <2> QED BY <1>1, <1>2, <1>3, <1>4, <2>1, <2>2 DEF LayoutTells, l
<1>7. desk' \in [Pages -> Desks] /\ DesksPlaced'
  <2> DEFINE z == [d EXCEPT !.unsaved = FALSE]
  <2>1. /\ z \in Desks /\ z.up = d.up /\ z.state = d.state /\ z.before = d.before
        /\ z.dock = d.dock /\ z.order = d.order
    BY <1>1 DEF Desks
  <2>2. Placed(z)
    BY <1>1, <2>1 DEF Placed
  <2>3. d.up
    BY DEF SaveLayout, d
  <2>4. desk' = [desk EXCEPT ![p] = z]
    BY <1>3 DEF d, DeskInv, Desks
  <2> HIDE DEF z
  <2>5. desk' \in [Pages -> Desks] /\ \A q \in Pages : desk'[q] = IF q = p THEN z ELSE desk[q]
    BY <2>1, <2>4 DEF DeskInv
  <2> QED BY <2>1, <2>2, <2>3, <2>5 DEF DesksPlaced, DeskInv
<1> QED BY <1>1, <1>3, <1>5, <1>6, <1>7 DEF DeskInv, l

(* A page with a window that is drawn, or a dock area, is there. *)
LEMMA DrawnIsUp ==
  ASSUME DeskInv, NEW p \in Pages
  PROVE  /\ desk[p] \in Desks
         /\ \A w \in Windows : Drawn(desk[p], w) => desk[p].up /\ Placed(desk[p])
         /\ \A s \in Sides : ToSet(desk[p].order[s]) # {} => desk[p].up /\ Placed(desk[p])
<1>1. /\ \A w \in Windows : Bare.state[w] = "closed"
      /\ \A s \in Sides : Bare.order[s] = <<>>
  BY DEF Bare
<1>2. ToSet(<<>>) = {}
  BY EmptySeq DEF ToSet
<1> QED BY <1>1, <1>2 DEF DeskInv, DesksPlaced, Drawn

(* Every step of it keeps the invariant. *)
LEMMA DeskInvIsInductive ==
  DeskInv /\ [DeskNext]_deskVars => DeskInv'
<1> SUFFICES ASSUME DeskInv, [DeskNext]_deskVars PROVE DeskInv'
  OBVIOUS
<1>1. CASE UNCHANGED deskVars
  BY <1>1 DEF DeskInv, DesksPlaced, LayoutTells, deskVars
<1>2. ASSUME NEW p \in Pages, NEW side \in Sides, ToggleCollapsed(p, side) PROVE DeskInv'
  <2> DEFINE d == desk[p]
             co == [d.collapsed EXCEPT ![side] = ~@]
             z == [d EXCEPT !.collapsed = co]
  <2>1. d \in Desks /\ d.up /\ Placed(d)
    BY <1>2, DrawnIsUp DEF ToggleCollapsed
  <2>2. Changes(p, z)
    <3>1. Changes(p, [d EXCEPT !.collapsed[side] = ~@])
      BY <1>2 DEF ToggleCollapsed
    <3>2. [d EXCEPT !.collapsed[side] = ~@] = z
      BY <2>1 DEF Desks
    <3> QED BY <3>1, <3>2
  <2> HIDE DEF d
  <2>3. co \in [Sides -> BOOLEAN]
    BY <2>1, DeskFields
  <2> HIDE DEF co
  <2>4. /\ z \in Desks /\ z.up = d.up /\ z.state = d.state /\ z.before = d.before
        /\ z.dock = d.dock /\ z.order = d.order
    BY <2>1, <2>3 DEF Desks
  <2>5. Placed(z)
    BY <2>1, <2>4 DEF Placed
  <2> HIDE DEF z
  <2> QED BY <2>1, <2>2, <2>4, <2>5, ChangesKeeps
<1>3. ASSUME NEW p \in Pages, NEW w \in Windows,
             ToggleMinimize(p, w) \/ ToggleMaximize(p, w) \/ HideWindow(p, w)
      PROVE  DeskInv'
  <2> DEFINE d == desk[p]
  <2>1. Drawn(d, w)
    BY <1>3 DEF ToggleMinimize, ToggleMaximize, HideWindow
  <2>2. d \in Desks /\ d.up /\ Placed(d) /\ d.state[w] # "closed"
    BY <2>1, DrawnIsUp DEF Drawn
  <2>3. \/ Changes(p, Restored(d, w))
        \/ \E state \in {"minimized", "maximized", "hidden"} :
             /\ state = "minimized" => d.dock[w] # "none" /\ d.state[w] # "minimized"
             /\ Changes(p, Turned(d, w, state))
    BY <1>3 DEF ToggleMinimize, ToggleMaximize, HideWindow
  <2> HIDE DEF d
  <2>4. CASE Changes(p, Restored(d, w))
    BY <2>2, <2>4, RestoredPlaced, ChangesKeeps
  <2>5. ASSUME NEW state \in {"minimized", "maximized", "hidden"},
               state = "minimized" => d.dock[w] # "none" /\ d.state[w] # "minimized",
               Changes(p, Turned(d, w, state))
        PROVE  DeskInv'
    <3>1. Turned(d, w, state) \in Desks /\ Turned(d, w, state).up /\ Placed(Turned(d, w, state))
      BY <2>1, <2>2, <2>5, TurnedPlaced
    <3> QED BY <2>5, <3>1, ChangesKeeps
  <2> QED BY <2>3, <2>4, <2>5
<1>4. ASSUME NEW p \in Pages, NEW w \in Windows, CloseWindow(p, w) PROVE DeskInv'
  <2> DEFINE d == desk[p]
             z == [d EXCEPT !.order = Undocked(@, w), !.state[w] = "closed",
                            !.before[w] = "none", !.dock[w] = "none"]
  <2>1. d \in Desks /\ d.up /\ Placed(d) /\ Changes(p, z)
    BY <1>4, DrawnIsUp DEF CloseWindow
  <2> HIDE DEF d
  <2>2. z \in Desks /\ z.up = d.up /\ Placed(z)
    BY <2>1, ClosedPlaced
  <2> HIDE DEF z
  <2> QED BY <2>1, <2>2, ChangesKeeps
<1>5. ASSUME NEW p \in Pages, NEW w \in Windows, OpenWindow(p, w) PROVE DeskInv'
  <2> DEFINE d == desk[p]
             z == IF d.state[w] = "closed" THEN Opened(d, w) ELSE Restored(d, w)
  <2>1. d \in Desks /\ d.up /\ Placed(d) /\ Changes(p, z)
    BY <1>5 DEF OpenWindow, DeskInv, DesksPlaced
  <2> HIDE DEF d
  <2>2. z \in Desks /\ z.up = d.up /\ Placed(z)
    <3>1. CASE d.state[w] = "closed"
      BY <2>1, <3>1, OpenedPlaced DEF DeskInv
    <3>2. CASE d.state[w] # "closed"
      BY <2>1, <3>2, RestoredPlaced
    <3> QED BY <3>1, <3>2
  <2> HIDE DEF z
  <2> QED BY <2>1, <2>2, ChangesKeeps
<1>6. ASSUME NEW p \in Pages, NEW w \in Windows, DragOut(p, w) PROVE DeskInv'
  <2> DEFINE d == desk[p]
             z == [d EXCEPT !.order = Undocked(@, w), !.dock[w] = "none",
                            !.state[w] = IF @ = "minimized" THEN "normal" ELSE @]
  <2>1. /\ d \in Desks /\ d.up /\ Placed(d) /\ Changes(p, z)
        /\ Drawn(d, w) /\ d.state[w] # "maximized"
    BY <1>6, DrawnIsUp DEF DragOut
  <2> HIDE DEF d
  <2>2. z \in Desks /\ z.up = d.up /\ Placed(z)
    BY <2>1, DraggedPlaced
  <2> HIDE DEF z
  <2> QED BY <2>1, <2>2, ChangesKeeps
<1>7. ASSUME NEW p \in Pages, NEW w \in Windows, NEW side \in Sides,
             NEW i \in 0 .. Len(StartOrder), DropAt(p, w, side, i)
      PROVE  DeskInv'
  <2> DEFINE d == desk[p]
             z == [d EXCEPT !.order = Docked(@, w, side, i), !.dock[w] = side,
                            !.collapsed[side] = FALSE]
  <2>1. /\ d \in Desks /\ d.up /\ Placed(d) /\ Changes(p, z)
        /\ Drawn(d, w) /\ d.dock[w] = "none" /\ i \in 0 .. Len(d.order[side])
    BY <1>7, DrawnIsUp DEF DropAt
  <2> HIDE DEF d
  <2>2. z \in Desks /\ z.up = d.up /\ Placed(z)
    BY <2>1, DroppedPlaced
  <2> HIDE DEF z
  <2> QED BY <2>1, <2>2, ChangesKeeps
<1>8. CASE DeskNext
  BY <1>2, <1>3, <1>4, <1>5, <1>6, <1>7, <1>8, LoadKeeps, LeaveKeeps, SaveKeeps DEF DeskNext
<1> QED BY <1>1, <1>8

(* So the invariant holds of every browser. *)
LEMMA DeskInvAlways == DeskSpec => []DeskInv
BY DeskInvInitially, DeskInvIsInductive, PTL DEF DeskSpec

(* The windows, docks and states of every page, and what is known of a layout,  *)
(* keep their types for any windows and any number of pages.                    *)
THEOREM DeskTypeCorrect == DeskSpec => []DeskTypeOK
<1>1. DeskInv => DeskTypeOK
  <2> SUFFICES ASSUME DeskInv PROVE DeskTypeOK
    OBVIOUS
  <2>1. ASSUME NEW p \in Pages
        PROVE  /\ desk[p].state \in [Windows -> WindowStates]
               /\ desk[p].before \in [Windows -> WindowStates \cup {"none"}]
               /\ desk[p].dock \in [Windows -> Sides \cup {"none"}]
    <3>1. desk[p] \in Desks
      BY DEF DeskInv
    <3> QED BY <3>1, DeskFields
  <2>2. layout.known \subseteq Windows /\ moves \in 0 .. MaxMoves
    BY LayoutFields DEF DeskInv
  <2> QED BY <2>1, <2>2 DEF DeskTypeOK
<1> QED BY <1>1, DeskInvAlways, PTL

(* Whatever people drag, drop, close, hide and reload, on any number of pages   *)
(* that share a layout: a dock area's order lists the windows docked there,     *)
(* each once, and no floating window is or would be restored minimized.         *)
THEOREM DeskIsAlwaysSound == DeskSpec => []DeskIsSound
<1>1. DeskInv => DeskIsSound
  BY DEF DeskInv, DesksPlaced, Placed, DeskIsSound
<1> QED BY <1>1, DeskInvAlways, PTL

(* A page that is there after a step and was not before was loaded by it. *)
LEMMA OnlyLoads ==
  ASSUME DeskInv, DeskNext, NEW p \in Pages, ~desk[p].up, desk'[p].up
  PROVE  LoadPage(p)
<1>1. PICK q \in Pages :
        \/ LoadPage(q) \/ LeavePage(q) \/ SaveLayout(q)
        \/ \E side \in Sides : ToggleCollapsed(q, side)
        \/ \E w \in Windows :
             \/ ToggleMinimize(q, w) \/ ToggleMaximize(q, w) \/ HideWindow(q, w)
             \/ CloseWindow(q, w) \/ OpenWindow(q, w) \/ DragOut(q, w)
             \/ \E side \in Sides, i \in 0 .. Len(StartOrder) : DropAt(q, w, side, i)
  BY DEF DeskNext
<1>2. \E x : desk' = [desk EXCEPT ![q] = x]
  <2>1. \A x : Changes(q, x) => desk' = [desk EXCEPT ![q] = [x EXCEPT !.unsaved = TRUE]]
    BY DEF Changes
  <2>2. CASE LeavePage(q) \/ SaveLayout(q)
    BY <2>2 DEF LeavePage, SaveLayout
  <2>3. CASE ~(LeavePage(q) \/ SaveLayout(q))
    <3>1. \E x : Changes(q, x)
      BY <1>1, <2>3
      DEF LoadPage, ToggleCollapsed, ToggleMinimize, ToggleMaximize, HideWindow, CloseWindow,
          OpenWindow, DragOut, DropAt
    <3> QED BY <2>1, <3>1
  <2> QED BY <2>2, <2>3
<1>3. q = p
  BY <1>2 DEF DeskInv
<1>4. ~LeavePage(p) /\ ~SaveLayout(p)
  BY DEF LeavePage, SaveLayout
<1>5. \A side \in Sides : ~ToggleCollapsed(p, side)
  BY DrawnIsUp DEF ToggleCollapsed
<1>6. \A w \in Windows : ~Drawn(desk[p], w)
  BY DrawnIsUp
<1>7. ASSUME NEW w \in Windows
      PROVE  /\ ~ToggleMinimize(p, w) /\ ~ToggleMaximize(p, w) /\ ~HideWindow(p, w)
             /\ ~CloseWindow(p, w) /\ ~OpenWindow(p, w) /\ ~DragOut(p, w)
             /\ \A side \in Sides, i \in 0 .. Len(StartOrder) : ~DropAt(p, w, side, i)
  BY <1>6 DEF ToggleMinimize, ToggleMaximize, HideWindow, CloseWindow, OpenWindow, DragOut, DropAt
<1> QED BY <1>1, <1>3, <1>4, <1>5, <1>7

(* A page that loads finds the windows as the layout was last saved, in the     *)
(* docks, the order and the states they had, whichever page saved it.           *)
THEOREM ReloadAlwaysKeepsDesk == DeskSpec => ReloadKeepsDesk
<1> DEFINE A == \A p \in Pages :
       ~desk[p].up /\ desk'[p].up /\ layout.saved =>
         /\ \A w \in Windows :
              shown.state[w] # "closed" =>
                /\ desk'[p].dock[w] = shown.dock[w]
                /\ (desk'[p].state[w] = "minimized") = (shown.state[w] = "minimized")
                /\ (desk'[p].state[w] = "hidden") =
                     (shown.state[w] = "hidden" /\ w \notin StartVisible)
         /\ \A s \in Sides : IsPrefix(shown.order[s], desk'[p].order[s])
         /\ desk'[p].collapsed = shown.collapsed
<1>1. DeskInv /\ [DeskNext]_deskVars => [A]_deskVars
  <2> SUFFICES ASSUME DeskInv, DeskNext, NEW p \in Pages,
                      ~desk[p].up, desk'[p].up, layout.saved
               PROVE  /\ \A w \in Windows :
                           shown.state[w] # "closed" =>
                             /\ desk'[p].dock[w] = shown.dock[w]
                             /\ (desk'[p].state[w] = "minimized") = (shown.state[w] = "minimized")
                             /\ (desk'[p].state[w] = "hidden") =
                                  (shown.state[w] = "hidden" /\ w \notin StartVisible)
                      /\ \A s \in Sides : IsPrefix(shown.order[s], desk'[p].order[s])
                      /\ desk'[p].collapsed = shown.collapsed
    BY DEF deskVars
  <2> DEFINE d == [Bare EXCEPT !.up = TRUE, !.order = layout.order,
                               !.collapsed = layout.collapsed]
             z == AllOpened(d)
  <2>1. LoadPage(p)
    BY OnlyLoads
  <2>2. desk'[p] = [z EXCEPT !.unsaved = TRUE]
    BY <2>1 DEF LoadPage, Changes, DeskInv
  <2> HIDE DEF d, z
  <2>3. OpenSoFar(z, Len(StartOrder)) /\ First(Len(StartOrder)) = Windows
    BY LoadedIs DEF d, z
  <2>4. /\ desk'[p].state = z.state /\ desk'[p].dock = z.dock /\ desk'[p].order = z.order
        /\ desk'[p].collapsed = z.collapsed
    BY <2>2, <2>3 DEF OpenSoFar, Desks
  <2>5. LayoutTells /\ layout \in Layouts
    BY DEF DeskInv
  <2>6. layout.collapsed = shown.collapsed /\ layout.order = shown.order
    BY <2>5 DEF LayoutTells
  <2>7. ASSUME NEW w \in Windows, shown.state[w] # "closed"
        PROVE  /\ z.dock[w] = shown.dock[w]
               /\ (z.state[w] = "minimized") = (shown.state[w] = "minimized")
               /\ (z.state[w] = "hidden") = (shown.state[w] = "hidden" /\ w \notin StartVisible)
    <3>1. z.dock[w] = StartDock(w) /\ z.state[w] = StartState(w)
      BY <2>3 DEF OpenSoFar
    <3>2. /\ w \in layout.known /\ layout.dock[w] = shown.dock[w]
          /\ w \in layout.minimized <=> shown.state[w] = "minimized"
          /\ w \in layout.hidden <=> shown.state[w] = "hidden"
          /\ shown.state[w] = "minimized" => shown.dock[w] # "none"
      BY <2>5, <2>7 DEF LayoutTells, Placed
    <3>3. StartDock(w) = shown.dock[w]
      BY <3>2 DEF StartDock
    <3>4. StartsHidden(w) <=> shown.state[w] = "hidden" /\ w \notin StartVisible
      BY <3>2 DEF StartsHidden
    <3>5. StartState(w) = IF StartsHidden(w) THEN "hidden"
                          ELSE IF w \in layout.minimized /\ StartDock(w) # "none"
                            THEN "minimized" ELSE "normal"
      BY DEF StartState
    <3>6. (z.state[w] = "minimized") <=> (shown.state[w] = "minimized")
      BY <3>1, <3>2, <3>3, <3>4, <3>5
    <3>7. (z.state[w] = "hidden") <=> (shown.state[w] = "hidden" /\ w \notin StartVisible)
      BY <3>1, <3>4, <3>5
    <3> QED BY <3>1, <3>3, <3>6, <3>7
  <2>8. \A s \in Sides : IsPrefix(shown.order[s], z.order[s])
    BY <2>3, <2>6 DEF OpenSoFar
  <2> QED BY <2>3, <2>4, <2>6, <2>7, <2>8 DEF OpenSoFar
<1> HIDE DEF A
<1>2. DeskInv /\ [DeskNext]_deskVars => [A]_deskVars
  BY <1>1
<1>3. DeskSpec => [][A]_deskVars
  BY <1>2, DeskInvAlways, PTL DEF DeskSpec
<1> QED BY <1>3 DEF ReloadKeepsDesk, A

-----------------------------------------------------------------------------
(* Types: the bridge *)

\* The Shell's side of a tab, and the poll.
TabTypes ==
  /\ tab \in {"live", "gone"}
  /\ directed \in Seq(Directives) /\ shell \in Seq(Directives) /\ lost \subseteq Directives
  /\ poll \in [state : {"none", "asked", "answered", "failed"}, got : Seq(Directives)]
  /\ batch \in Seq(Directives)

\* The mailbox: every parked peer_wait is in its list, and once.
MailTypes ==
  /\ inbox \in Seq(Mail) /\ mailed \in Seq(Mail) /\ byAgent \subseteq Mail
  /\ waiter \in [Waits -> {"unmade", "parked", "settled"}]
  /\ parked \in Seq(Waits) /\ Distinct(parked)
  /\ Elements(parked) = {k \in Waits : waiter[k] = "parked"}

\* The turn: its Run is one of those opened.
RunTypes ==
  /\ opened \in Nat /\ run \in 0 .. opened /\ ended \subseteq 1 .. opened
  /\ chain \in Seq(1 .. opened) /\ streamed \in 0 .. MaxUpdates
  /\ loop \in {"prompting", "pushing"} => run \in 1 .. opened
  /\ loop \in Places
WorkTypes ==
  /\ work \in Seq(Directives \cup Mail) /\ ran \in Seq(Directives \cup Mail)
FlagTypes ==
  /\ signalled \in BOOLEAN /\ running \in BOOLEAN /\ stopped \in BOOLEAN
  /\ faults \in 0 .. MaxFaults

BridgeTypes == TabTypes /\ MailTypes /\ RunTypes /\ WorkTypes /\ FlagTypes

(* Nothing is asked of a bridge before it starts. *)
LEMMA BridgeTypesInitially == BridgeInit => BridgeTypes
<1> SUFFICES ASSUME BridgeInit PROVE BridgeTypes
  OBVIOUS
<1>1. \A T : <<>> \in Seq(T)
  BY EmptySeq
<1>2. NoPoll \in [state : {"none", "asked", "answered", "failed"}, got : Seq(Directives)]
  BY <1>1 DEF NoPoll
<1>3. TabTypes
  BY <1>1, <1>2 DEF BridgeInit, TabTypes
<1>4. MailTypes
  <2>1. Distinct(<<>>) /\ Elements(<<>>) = {}
    BY EmptySeq DEF Distinct, Elements
  <2>2. \A k \in Waits : waiter[k] # "parked"
    BY DEF BridgeInit
  <2> QED BY <1>1, <2>1, <2>2 DEF BridgeInit, MailTypes
<1>5. RunTypes
  BY <1>1, BridgeAssumption DEF BridgeInit, RunTypes, Places
<1>6. WorkTypes
  BY <1>1 DEF BridgeInit, WorkTypes
<1>7. FlagTypes
  <2>1. faults \in 0 .. MaxFaults
    BY BridgeAssumption DEF BridgeInit
  <2> QED BY <2>1 DEF BridgeInit, FlagTypes
<1> QED BY <1>3, <1>4, <1>5, <1>6, <1>7 DEF BridgeTypes

(* The waiting list when its first is served, and when one leaves it. *)
LEMMA ParkedServed ==
  ASSUME MailTypes, parked # <<>>
  PROVE  /\ Head(parked) \in Waits /\ Tail(parked) \in Seq(Waits) /\ Distinct(Tail(parked))
         /\ Elements(Tail(parked)) = Elements(parked) \ {Head(parked)}
<1> DEFINE h == Head(parked)
           t == Tail(parked)
<1>1. /\ h \in Waits /\ t \in Seq(Waits) /\ Elements(parked) = {h} \cup Elements(t)
      /\ \A i \in DOMAIN t : i + 1 \in DOMAIN parked /\ t[i] = parked[i + 1]
  BY HeadAndTail DEF MailTypes
<1>2. h = parked[1] /\ 1 \in DOMAIN parked
  BY DEF MailTypes
<1>3. DOMAIN t \subseteq Nat \ {0}
  BY <1>1
<1> HIDE DEF h, t
<1>4. Distinct(parked)
  BY DEF MailTypes
<1>5. \A i \in DOMAIN t : t[i] # h
  <2> SUFFICES ASSUME NEW i \in DOMAIN t, t[i] = h PROVE FALSE
    OBVIOUS
  <2>1. i + 1 \in DOMAIN parked /\ parked[i + 1] = parked[1] /\ i + 1 # 1
    BY <1>1, <1>2, <1>3
  <2> QED BY <2>1, <1>2, <1>4 DEF Distinct
<1>6. Distinct(t)
  <2> SUFFICES ASSUME NEW i \in DOMAIN t, NEW j \in DOMAIN t, t[i] = t[j] PROVE i = j
    BY DEF Distinct
  <2>1. i + 1 = j + 1
    BY <1>1, <1>4 DEF Distinct
  <2> QED BY <2>1, <1>3
<1>7. h \notin Elements(t)
  BY <1>5 DEF Elements
<1> QED BY <1>1, <1>6, <1>7 DEF h, t

(* The launcher, the agent and the loop each take from the mailbox. *)
LEMMA MailTypesKept == MailTypes /\ [BridgeNext]_bridgeVars => MailTypes'
<1> SUFFICES ASSUME MailTypes, [BridgeNext]_bridgeVars PROVE MailTypes'
  OBVIOUS
<1>0. MailTypes
  OBVIOUS
<1>1. ASSUME UNCHANGED <<mailed, byAgent, waiter, parked>>, inbox' \in Seq(Mail) PROVE MailTypes'
  BY <1>1 DEF MailTypes
<1>2. ASSUME inbox # <<>> PROVE Head(inbox) \in Mail /\ Tail(inbox) \in Seq(Mail)
  BY <1>2, HeadTailProperties DEF MailTypes
<1>3. ASSUME NEW m \in Mail, SendMail(m) PROVE MailTypes'
  <2>1. mailed' = Append(mailed, m)
    BY <1>3 DEF SendMail
  <2>2. CASE parked # <<>>
    <3>1. /\ waiter' = [waiter EXCEPT ![Head(parked)] = "settled"] /\ parked' = Tail(parked)
          /\ byAgent' = byAgent \cup {m} /\ inbox' = inbox
      BY <1>3, <2>2 DEF SendMail
    <3>2. {k \in Waits : waiter'[k] = "parked"} = {k \in Waits : waiter[k] = "parked"} \ {Head(parked)}
      BY <3>1, <2>2, ParkedServed DEF MailTypes
    <3> QED BY <2>1, <2>2, <3>1, <3>2, ParkedServed DEF MailTypes
  <2>3. CASE parked = <<>>
    <3>1. inbox' = Append(inbox, m) /\ UNCHANGED <<waiter, parked, byAgent>>
      BY <1>3, <2>3 DEF SendMail
    <3> QED BY <2>1, <3>1 DEF MailTypes
  <2> QED BY <2>2, <2>3
<1>4. ASSUME NEW k \in Waits, AgentWaits(k) PROVE MailTypes'
  <2>1. mailed' = mailed /\ waiter[k] = "unmade"
    BY <1>4 DEF AgentWaits
  <2>2. CASE inbox # <<>>
    <3>1. /\ byAgent' = byAgent \cup {Head(inbox)} /\ inbox' = Tail(inbox) /\ parked' = parked
          /\ waiter' = [waiter EXCEPT ![k] = "settled"]
      BY <1>4, <2>2 DEF AgentWaits
    <3>2. {j \in Waits : waiter'[j] = "parked"} = {j \in Waits : waiter[j] = "parked"}
      BY <2>1, <3>1 DEF MailTypes
    <3> QED BY <1>2, <2>1, <2>2, <3>1, <3>2 DEF MailTypes
  <2>3. CASE inbox = <<>>
    <3>1. /\ waiter' = [waiter EXCEPT ![k] = "parked"] /\ parked' = Append(parked, k)
          /\ UNCHANGED <<inbox, byAgent>>
      BY <1>4, <2>3 DEF AgentWaits
    <3>2. k \notin Elements(parked)
      BY <2>1 DEF MailTypes
    <3>3. Append(parked, k) \in Seq(Waits) /\ Elements(Append(parked, k)) = Elements(parked) \cup {k}
      BY ElementsOfAppend DEF MailTypes
    <3>4. Distinct(Append(parked, k))
      <4>1. \A i \in DOMAIN parked : parked[i] # k
        BY <3>2 DEF Elements
      <4>2. parked \in Seq(Waits) /\ Distinct(parked)
        BY DEF MailTypes
      <4> QED BY <4>1, <4>2 DEF Distinct
    <3>5. {j \in Waits : waiter'[j] = "parked"} = {j \in Waits : waiter[j] = "parked"} \cup {k}
      BY <3>1 DEF MailTypes
    <3> QED BY <2>1, <3>1, <3>3, <3>4, <3>5 DEF MailTypes
  <2> QED BY <2>2, <2>3
<1>5. ASSUME NEW k \in Waits, WaitEnds(k) PROVE MailTypes'
  <2>1. /\ waiter' = [waiter EXCEPT ![k] = "settled"] /\ parked' = Without(parked, {k})
        /\ UNCHANGED <<inbox, mailed, byAgent>>
    BY <1>5 DEF WaitEnds
  <2>2. /\ Without(parked, {k}) \in Seq(Waits)
        /\ Elements(Without(parked, {k})) = Elements(parked) \ {k}
    BY WithoutFacts DEF MailTypes
  <2>3. Distinct(Without(parked, {k}))
    BY OnlyDistinct DEF Without, MailTypes
  <2>4. {j \in Waits : waiter'[j] = "parked"} = {j \in Waits : waiter[j] = "parked"} \ {k}
    BY <2>1 DEF MailTypes
  <2> QED BY <2>1, <2>2, <2>3, <2>4 DEF MailTypes
<1>6. CASE Top
  <2>1. inbox' = inbox \/ (inbox # <<>> /\ inbox' = Tail(inbox))
    BY <1>6 DEF Top
  <2>2. UNCHANGED <<mailed, byAgent, waiter, parked>>
    BY <1>6 DEF Top
  <2> QED BY <1>0, <1>1, <1>2, <2>1, <2>2 DEF MailTypes
<1>7. CASE \/ \E d \in Directives : Direct(d)
           \/ PollAnswered \/ \E drained \in BOOLEAN : PollFails(drained)
           \/ StartLoop \/ PeerWins \/ PollWins \/ Wake \/ NextDelivery
           \/ OpenTurn \/ OpenFails \/ Update \/ PromptEnds \/ PushEvent \/ FinishTurn
           \/ AgentExits \/ Dispose \/ TabGoes \/ UNCHANGED bridgeVars
  <2>1. UNCHANGED mailVars
    BY <1>7 DEF Direct, PollAnswered, PollFails, StartLoop, PeerWins, PollWins, Wake, NextDelivery,
                OpenTurn, OpenFails, Update, PromptEnds, PushEvent, FinishTurn, AgentExits, Dispose,
                TabGoes, bridgeVars, mailVars
  <2> QED BY <1>0, <1>1, <2>1 DEF mailVars, MailTypes
<1> QED BY <1>3, <1>4, <1>5, <1>6, <1>7 DEF BridgeNext

(* Directives go from the Shell to an answer, to the batch, and to the turns. *)
LEMMA TabTypesKept == TabTypes /\ [BridgeNext]_bridgeVars => TabTypes'
<1> SUFFICES ASSUME TabTypes, [BridgeNext]_bridgeVars PROVE TabTypes'
  OBVIOUS
<1>1. <<>> \in Seq(Directives)
  BY EmptySeq
<1> DEFINE Answers == [state : {"none", "asked", "answered", "failed"}, got : Seq(Directives)]
<1>2. \A s \in {"none", "answered", "failed"}, d \in Seq(Directives) :
        [state |-> s, got |-> d] \in Answers
  OBVIOUS
<1>3. poll.got \in Seq(Directives) /\ [poll EXCEPT !.state = "asked"] \in Answers /\ NoPoll \in Answers
  BY <1>1 DEF TabTypes, NoPoll
<1>4. Elements(shell) \subseteq Directives /\ Range(shell) = Elements(shell)
  BY ElementsOfAppend DEF TabTypes, Elements, Range
<1>5. CASE \E d \in Directives : Direct(d)
  BY <1>5 DEF Direct, TabTypes
<1>6. CASE PollAnswered
  BY <1>1, <1>2, <1>6 DEF PollAnswered, TabTypes
<1>7. CASE \E drained \in BOOLEAN : PollFails(drained)
  <2>1. /\ poll' = [state |-> "failed", got |-> <<>>] /\ UNCHANGED <<tab, directed, batch>>
        /\ shell' \in {shell, <<>>} /\ lost' \subseteq lost \cup Range(shell)
    BY <1>7 DEF PollFails
  <2> QED BY <1>1, <1>2, <1>4, <2>1 DEF TabTypes
<1>8. CASE Top
  <2>1. poll' \in {poll, [poll EXCEPT !.state = "asked"]} /\ UNCHANGED <<tab, directed, shell, lost, batch>>
    BY <1>8 DEF Top, shellVars
  <2> QED BY <1>3, <2>1 DEF TabTypes
<1>9. CASE PollWins
  <2>1. batch' = poll.got /\ poll' = NoPoll /\ UNCHANGED <<tab, directed, shell, lost>>
    BY <1>9 DEF PollWins, shellVars
  <2> QED BY <1>3, <2>1 DEF TabTypes
<1>10. CASE NextDelivery
  <2>1. batch' = batch \/ (batch # <<>> /\ batch' = Tail(batch))
    BY <1>10 DEF NextDelivery
  <2>2. UNCHANGED <<tab, directed, shell, lost, poll>>
    BY <1>10 DEF NextDelivery, shellVars
  <2>3. batch \in Seq(Directives)
    BY DEF TabTypes
  <2>4. batch' \in Seq(Directives)
    BY <2>1, <2>3, HeadTailProperties
  <2> QED BY <2>2, <2>4 DEF TabTypes
<1>11. CASE Dispose
  <2>1. /\ poll' \in {poll, [state |-> "answered", got |-> <<>>]}
        /\ UNCHANGED <<tab, directed, shell, lost, batch>>
    BY <1>11 DEF Dispose, shellVars
  <2> QED BY <1>1, <1>2, <2>1 DEF TabTypes
<1>12. CASE AgentExits \/ TabGoes
  BY <1>12 DEF AgentExits, TabGoes, TabTypes, shellVars
<1>13. CASE \/ \E m \in Mail : SendMail(m)
            \/ \E k \in Waits : AgentWaits(k) \/ WaitEnds(k)
            \/ StartLoop \/ PeerWins \/ Wake \/ OpenTurn \/ OpenFails \/ Update \/ PromptEnds
            \/ PushEvent \/ FinishTurn \/ UNCHANGED bridgeVars
  <2>1. UNCHANGED <<tab, directed, shell, lost, poll, batch>>
    BY <1>13 DEF SendMail, AgentWaits, WaitEnds, StartLoop, PeerWins, Wake, OpenTurn, OpenFails, Update,
                 PromptEnds, PushEvent, FinishTurn, bridgeVars, shellVars
  <2> QED BY <2>1 DEF TabTypes
<1> QED BY <1>5, <1>6, <1>7, <1>8, <1>9, <1>10, <1>11, <1>12, <1>13 DEF BridgeNext

(* A turn is of a Run that was opened for it. *)
LEMMA RunTypesKept == RunTypes /\ [BridgeNext]_bridgeVars => RunTypes'
<1> SUFFICES ASSUME RunTypes, [BridgeNext]_bridgeVars PROVE RunTypes'
  OBVIOUS
<1>1. ASSUME UNCHANGED <<opened, run, ended, chain, streamed>>, loop' \in Places,
             loop' \in {"prompting", "pushing"} => loop \in {"prompting", "pushing"}
      PROVE  RunTypes'
  BY <1>1 DEF RunTypes
<1>2. loop \in Places
  BY DEF RunTypes
<1>3. CASE OpenTurn
  <2>1. /\ loop' = "prompting" /\ opened' = opened + 1 /\ run' = opened' /\ streamed' = 0
        /\ UNCHANGED <<ended, chain>>
    BY <1>3 DEF OpenTurn
  <2>2. opened' \in Nat /\ run' \in 1 .. opened' /\ 1 .. opened \subseteq 1 .. opened'
    BY <2>1 DEF RunTypes
  <2>3. chain' \in Seq(1 .. opened')
    BY <2>1, <2>2 DEF RunTypes
  <2> QED BY <2>1, <2>2, <2>3, BridgeAssumption DEF RunTypes, Places
<1>4. CASE Update
  <2>1. run \in 1 .. opened
    BY <1>4 DEF Update, RunTypes
  <2>2. /\ streamed' = streamed + 1 /\ streamed < MaxUpdates /\ chain' = Append(chain, run)
        /\ UNCHANGED <<loop, run, opened, ended>>
    BY <1>4 DEF Update
  <2> QED BY <2>1, <2>2, BridgeAssumption DEF RunTypes
<1>5. CASE PromptEnds
  <2>1. run \in 1 .. opened
    BY <1>5 DEF PromptEnds, RunTypes
  <2>2. loop' = "pushing" /\ chain' = Append(chain, run) /\ UNCHANGED <<run, opened, ended, streamed>>
    BY <1>5 DEF PromptEnds
  <2> QED BY <2>1, <2>2 DEF RunTypes, Places
<1>6. CASE PushEvent
  <2>1. chain # <<>> /\ chain' = Tail(chain) /\ UNCHANGED <<loop, run, opened, ended, streamed>>
    BY <1>6 DEF PushEvent
  <2> QED BY <2>1, HeadTailProperties DEF RunTypes
<1>7. CASE FinishTurn
  <2>1. run \in 1 .. opened
    BY <1>7 DEF FinishTurn, RunTypes
  <2>2. /\ ended' = ended \cup {run} /\ run' = 0 /\ loop' \in {"top", "batch"}
        /\ UNCHANGED <<opened, chain, streamed>>
    BY <1>7 DEF FinishTurn
  <2> QED BY <2>1, <2>2 DEF RunTypes, Places
<1>8. CASE \/ \E d \in Directives : Direct(d)
           \/ \E m \in Mail : SendMail(m)
           \/ \E k \in Waits : AgentWaits(k) \/ WaitEnds(k)
           \/ PollAnswered \/ \E drained \in BOOLEAN : PollFails(drained)
           \/ Dispose \/ TabGoes \/ UNCHANGED bridgeVars
  <2>1. UNCHANGED <<opened, run, ended, chain, streamed, loop>>
    BY <1>8 DEF Direct, SendMail, AgentWaits, WaitEnds, PollAnswered, PollFails, Dispose, TabGoes,
                bridgeVars, turnVars
  <2> QED BY <1>1, <1>2, <2>1
<1>9. CASE Top
  <2>1. /\ UNCHANGED <<opened, run, ended, chain, streamed>>
        /\ loop' \in {"over", "opening", "racing"}
    BY <1>9 DEF Top
  <2> QED BY <1>1, <2>1 DEF Places
<1>10. CASE StartLoop \/ PeerWins \/ PollWins \/ Wake \/ OpenFails
  <2>1. UNCHANGED turnVars /\ loop' \in {"top", "backoff", "batch", "over"}
    BY <1>10 DEF StartLoop, PeerWins, PollWins, Wake, OpenFails
  <2> QED BY <1>1, <2>1 DEF turnVars, Places
<1>11. CASE NextDelivery
  <2>1. UNCHANGED <<opened, run, ended, chain, streamed>> /\ loop' \in {"top", "opening"}
    BY <1>11 DEF NextDelivery
  <2> QED BY <1>1, <2>1 DEF Places
<1>12. CASE AgentExits
  <2>1. UNCHANGED turnVars /\ loop' \in {loop, "over"}
    BY <1>12 DEF AgentExits
  <2> QED BY <1>1, <1>2, <2>1 DEF turnVars, Places
<1> QED BY <1>3, <1>4, <1>5, <1>6, <1>7, <1>8, <1>9, <1>10, <1>11, <1>12 DEF BridgeNext

(* What a turn works on is a directive or mail. *)
LEMMA WorkTypesKept ==
  TabTypes /\ MailTypes /\ WorkTypes /\ [BridgeNext]_bridgeVars => WorkTypes'
<1> SUFFICES ASSUME TabTypes, MailTypes, WorkTypes, [BridgeNext]_bridgeVars PROVE WorkTypes'
  OBVIOUS
<1> DEFINE Items == Directives \cup Mail
<1>1. <<>> \in Seq(Items) /\ \A e \in Items : <<e>> \in Seq(Items)
  BY EmptySeq
<1>2. work \in Seq(Items) /\ ran \in Seq(Items)
  BY DEF WorkTypes
<1>3. (inbox # <<>> => Head(inbox) \in Items) /\ (batch # <<>> => Head(batch) \in Items)
  BY HeadTailProperties DEF TabTypes, MailTypes
<1>4. ran \o work \in Seq(Items)
  BY <1>2, ConcatProperties
<1>5. CASE Top
  <2>1. ran' = ran /\ (work' = work \/ (inbox # <<>> /\ work' = <<Head(inbox)>>))
    BY <1>5 DEF Top
  <2> QED BY <1>1, <1>2, <1>3, <2>1 DEF WorkTypes
<1>6. CASE NextDelivery
  <2>1. ran' = ran /\ (work' = work \/ (batch # <<>> /\ work' = <<Head(batch)>>))
    BY <1>6 DEF NextDelivery
  <2> QED BY <1>1, <1>2, <1>3, <2>1 DEF WorkTypes
<1>7. CASE OpenTurn
  BY <1>2, <1>4, <1>7 DEF OpenTurn, WorkTypes
<1>8. CASE FinishTurn
  BY <1>1, <1>2, <1>8 DEF FinishTurn, WorkTypes
<1>9. CASE \/ \E d \in Directives : Direct(d)
           \/ \E m \in Mail : SendMail(m)
           \/ \E k \in Waits : AgentWaits(k) \/ WaitEnds(k)
           \/ PollAnswered \/ \E drained \in BOOLEAN : PollFails(drained)
           \/ StartLoop \/ PeerWins \/ PollWins \/ Wake \/ OpenFails \/ Update \/ PromptEnds
           \/ PushEvent \/ AgentExits \/ Dispose \/ TabGoes \/ UNCHANGED bridgeVars
  <2>1. UNCHANGED <<work, ran>>
    BY <1>9 DEF Direct, SendMail, AgentWaits, WaitEnds, PollAnswered, PollFails, StartLoop, PeerWins,
                PollWins, Wake, OpenFails, Update, PromptEnds, PushEvent, AgentExits, Dispose, TabGoes,
                bridgeVars, turnVars
  <2> QED BY <1>2, <2>1 DEF WorkTypes
<1> QED BY <1>5, <1>6, <1>7, <1>8, <1>9 DEF BridgeNext

(* The flags, and the calls that failed. *)
LEMMA FlagTypesKept == FlagTypes /\ [BridgeNext]_bridgeVars => FlagTypes'
<1> SUFFICES ASSUME FlagTypes, [BridgeNext]_bridgeVars PROVE FlagTypes'
  OBVIOUS
<1>1. faults' = faults \/ (faults < MaxFaults /\ faults' = faults + 1)
  <2>1. CASE \E drained \in BOOLEAN : PollFails(drained)
    BY <2>1 DEF PollFails
  <2>2. CASE OpenFails
    BY <2>2 DEF OpenFails
  <2>3. CASE UNCHANGED faults
    BY <2>3
  <2> QED BY <2>1, <2>2, <2>3
          DEF BridgeNext, Direct, SendMail, AgentWaits, WaitEnds, PollAnswered, StartLoop, Top,
              PeerWins, PollWins, Wake, NextDelivery, OpenTurn, Update, PromptEnds, PushEvent,
              FinishTurn, AgentExits, Dispose, TabGoes, bridgeVars
<1>2. faults' \in 0 .. MaxFaults
  BY <1>1, BridgeAssumption DEF FlagTypes
<1>3. signalled' = signalled \/ signalled' = FALSE \/ signalled' = (loop = "racing" \/ signalled)
  BY DEF BridgeNext, Direct, SendMail, AgentWaits, WaitEnds, PollAnswered, PollFails, StartLoop, Top,
         PeerWins, PollWins, Wake, NextDelivery, OpenTurn, OpenFails, Update, PromptEnds, PushEvent,
         FinishTurn, AgentExits, Dispose, TabGoes, bridgeVars
<1>4. running' \in {running, TRUE, FALSE} /\ stopped' \in {stopped, TRUE}
  BY DEF BridgeNext, Direct, SendMail, AgentWaits, WaitEnds, PollAnswered, PollFails, StartLoop, Top,
         PeerWins, PollWins, Wake, NextDelivery, OpenTurn, OpenFails, Update, PromptEnds, PushEvent,
         FinishTurn, AgentExits, Dispose, TabGoes, bridgeVars, flags
<1>5. signalled' \in BOOLEAN
  BY <1>3 DEF FlagTypes
<1>6. running' \in BOOLEAN /\ stopped' \in BOOLEAN
  BY <1>4 DEF FlagTypes
<1> QED BY <1>2, <1>5, <1>6 DEF FlagTypes

(* The bridge's variables keep their types, before its disposal and after: every parked
   peer_wait is in the mailbox's list, and each event is of a Run that was opened. *)
THEOREM BridgeTypesAlwaysOK == BridgeSpec => []BridgeTypeOK
<1>1. BridgeTypes /\ [BridgeNext]_bridgeVars => BridgeTypes'
  BY TabTypesKept, MailTypesKept, RunTypesKept, WorkTypesKept, FlagTypesKept DEF BridgeTypes
<1>2. BridgeTypes => BridgeTypeOK
  <2>1. Range(parked) = Elements(parked)
    BY DEF Range, Elements
  <2> QED BY <2>1 DEF BridgeTypes, TabTypes, MailTypes, RunTypes, WorkTypes, FlagTypes, BridgeTypeOK
<1> QED BY <1>1, <1>2, BridgeTypesInitially, PTL DEF BridgeSpec

-----------------------------------------------------------------------------
(* Types: the queue *)

(* A sequence without repetitions has as many elements as it is long. *)
LEMMA DistinctCounts ==
  ASSUME NEW T
  PROVE  \A s \in Seq(T) : Distinct(s) =>
           IsFiniteSet(Elements(s)) /\ Cardinality(Elements(s)) = Len(s)
<1> DEFINE Q == {s \in Seq(T) : Distinct(s) =>
                   IsFiniteSet(Elements(s)) /\ Cardinality(Elements(s)) = Len(s)}
<1>1. <<>> \in Q
  <2>1. <<>> \in Seq(T) /\ Elements(<<>>) = {} /\ Len(<<>>) = 0
    BY EmptySeq DEF Elements
  <2> QED BY <2>1, FS_EmptySet
<1>2. ASSUME NEW s \in Seq(T), NEW e \in T, s \in Q PROVE Append(s, e) \in Q
  <2> SUFFICES ASSUME Distinct(Append(s, e))
               PROVE  /\ IsFiniteSet(Elements(Append(s, e)))
                      /\ Cardinality(Elements(Append(s, e))) = Len(Append(s, e))
    BY ElementsOfAppend
  <2>1. Distinct(s) /\ e \notin Elements(s)
    <3>1. /\ \A i \in DOMAIN s : Append(s, e)[i] = s[i] /\ i \in DOMAIN Append(s, e)
                                  /\ i # Len(s) + 1
          /\ Append(s, e)[Len(s) + 1] = e /\ Len(s) + 1 \in DOMAIN Append(s, e)
      OBVIOUS
    <3> QED BY <3>1, Zenon DEF Distinct, Elements
  <2>2. IsFiniteSet(Elements(s)) /\ Cardinality(Elements(s)) = Len(s)
    BY <1>2, <2>1
  <2>3. Elements(Append(s, e)) = Elements(s) \cup {e} /\ Len(Append(s, e)) = Len(s) + 1
    BY ElementsOfAppend
  <2>4. /\ IsFiniteSet(Elements(s) \cup {e})
        /\ Cardinality(Elements(s) \cup {e}) = Cardinality(Elements(s)) + 1
    BY <2>1, <2>2, FS_AddElement
  <2> QED BY <2>2, <2>3, <2>4
<1>3. Seq(T) \subseteq Q
  <2> HIDE DEF Q
  <2> QED BY <1>1, <1>2, SequencesFrom
<1> QED BY <1>3

(* A poll is in the waiting list once: one parks when it is made, and what leaves does
   not come back. *)
LEMMA WaitingStaysDistinct ==
  QueueInv /\ Distinct(waiting) /\ [QueueNext]_queueVars => Distinct(waiting)'
<1> SUFFICES ASSUME QueueInv, Distinct(waiting), [QueueNext]_queueVars PROVE Distinct(waiting')
  BY DEF Distinct
<1>1. waiting \in Seq(Polls)
  BY DEF QueueInv
<1>2. ASSUME NEW S PROVE Distinct(Without(waiting, S))
  BY <1>1, OnlyDistinct DEF Without
<1>3. ASSUME NEW k \in Polls, NEW s \in Agents \cup {Everyone}, Take(k, s)
      PROVE  Distinct(waiting')
  <2>1. waiting' \in {waiting, Append(waiting, k)} /\ polls[k].state = "unmade"
    BY <1>3 DEF Take
  <2>2. k \notin Elements(waiting)
    BY <2>1 DEF QueueInv
  <2>3. \A i \in DOMAIN waiting : waiting[i] # k
    BY <2>2 DEF Elements
  <2>4. Distinct(Append(waiting, k))
    BY <1>1, <2>3 DEF Distinct
  <2> QED BY <2>1, <2>4
<1>4. CASE \/ \E a \in Agents : Push(a) \/ Drop(a)
           \/ \E k \in Polls : Timeout(k) \/ Break(k) \/ Abort(k)
           \/ UNCHANGED queueVars
  <2>1. waiting' = waiting \/ \E S : waiting' = Without(waiting, S)
    BY <1>4 DEF Push, Drop, Timeout, Break, Abort, queueVars
  <2> QED BY <1>2, <2>1
<1> QED BY <1>3, <1>4 DEF QueueNext

(* The queue's variables keep their types, and the waiting list has every parked poll,
   and once. *)
THEOREM QueueTypesAlwaysOK == QueueSpec => []QueueTypeOK
<1>1. QueueInit => Distinct(waiting)
  BY EmptySeq DEF QueueInit, Distinct
<1>2. QueueInv /\ Distinct(waiting) => QueueTypeOK
  <2> SUFFICES ASSUME QueueInv, Distinct(waiting) PROVE QueueTypeOK
    OBVIOUS
  <2>1. waiting \in Seq(Polls) /\ Elements(waiting) = {k \in Polls : polls[k].state = "parked"}
    BY DEF QueueInv
  <2>2. Cardinality(Elements(waiting)) = Len(waiting)
    BY <2>1, DistinctCounts
  <2>3. {waiting[i] : i \in DOMAIN waiting} = Elements(waiting)
    BY DEF Elements
  <2> QED BY <2>1, <2>2, <2>3 DEF QueueInv, QueueTypeOK
<1> QED BY <1>1, <1>2, QueueInvInitially, QueueKeepsInv, WaitingStaysDistinct, PTL DEF QueueSpec

-----------------------------------------------------------------------------
(* Types: the cascade *)

\* The Messages whose fan-out is still to run, by their room and their place in it.
Pending == {pair \in Rooms \X Nat : pair[2] \in 1 .. Len(posts[pair[1]])}

\* A wave is handed out for a Message that was dispatched, so there are no more of
\* them than Messages were posted.
MintedInv ==
  /\ said \in 0 .. MaxPosts /\ IsFiniteSet(Pending)
  /\ minted + Cardinality(Pending) <= said

(* A Message that is posted comes last of its room. *)
LEMMA OnePending ==
  ASSUME posts \in [Rooms -> Seq(Posts)], NEW r \in Rooms, NEW message \in Posts,
         posts' = [posts EXCEPT ![r] = Append(@, message)]
  PROVE  /\ <<r, Len(posts[r]) + 1>> \notin Pending
         /\ Pending' = Pending \cup {<<r, Len(posts[r]) + 1>>}
<1>1. /\ posts[r] \in Seq(Posts) /\ Len(posts[r]) \in Nat
      /\ posts'[r] = Append(posts[r], message) /\ Len(posts'[r]) = Len(posts[r]) + 1
      /\ \A q \in Rooms : q # r => posts'[q] = posts[q]
  OBVIOUS
<1> DEFINE last == <<r, Len(posts[r]) + 1>>
<1>2. last \in Rooms \X Nat /\ last[1] = r /\ last[2] = Len(posts[r]) + 1
  BY <1>1
<1>3. last \notin Pending
  BY <1>1, <1>2 DEF Pending
<1>4. ASSUME NEW pair \in Rooms \X Nat
      PROVE  pair \in Pending' <=> pair \in Pending \/ pair = last
  <2>1. pair = <<pair[1], pair[2]>> /\ pair[1] \in Rooms /\ pair[2] \in Nat
    OBVIOUS
  <2>2. CASE pair[1] = r
    <3>1. pair \in Pending' <=> pair[2] \in 1 .. Len(posts[r]) + 1
      BY <1>1, <2>2 DEF Pending
    <3>2. pair \in Pending <=> pair[2] \in 1 .. Len(posts[r])
      BY <2>2 DEF Pending
    <3>3. pair = last <=> pair[2] = Len(posts[r]) + 1
      BY <2>1, <2>2, <1>2
    <3> QED BY <1>1, <2>1, <3>1, <3>2, <3>3
  <2>3. CASE pair[1] # r
    <3>1. posts'[pair[1]] = posts[pair[1]]
      BY <1>1, <2>1, <2>3
    <3>2. pair # last
      BY <1>2, <2>3
    <3> QED BY <3>1, <3>2 DEF Pending
  <2> QED BY <2>2, <2>3
<1>5. Pending \subseteq Rooms \X Nat /\ Pending' \subseteq Rooms \X Nat
  BY DEF Pending
<1> HIDE DEF last
<1>6. Pending' = Pending \cup {last}
  BY <1>2, <1>4, <1>5
<1> QED BY <1>3, <1>6 DEF last

(* One that is dispatched leaves its room with one less. *)
LEMMA OneDispatched ==
  ASSUME posts \in [Rooms -> Seq(Posts)], NEW r \in Rooms, posts[r] # <<>>,
         posts' = [posts EXCEPT ![r] = Tail(@)]
  PROVE  /\ <<r, Len(posts[r])>> \in Pending
         /\ Pending' = Pending \ {<<r, Len(posts[r])>>}
<1>1. /\ posts[r] \in Seq(Posts) /\ Len(posts[r]) \in Nat \ {0}
      /\ posts'[r] = Tail(posts[r]) /\ Len(posts'[r]) = Len(posts[r]) - 1
      /\ \A q \in Rooms : q # r => posts'[q] = posts[q]
  OBVIOUS
<1> DEFINE last == <<r, Len(posts[r])>>
<1>2. last \in Rooms \X Nat /\ last[1] = r /\ last[2] = Len(posts[r])
  BY <1>1
<1>3. last \in Pending
  BY <1>1, <1>2 DEF Pending
<1>4. ASSUME NEW pair \in Rooms \X Nat
      PROVE  pair \in Pending' <=> pair \in Pending /\ pair # last
  <2>1. pair = <<pair[1], pair[2]>> /\ pair[1] \in Rooms /\ pair[2] \in Nat
    OBVIOUS
  <2>2. CASE pair[1] = r
    <3>1. pair \in Pending' <=> pair[2] \in 1 .. Len(posts[r]) - 1
      BY <1>1, <2>2 DEF Pending
    <3>2. pair \in Pending <=> pair[2] \in 1 .. Len(posts[r])
      BY <2>2 DEF Pending
    <3>3. pair = last <=> pair[2] = Len(posts[r])
      BY <2>1, <2>2, <1>2
    <3> QED BY <1>1, <2>1, <3>1, <3>2, <3>3
  <2>3. CASE pair[1] # r
    <3>1. posts'[pair[1]] = posts[pair[1]]
      BY <1>1, <2>1, <2>3
    <3>2. pair # last
      BY <1>2, <2>3
    <3> QED BY <3>1, <3>2 DEF Pending
  <2> QED BY <2>2, <2>3
<1>5. Pending \subseteq Rooms \X Nat /\ Pending' \subseteq Rooms \X Nat
  BY DEF Pending
<1> HIDE DEF last
<1>6. Pending' = Pending \ {last}
  BY <1>2, <1>4, <1>5
<1> QED BY <1>3, <1>6 DEF last

(* Posting counts a Message, a dispatch may hand out a wave for the one it takes, and
   nothing else hands out any. *)
LEMMA MintedKept == CascadeInv /\ MintedInv /\ [CascadeNext]_cascadeVars => MintedInv'
<1> SUFFICES ASSUME CascadeInv, MintedInv, [CascadeNext]_cascadeVars PROVE MintedInv'
  OBVIOUS
<1>1. /\ posts \in [Rooms -> Seq(Posts)] /\ minted \in Nat /\ said \in Nat
      /\ IsFiniteSet(Pending) /\ Cardinality(Pending) \in Nat
  BY FS_CardinalityType DEF CascadeInv, MintedInv
<1>2. ASSUME NEW r \in Rooms, NEW author \in Participants \cup {Human}, NEW n \in Nat,
             NEW fresh \in BOOLEAN, Post(r, author, fresh, n)
      PROVE  MintedInv'
  <2> DEFINE message == [author |-> author, fresh |-> fresh, hops |-> n]
  <2>1. /\ said < MaxPosts /\ said' = said + 1 /\ minted' = minted
        /\ posts' = [posts EXCEPT ![r] = Append(@, message)]
    BY <1>2 DEF Post
  <2>2. message \in Posts
    BY DEF Posts
  <2> HIDE DEF message
  <2>3. /\ <<r, Len(posts[r]) + 1>> \notin Pending
        /\ Pending' = Pending \cup {<<r, Len(posts[r]) + 1>>}
    BY <1>1, <2>1, <2>2, OnePending
  <2>4. IsFiniteSet(Pending') /\ Cardinality(Pending') = Cardinality(Pending) + 1
    BY <1>1, <2>3, FS_AddElement
  <2> QED BY <1>1, <2>1, <2>4, Bounds DEF MintedInv
<1>3. ASSUME NEW r \in Rooms, Dispatch(r) PROVE MintedInv'
  <2>1. /\ posts[r] # <<>> /\ posts' = [posts EXCEPT ![r] = Tail(@)] /\ said' = said
        /\ minted' \in {minted, WaveFor(Head(posts[r])).id}
    BY <1>3 DEF Dispatch
  <2>2. Head(posts[r]) \in Posts
    <3>1. posts[r] \in Seq(Posts)
      BY <1>1
    <3> QED BY <2>1, <3>1, HeadTailProperties
  <2>3. WaveFor(Head(posts[r])).id \in Nat /\ WaveFor(Head(posts[r])).id <= minted + 1
    <3> SUFFICES ASSUME NEW message \in Posts
                 PROVE  WaveFor(message).id \in Nat /\ WaveFor(message).id <= minted + 1
      BY <2>2
    <3> DEFINE author == message.author
    <3>1. author \in Participants \cup {Human}
      BY DEF Posts
    <3>2. CASE author = Human \/ message.fresh \/ waves[author] = NoWave
      <4>1. WaveFor(message) = [id |-> minted + 1, depth |-> 0]
        BY <3>2 DEF WaveFor
      <4>2. WaveFor(message).id = minted + 1
        BY <4>1
      <4> QED BY <4>2, <1>1
    <3>3. CASE author \in Participants /\ ~message.fresh /\ waves[author] # NoWave
      <4>1. WaveFor(message) = waves[author]
        BY <3>3, CascadeAssumption DEF WaveFor
      <4>2. waves[author].id \in Nat /\ waves[author].id <= minted
        <5>1. Now \in States /\ Numbered(Now, minted)
          BY DEF CascadeInv, Kept
        <5>2. waves = Now.waves
          BY DEF Now
        <5>3. waves \in [Participants -> [id : Nat, depth : 0 .. MaxDepth]]
          BY <5>1, <5>2, StateFields
        <5>4. waves[author] \in [id : Nat, depth : 0 .. MaxDepth]
          BY <3>3, <5>3
        <5>5. waves[author].id \in Nat
          BY <5>4
        <5>6. waves[author].id <= minted
          BY <3>3, <5>1, <5>2 DEF Numbered
        <5> QED BY <5>5, <5>6
      <4> QED BY <4>1, <4>2, <1>1
    <3> QED BY <3>1, <3>2, <3>3
  <2>4. minted' \in Nat /\ minted' <= minted + 1
    BY <1>1, <2>1, <2>3
  <2>5. <<r, Len(posts[r])>> \in Pending /\ Pending' = Pending \ {<<r, Len(posts[r])>>}
    BY <1>1, <2>1, OneDispatched
  <2>6. IsFiniteSet(Pending') /\ Cardinality(Pending') = Cardinality(Pending) - 1
    BY <1>1, <2>5, FS_RemoveElement
  <2> QED BY <1>1, <2>1, <2>4, <2>6 DEF MintedInv
<1>4. CASE \/ \E p \in Participants : AgentStart(p) \/ AgentEnd(p) \/ ComesOrGoes(p)
           \/ UNCHANGED cascadeVars
  <2>1. UNCHANGED <<posts, minted, said>>
    BY <1>4 DEF AgentStart, AgentEnd, ComesOrGoes, cascadeVars
  <2>2. Pending' = Pending
    BY <2>1 DEF Pending
  <2> QED BY <2>1, <2>2 DEF MintedInv
<1>5. ASSUME NEW p \in Participants PROVE hops[p] \in Nat
  BY DEF CascadeInv, Kept, States, Now
<1>6. ASSUME NEW p \in DOMAIN ThreadOf PROVE p \in Participants /\ ThreadOf[p] \in Rooms
  BY CascadeAssumption
<1> QED BY <1>2, <1>3, <1>4, <1>5, <1>6 DEF CascadeNext, HumanPosts, Speak, Report

(* Before the first Message no wave was handed out. *)
LEMMA MintedInitially == CascadeInit => MintedInv
<1> SUFFICES ASSUME CascadeInit PROVE MintedInv
  OBVIOUS
<1>1. \A r \in Rooms : Len(posts[r]) = 0
  BY DEF CascadeInit
<1>2. Pending = {}
  BY <1>1 DEF Pending
<1>3. IsFiniteSet(Pending) /\ Cardinality(Pending) = 0
  BY <1>2, FS_EmptySet
<1> QED BY <1>3, Bounds DEF CascadeInit, MintedInv

(* Seats, turns, waves and budgets keep their types: no wave is deeper than
   MAX_WAVE_DEPTH, none has spent more than MAX_CONVERSATION_REACTIONS in a room, and no
   more waves were handed out than Messages posted. *)
THEOREM CascadeTypesAlwaysOK == CascadeSpec => []CascadeTypeOK
<1>1. CascadeInv /\ MintedInv => CascadeTypeOK
  <2> SUFFICES ASSUME CascadeInv, MintedInv PROVE CascadeTypeOK
    OBVIOUS
  <2>1. /\ Now \in States /\ Numbered(Now, minted) /\ Accounted(Now, minted, 0) /\ minted \in Nat
        /\ posts \in [Rooms -> Seq(Posts)]
        /\ Now.seats = seats /\ Now.turn = turn /\ Now.waves = waves /\ Now.spent = spent
    BY DEF CascadeInv, Kept, Now
  <2>2. /\ seats \in [Participants -> Seats]
        /\ turn \in [Participants -> {"none", "asked", "begun"}]
        /\ waves \in [Participants -> [id : Nat, depth : 0 .. MaxDepth]]
        /\ spent \in [Waves \X Rooms -> Nat]
    BY <2>1, StateFields
  <2>3. minted \in 0 .. MaxPosts /\ said \in 0 .. MaxPosts
    <3>1. Cardinality(Pending) \in Nat
      BY FS_CardinalityType DEF MintedInv
    <3> QED BY <2>1, <3>1, Bounds DEF MintedInv
  <2>4. waves \in [Participants -> [id : 0 .. MaxPosts, depth : 0 .. MaxDepth]]
    <3>1. \A p \in Participants : waves[p] \in [id : 0 .. MaxPosts, depth : 0 .. MaxDepth]
      <4> SUFFICES ASSUME NEW p \in Participants
                   PROVE  waves[p] \in [id : 0 .. MaxPosts, depth : 0 .. MaxDepth]
        OBVIOUS
      <4>1. waves[p] \in [id : Nat, depth : 0 .. MaxDepth] /\ waves[p].id <= minted
        BY <2>1, <2>2 DEF Numbered
      <4>2. waves[p].id \in 0 .. MaxPosts
        BY <4>1, <2>3, Bounds
      <4> QED BY <4>1, <4>2
    <3> QED BY <2>2, <3>1
  <2>5. spent \in [Waves \X Rooms -> 0 .. MaxReactions]
    <3>1. \A w \in Waves, r \in Rooms : spent[<<w, r>>] \in 0 .. MaxReactions
      <4> SUFFICES ASSUME NEW w \in Waves, NEW r \in Rooms
                   PROVE  spent[<<w, r>>] \in 0 .. MaxReactions
        OBVIOUS
      <4>1. spent[<<w, r>>] <= MaxReactions
        BY <2>1 DEF Accounted
      <4>2. spent[<<w, r>>] \in Nat
        BY <2>2
      <4> QED BY <4>1, <4>2, Bounds
    <3>2. \A x \in Waves \X Rooms : spent[x] \in 0 .. MaxReactions
      <4> SUFFICES ASSUME NEW x \in Waves \X Rooms PROVE spent[x] \in 0 .. MaxReactions
        OBVIOUS
      <4>1. PICK w \in Waves, r \in Rooms : x = <<w, r>>
        OBVIOUS
      <4> QED BY <3>1, <4>1
    <3> QED BY <2>2, <3>2
  <2> QED BY <2>1, <2>2, <2>3, <2>4, <2>5 DEF CascadeTypeOK
<1> QED BY <1>1, CascadeInvInitially, CascadeKeepsInv, MintedInitially, MintedKept, PTL
        DEF CascadeSpec

-----------------------------------------------------------------------------
(* A delivery run and its parts *)

(* Each part of a delivery run takes its own steps, or none. *)
LEMMA DeliveryStepIsOfParts ==
  ASSUME [DeliveryNext]_deliveryVars
  PROVE  /\ [CascadeNext]_cascadeVars /\ [QueueNext]_queueVars /\ [ChatNext]_chatVars
         /\ [DeskNext]_deskVars /\ [BridgeNext]_bridgeVars
<1>1. CASE DeliveryNext
  BY <1>1 DEF DeliveryNext
<1>2. CASE UNCHANGED deliveryVars
  BY <1>2 DEF deliveryVars
<1> QED BY <1>1, <1>2

(* Admission, the driver's queue, a browser, its windows and a Shell tab each go their
   own way: whatever holds of one of them holds of it beside the others. *)
THEOREM DeliveryIsItsParts ==
  DeliverySpec => CascadeSpec /\ QueueSpec /\ ChatSpec /\ DeskSpec /\ BridgeSpec
<1>1. DeliveryInit => CascadeInit /\ QueueInit /\ ChatInit /\ DeskInit /\ BridgeInit
  BY DEF DeliveryInit
<1> QED BY <1>1, DeliveryStepIsOfParts, PTL
        DEF DeliverySpec, CascadeSpec, QueueSpec, ChatSpec, DeskSpec, BridgeSpec

(* The variables of every part keep their types, and a poll is in the list that a push
   looks for its taker in exactly while it is parked. *)
THEOREM DeliveryTypesAlwaysOK == DeliverySpec => []TypesOK
<1>1. TypesOK <=> /\ CascadeTypeOK /\ QueueTypeOK /\ ChatTypeOK /\ DeskTypeOK /\ BridgeTypeOK
  BY DEF TypesOK
<1> QED BY <1>1, DeliveryIsItsParts, CascadeTypesAlwaysOK, QueueTypesAlwaysOK, ChatTypeCorrect,
           DeskTypeCorrect, BridgeTypesAlwaysOK, PTL

(* What each way promises is kept with all of them side by side: a cascade stays within its
   budget, an attached driver is given each Message once and in order, a browser shows what
   was said in the order it was said, its windows stay on the desk and come back as they were
   saved, and what Prime directs a tab's agent to do is run once and in order, but for what a
   broken connection swallowed. *)
THEOREM DeliveryKeepsItsPromises ==
  DeliverySpec =>
    /\ [](/\ BudgetHolds /\ IdleRidesNothing /\ HeldBehindTurn /\ NobodyWaitsInVain
         /\ DeliveredOnceInOrder /\ ReadsInOrder /\ BubbleIsWhole /\ CaughtUp
         /\ DeskIsSound /\ DirectivesKept)
    /\ ReloadKeepsDesk
BY DeliveryIsItsParts, BudgetAlwaysHolds, IdleAlwaysRidesNothing, HeldIsAlwaysBehindTurn,
   NobodyEverWaitsInVain, DeliveredOnceInOrderAlways, AlwaysReadsInOrder, BubbleIsAlwaysWhole,
   AlwaysCatchesUp, DeskIsAlwaysSound, DirectivesAreKept, ReloadAlwaysKeepsDesk, PTL
=============================================================================
