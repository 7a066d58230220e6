--------------------------- MODULE RemoteRuns_proofs -------------------------
(***************************************************************************)
(* A remote sub-agent's Run never outlives the way to its host, a host     *)
(* that reconnects keeps its Runs, and what was killed stays away: for any *)
(* policies, any number of wakes, sockets and restarts.  The inductive     *)
(* invariant is TypeOK with two facts on the seat, that a held wake waits  *)
(* behind a Run and that a Run is only open while the host is reachable:   *)
(* each handler that breaks the way to the host does so before it settles, *)
(* so that the release finds nobody.                                       *)
(* It implements WakeLedger: with the wakes held back those on record as   *)
(* waiting (Recorded, inductive beside Inv), each handler is a step of the *)
(* ledger or none, and what is proved of the ledger is true of the seat.   *)
(***************************************************************************)
EXTENDS RemoteRuns, RunEngine_proofs

Inv == TypeOK /\ HeldBehindRun /\ OpenRunIsReachable

\* What every handler leaves of the seat, the roster and the host's socket.
Consistent(a, t, r, e) ==
  /\ Sound(a) /\ (a.cur # NoRun => a.up)
  /\ t \in {"active", "detached", "none"} /\ r \in {"active", "detached", "gone"}
  /\ e \in 0 .. MaxSockets
  /\ a.up <=> (t # "none" /\ e # None)
  /\ t # "none" => r = t

Sockets == socks \subseteq 1 .. MaxSockets /\ closed \subseteq socks /\ restarts \in Nat

(* Inv, as facts for the provers. *)
LEMMA InvFacts ==
  Inv <=> Consistent(seat, tab, row, env) /\ Sockets
BY DEF Inv, TypeOK, HeldBehindRun, OpenRunIsReachable, Consistent, Sockets, Sound

(* The parts of Inv a handler must re-establish. *)
LEMMA ConsistentIsInv ==
  ASSUME Consistent(seat', tab', row', env'), Sockets'
  PROVE  Inv'
BY DEF Inv, TypeOK, HeldBehindRun, OpenRunIsReachable, Consistent, Sockets, Sound

(* The bounds are numbers. *)
LEMMA Bounds == MaxSockets \in Nat /\ None \in 0 .. MaxSockets
BY RemoteAssumption DEF None

(* A wake is admitted: with no way to the host there is no Run before it and
   none after. *)
LEMMA WakeKeepsInv ==
  ASSUME Inv, NEW c \in Conversations, Wake(c)
  PROVE  Inv'
<1> DEFINE a == Arrive(seat, c)
<1>0. Sound(seat) /\ seat \in Seats /\ (seat.cur # NoRun => seat.up)
  BY InvFacts DEF Consistent, Sound
<1>1. Sound(a) /\ a \in Seats /\ a.up = seat.up /\ a.cur = seat.cur /\ Len(a.wakes) \in Nat
  BY <1>0, ArriveIsSound DEF Sound
<1>2. Refusal(a).seat = a /\ Keeps(a, a)
  BY DEF Refusal, Keeps
<1>3. seat' = Admit(a, c, Len(a.wakes), Refusal(a))
  BY DEF Wake
<1> HIDE DEF a
<1>4. Sound(seat') /\ seat'.up = seat.up
  BY <1>1, <1>2, <1>3, AdmitIsSound DEF Keeps
<1>5. seat'.cur # NoRun => seat'.up
  <2>1. CASE a.up
    BY <2>1, <1>1, <1>4
  <2>2. CASE ~a.up
    BY <2>2, <1>0, <1>1, <1>3, AdmitWithoutFarEnd
  <2> QED BY <2>1, <2>2
<1>6. UNCHANGED <<tab, row, env, socks, closed, restarts>>
  BY DEF Wake
<1> QED BY <1>4, <1>5, <1>6, InvFacts, ConsistentIsInv DEF Consistent, Sockets

(* The way to the host is broken, then the Run is settled. *)
LEMMA CutOff ==
  ASSUME Inv
  PROVE  LET b == SettleOpenFor([seat EXCEPT !.up = FALSE])
         IN  Sound(b) /\ b.up = FALSE /\ b.cur = NoRun
<1> DEFINE d == [seat EXCEPT !.up = FALSE]
<1>1. Sound(d) /\ d \in Seats /\ d.up = FALSE
  BY InvFacts, UpField DEF Consistent, Sound
<1> HIDE DEF d
<1>2. Sound(SettleOpenFor(d)) /\ SettleOpenFor(d).up = FALSE
  BY <1>1, SettleOpenForIsSound DEF Keeps
<1>3. SettleOpenFor(d).cur = NoRun
  BY <1>1, SettleWithoutFarEnd
<1> QED BY <1>2, <1>3 DEF d

(* A status is declared, or the sub-agent is retired. *)
LEMMA StatusKeepsInv ==
  ASSUME Inv, (\E status \in {"active", "detached"} : Declare(status)) \/ Retire
  PROVE  Inv'
<1>1. CASE \E status \in {"active", "detached"} : Declare(status)
  BY <1>1, InvFacts, ConsistentIsInv DEF Declare, Consistent, Sockets
<1>2. CASE Retire
  BY <1>2, CutOff, InvFacts, ConsistentIsInv DEF Retire, Consistent, Sockets
<1> QED BY <1>1, <1>2

(* The roster entry comes back; a Run it has stays reachable. *)
LEMMA ReattachFacts ==
  ASSUME Inv, NEW connected \in BOOLEAN, Reattach(connected), connected \/ env = None
  PROVE  /\ Sound(seat') /\ seat'.cur = seat.cur /\ seat'.open = seat.open
         /\ seat'.up = (connected /\ tab' # "none")
         /\ tab' \in {"active", "detached", "none"} /\ row' \in {"active", "detached", "gone"}
         /\ tab # "none" => tab' # "none"
         /\ tab' # "none" => row' = tab'
         /\ seat'.cur # NoRun => seat'.up
<1>1. /\ Sound(seat) /\ seat \in Seats /\ (seat.cur # NoRun => seat.up)
      /\ seat.up <=> (tab # "none" /\ env # None)
      /\ tab # "none" => row = tab
      /\ tab \in {"active", "detached", "none"} /\ row \in {"active", "detached", "gone"}
  BY InvFacts DEF Consistent, Sound
<1>2. /\ tab' \in {"active", "detached", "none"} /\ row' \in {"active", "detached", "gone"}
      /\ tab # "none" => tab' # "none"
      /\ tab' # "none" => row' = tab'
  BY <1>1 DEF Reattach, Restorable
<1> DEFINE p == connected /\ tab' # "none"
<1>3. p \in BOOLEAN /\ seat' = [seat EXCEPT !.up = p]
  BY DEF Reattach
<1> HIDE DEF p
<1>4. Sound(seat') /\ seat'.up = p /\ seat'.cur = seat.cur /\ seat'.open = seat.open
  BY <1>1, <1>3, UpField
<1> QED BY <1>1, <1>2, <1>4 DEF p

(* A join or a connect brings the roster entry back. *)
LEMMA ReturnKeepsInv ==
  ASSUME Inv, Join \/ \E s \in 1 .. MaxSockets : Connect(s)
  PROVE  Inv'
<1>1. CASE Join
  <2>1. Reattach(env # None) /\ UNCHANGED <<env, socks, closed, restarts>>
    BY <1>1 DEF Join
  <2> QED BY <2>1, ReattachFacts, InvFacts, ConsistentIsInv DEF Consistent, Sockets
<1>2. ASSUME NEW s \in 1 .. MaxSockets, Connect(s) PROVE Inv'
  <2>1. /\ Reattach(TRUE) /\ env' = s /\ socks' = socks \cup {s}
        /\ UNCHANGED <<closed, restarts>>
    BY <1>2 DEF Connect
  <2>2. env' \in 0 .. MaxSockets /\ env' # None
    BY <2>1, Bounds DEF None
  <2> QED BY <2>1, <2>2, ReattachFacts, InvFacts, ConsistentIsInv DEF Consistent, Sockets
<1> QED BY <1>1, <1>2

(* The host is dropped. *)
LEMMA DropFacts ==
  ASSUME Inv, Drop
  PROVE  Consistent(seat', tab', row', env')
BY CutOff, InvFacts, Bounds DEF Drop, Consistent

(* A socket closes, its event is handled, or the sweep comes first. *)
LEMMA SocketKeepsInv ==
  ASSUME Inv, (\E s \in 1 .. MaxSockets : Close(s) \/ Disconnect(s)) \/ Sweep
  PROVE  Inv'
<1>1. ASSUME NEW s \in 1 .. MaxSockets, Close(s) PROVE Inv'
  BY <1>1, InvFacts, ConsistentIsInv DEF Close, Consistent, Sockets
<1>2. ASSUME NEW s \in 1 .. MaxSockets, Disconnect(s) PROVE Inv'
  <2>1. Sockets'
    BY <1>2, InvFacts DEF Disconnect, Sockets
  <2>2. Consistent(seat', tab', row', env')
    BY <1>2, InvFacts, DropFacts DEF Disconnect
  <2> QED BY <2>1, <2>2, ConsistentIsInv
<1>3. CASE Sweep
  BY <1>3, InvFacts, DropFacts, ConsistentIsInv DEF Sweep, Sockets
<1> QED BY <1>1, <1>2, <1>3

(* A restart leaves nothing open, nothing held and no way to the host. *)
LEMMA RestartKeepsInv ==
  ASSUME Inv, Restart
  PROVE  Inv'
<1> DEFINE s == Stamp(seat, HeldIds(seat), "lost")
<1>1. s \in Seats
  BY InvFacts, StampIsSound DEF Consistent, Sound, Fates
<1>2. /\ seat' = [s EXCEPT !.cur = NoRun, !.open = {}, !.held = <<>>, !.up = FALSE,
                           !.riding = FALSE]
      /\ tab' = "none" /\ row' = (IF row = "active" THEN "detached" ELSE row)
      /\ env' = None /\ socks' = {} /\ closed' = {} /\ restarts' = restarts + 1
  BY DEF Restart
<1> HIDE DEF s
<1>3. <<>> \in Seq([conv : Conversations, id : Nat]) /\ NoRun \in Nat /\ {} \in SUBSET Nat
  BY DEF NoRun
<1>4. seat' \in Seats
  BY <1>1, <1>2, <1>3 DEF Seats
<1>5. seat'.cur = NoRun /\ seat'.held = <<>> /\ seat'.up = FALSE
  BY <1>1, <1>2 DEF Seats
<1>6. Consistent(seat', tab', row', env') /\ Sockets'
  BY <1>2, <1>4, <1>5, InvFacts, Bounds DEF Sound, BehindRun, Indexed, Consistent, Sockets
<1> QED BY <1>6, ConsistentIsInv

-----------------------------------------------------------------------------
(* A sub-agent just spawned is active on its host's first socket. *)
LEMMA InvHoldsInitially == Init => Inv
<1> SUFFICES ASSUME Init PROVE Inv
  OBVIOUS
<1>1. Sound(seat) /\ seat.up = TRUE
  BY FreshSeatIsSound DEF Init, FreshSeat
<1>2. MaxSockets \in Nat \ {0}
  BY RemoteAssumption
<1>3. Consistent(seat, tab, row, env) /\ Sockets
  BY <1>1, <1>2 DEF Init, Consistent, Sockets, None
<1> QED BY <1>3, InvFacts

(* Every handler keeps Inv. *)
LEMMA InvIsInductive == Inv /\ [Next]_vars => Inv'
<1> SUFFICES ASSUME Inv, [Next]_vars PROVE Inv'
  OBVIOUS
<1>1. CASE \E c \in Conversations : Wake(c)
  BY <1>1, WakeKeepsInv
<1>2. CASE (\E status \in {"active", "detached"} : Declare(status)) \/ Retire
  BY <1>2, StatusKeepsInv
<1>3. CASE Join \/ \E s \in 1 .. MaxSockets : Connect(s)
  BY <1>3, ReturnKeepsInv
<1>4. CASE (\E s \in 1 .. MaxSockets : Close(s) \/ Disconnect(s)) \/ Sweep
  BY <1>4, SocketKeepsInv
<1>5. CASE Restart
  BY <1>5, RestartKeepsInv
<1>6. CASE UNCHANGED vars
  <2>1. Consistent(seat', tab', row', env') /\ Sockets'
    BY <1>6, InvFacts DEF vars, Sockets
  <2> QED BY <2>1, ConsistentIsInv
<1> QED BY <1>1, <1>2, <1>3, <1>4, <1>5, <1>6 DEF Next

(* Inv is an invariant of the specification. *)
LEMMA InvHolds == Spec => []Inv
BY InvHoldsInitially, InvIsInductive, PTL DEF Spec

(* The seat, the roster, the stored row and the host's sockets agree. *)
THEOREM RemoteTypeOK == Spec => []TypeOK
BY InvHolds, PTL DEF Inv

(* No wake is held for a remote sub-agent with no Run open (admission.ts). *)
THEOREM RemoteHeldBehindRun == Spec => []HeldBehindRun
BY InvHolds, PTL DEF Inv

(* With no run-end marker in the protocol, it is the loss of the host, or of the
   roster entry, that ends a Run: it always does (dropEnvironment, killAgent). *)
THEOREM RemoteOpenRunIsReachable == Spec => []OpenRunIsReachable
BY InvHolds, PTL DEF Inv

(* A participant that finished or was killed is never back on the roster, by a
   join, a reconnect or a restart (replayRoster, reattach). *)
THEOREM RemoteGoneIsGone == Spec => GoneIsGone
<1>1. Inv /\ [Next]_vars => [row = "gone" => row' = "gone" /\ tab' = "none"]_vars
  <2> SUFFICES ASSUME Inv, Next, row = "gone" PROVE row' = "gone" /\ tab' = "none"
    BY DEF vars
  <2>1. tab = "none"
    BY InvFacts DEF Consistent
  <2> QED
    BY <2>1 DEF Next, Wake, Declare, Retire, Join, Restorable, Connect, Reattach,
                Close, Disconnect, Drop, Sweep, Restart
<1> QED BY <1>1, InvHolds, PTL DEF Spec, GoneIsGone

(* A host that reconnected keeps its Runs, whenever the disconnect of the socket
   it replaced is noticed, by its event or by the sweep (onDisconnect). *)
THEOREM RemoteReconnectedHostKeepsItsWork == Spec => ReconnectedHostKeepsItsWork
<1>1. ASSUME Inv, Next, env \in socks' \ closed, tab' # "none", seat.up,
             seat'.wakes = seat.wakes
      PROVE  seat'.up /\ seat.open \subseteq seat'.open
  <2>0. Sound(seat) /\ seat \in Seats /\ env # None
    BY <1>1, InvFacts DEF Consistent, Sound
  <2>1. ASSUME NEW c \in Conversations, Wake(c) PROVE FALSE
    <3> DEFINE a == Arrive(seat, c)
    <3>1. Sound(a) /\ a \in Seats /\ Len(a.wakes) \in Nat
      BY <2>0, ArriveIsSound DEF Sound
    <3>2. Refusal(a).seat = a /\ SameHistory(a, a)
      BY DEF Refusal, SameHistory
    <3>3. seat' = Admit(a, c, Len(a.wakes), Refusal(a))
      BY <2>1 DEF Wake
    <3>4. DOMAIN a.wakes # DOMAIN seat.wakes
      BY <2>0, ArriveHistory
    <3> HIDE DEF a
    <3>5. SameHistory(a, seat')
      BY <3>1, <3>2, <3>3, AdmitSameHistory
    <3> QED BY <3>4, <3>5, <1>1 DEF SameHistory
  <2>2. CASE seat' = seat
    BY <2>2, <1>1
  <2>3. CASE Join
    <3>1. Reattach(env # None)
      BY <2>3 DEF Join
    <3> QED BY <3>1, <1>1, <2>0, ReattachFacts
  <2>4. ASSUME NEW s \in 1 .. MaxSockets, Connect(s)
        PROVE  seat'.up /\ seat.open \subseteq seat'.open
    <3>1. Reattach(TRUE)
      BY <2>4 DEF Connect
    <3> QED BY <3>1, <1>1, ReattachFacts
  <2> QED BY <1>1, <2>1, <2>2, <2>3, <2>4
          DEF Next, Declare, Retire, Close, Disconnect, Sweep, Restart
<1>2. Inv /\ [Next]_vars =>
        [(/\ env \in socks' \ closed
          /\ tab' # "none" /\ seat.up /\ seat'.wakes = seat.wakes)
            => seat'.up /\ seat.open \subseteq seat'.open]_vars
  BY <1>1 DEF vars
<1> QED BY <1>2, InvHolds, PTL DEF Spec, ReconnectedHostKeepsItsWork

-----------------------------------------------------------------------------
(* Each handler is a step of WakeLedger, or leaves the ledger alone. *)

(* Letting held wakes go is the ledger's release. *)
LEMMA FreedIsReleased ==
  ASSUME seat \in Seats, Freed(seat.wakes, seat'.wakes)
  PROVE  [Ledger!Next]_(seat.wakes)
<1>1. PICK ids \in SUBSET Waiting(seat.wakes), f \in {"sent", "lost"} :
        seat'.wakes = Restamped(seat.wakes, ids, f)
  BY DEF Freed
<1>2. CASE ids = {}
  BY <1>1, <1>2, SeatFields, RestampedNone
<1>3. CASE ids # {}
  <2>1. Ledger!Released(ids, f)
    BY <1>1, <1>3 DEF Ledger!Released, Ledger!Stamped, Restamped
  <2>2. ids \in SUBSET Ledger!Held
    BY <1>1 DEF Ledger!Held, Waiting
  <2> QED BY <2>1, <2>2 DEF Ledger!Next
<1> QED BY <1>2, <1>3

(* A wake that is answered is put off, refused or handed over in the ledger. *)
LEMMA PostedIsAnswered ==
  ASSUME seat \in Seats, NEW c \in Conversations, Len(seat.wakes) < MaxWakes,
         Posted(seat.wakes, c, seat'.wakes)
  PROVE  Ledger!Next
<1> DEFINE mine == {i \in Waiting(seat.wakes) : seat.wakes[i].conv = c}
<1>1. mine = Ledger!Held \cap Ledger!Of(c) /\ Waiting(seat.wakes) = Ledger!Held
  BY DEF Ledger!Held, Ledger!Of, Waiting
<1>2. \A ids, f : Restamped(seat.wakes, ids, f) = Ledger!Stamped(ids, f)
  BY DEF Restamped, Ledger!Stamped
<1>3. \/ seat'.wakes = Append(Restamped(seat.wakes, mine, "merged"), [conv |-> c, fate |-> "held"])
      \/ seat'.wakes = Append(seat.wakes, [conv |-> c, fate |-> "refused"])
      \/ \E ids \in SUBSET Waiting(seat.wakes) :
           /\ mine \subseteq ids
           /\ seat'.wakes = Append(Restamped(seat.wakes, ids, "sent"),
                                   [conv |-> c, fate |-> "sent"])
  BY DEF Posted
<1> HIDE DEF mine
<1>4. \/ Ledger!PutOff(c) \/ Ledger!Refused(c)
      \/ \E ids \in SUBSET Ledger!Held : Ledger!HandedOver(c, ids)
  BY <1>1, <1>2, <1>3 DEF Ledger!PutOff, Ledger!Refused, Ledger!HandedOver
<1> QED BY <1>4 DEF Ledger!Next

(* A wake is admitted. *)
LEMMA WakeIsAnswered ==
  ASSUME Inv, Recorded(seat, 0), NEW c \in Conversations, Wake(c)
  PROVE  Recorded(seat', 0) /\ Ledger!Next
<1> DEFINE a == Arrive(seat, c)
<1>1. seat \in Seats /\ Sound(seat) /\ Len(seat.wakes) < MaxWakes
  BY InvFacts DEF Wake, Consistent, Sound
<1>2. Refusal(a).seat = a
  BY DEF Refusal
<1>3. seat' = Admit(a, c, Len(a.wakes), Refusal(a))
  BY DEF Wake
<1>4. Recorded(seat', 0) /\ Posted(seat.wakes, c, seat'.wakes)
  <2>1. Len(a.wakes) = Len(seat.wakes) + 1
    BY <1>1, ArriveRecorded
  <2> QED BY <1>1, <1>2, <1>3, <2>1, AdmitPosts
<1> QED BY <1>1, <1>4, PostedIsAnswered

(* The sub-agent's way to its host is no matter of the wakes. *)
LEMMA HostField ==
  ASSUME Inv, Recorded(seat, 0), NEW p \in BOOLEAN
  PROVE  LET b == [seat EXCEPT !.up = p]
         IN  /\ b \in Seats /\ Sound(b) /\ Recorded(b, 0)
             /\ b.held = seat.held /\ b.wakes = seat.wakes
<1>1. Sound(seat) /\ seat \in Seats
  BY InvFacts DEF Consistent, Sound
<1>2. /\ Sound([seat EXCEPT !.up = p]) /\ [seat EXCEPT !.up = p].held = seat.held
      /\ [seat EXCEPT !.up = p].wakes = seat.wakes
  BY <1>1, UpField DEF Seats
<1> QED BY <1>1, <1>2, RecordedSame DEF Sound

(* Its host is lost, or it leaves the roster: its Run is settled. *)
LEMMA CutOffFollows ==
  ASSUME Inv, Recorded(seat, 0), seat' = SettleOpenFor([seat EXCEPT !.up = FALSE])
  PROVE  Follows(seat, seat')
<1> DEFINE b == [seat EXCEPT !.up = FALSE]
<1>1. b \in Seats /\ Sound(b) /\ Recorded(b, 0) /\ b.wakes = seat.wakes
  BY HostField
<1>2. seat' = SettleOpenFor(b)
  OBVIOUS
<1> HIDE DEF b
<1>3. Follows(b, seat')
  BY <1>1, <1>2, OpenForFollows
<1> QED BY <1>1, <1>3, FollowsFrom

(* A restart drops what was held back. *)
LEMMA RestartFollows ==
  ASSUME Inv, Recorded(seat, 0), Restart
  PROVE  Follows(seat, seat')
<1> DEFINE s == Stamp(seat, HeldIds(seat), "lost")
<1>1. s \in Seats /\ seat \in Seats
  BY InvFacts, StampIsSound DEF Consistent, Sound, Fates
<1>2. seat' = [s EXCEPT !.cur = NoRun, !.open = {}, !.held = <<>>, !.up = FALSE,
                        !.riding = FALSE]
  BY DEF Restart
<1>3. seat' \in Seats
  BY RestartKeepsInv DEF Inv, TypeOK
<1> HIDE DEF s
<1>4. seat'.held = <<>> /\ seat'.wakes = s.wakes
  BY <1>1, <1>2 DEF Seats
<1> QED BY <1>1, <1>3, <1>4, LostFollows DEF s

(* The other handlers touch no wake. *)
LEMMA HostFollows ==
  ASSUME Inv, Recorded(seat, 0),
         \/ \E status \in {"active", "detached"} : Declare(status)
         \/ Join \/ UNCHANGED vars
         \/ \E s \in 1 .. MaxSockets : Connect(s) \/ Close(s)
  PROVE  Follows(seat, seat')
<1>1. Sound(seat) /\ seat \in Seats
  BY InvFacts DEF Consistent, Sound
<1>2. seat' = seat \/ \E p \in BOOLEAN : seat' = [seat EXCEPT !.up = p]
  BY DEF Declare, Join, Connect, Close, Reattach, vars
<1>3. seat'.held = seat.held /\ seat'.wakes = seat.wakes
  BY <1>1, <1>2 DEF Seats
<1> QED BY <1>1, <1>3, SameFollows

(* Each handler keeps the seat on record, and is a step of the ledger or none. *)
LEMMA EveryStepIsTheLedgers ==
  Inv /\ Recorded(seat, 0) /\ [Next]_vars => Recorded(seat, 0)' /\ [Ledger!Next]_(seat.wakes)
<1> SUFFICES ASSUME Inv, Recorded(seat, 0), [Next]_vars
             PROVE  Recorded(seat', 0) /\ [Ledger!Next]_(seat.wakes)
  BY DEF Recorded, HeldIds
<1>0. Sound(seat) /\ seat \in Seats
  BY InvFacts DEF Consistent, Sound
<1>1. CASE \E c \in Conversations : Wake(c)
  BY <1>1, WakeIsAnswered
<1>2. CASE ~\E c \in Conversations : Wake(c)
  <2>1. ASSUME Retire \/ Sweep
        PROVE  Follows(seat, seat')
    <3>1. seat' = SettleOpenFor([seat EXCEPT !.up = FALSE])
      BY <2>1 DEF Retire, Sweep, Drop
    <3> QED BY <3>1, CutOffFollows
  <2>2. ASSUME NEW s \in 1 .. MaxSockets, Disconnect(s)
        PROVE  Follows(seat, seat')
    <3>1. seat' = seat \/ seat' = SettleOpenFor([seat EXCEPT !.up = FALSE])
      BY <2>2 DEF Disconnect, Drop
    <3> QED BY <3>1, <1>0, CutOffFollows, SameFollows
  <2>3. Follows(seat, seat')
    BY <1>2, <2>1, <2>2, RestartFollows, HostFollows DEF Next
  <2> QED BY <2>3, <1>0, FreedIsReleased DEF Follows
<1> QED BY <1>1, <1>2

(* Through lost, replaced and late-noticed sockets of its host and restarts of
   the server, the senders of a remote sub-agent's wakes get what AdmissionEngine
   promises (WakeLedger). *)
THEOREM RemoteRefinesLedger == Spec => RefinesLedger
<1>1. Init => Recorded(seat, 0) /\ Ledger!Init
  BY FreshSeatIsRecorded DEF Init, Ledger!Init, FreshSeat
<1> QED
  BY <1>1, EveryStepIsTheLedgers, InvHolds, PTL DEF Spec, RefinesLedger, Ledger!Spec

-----------------------------------------------------------------------------
(* What the ledger promises, of this seat. *)
Promise == INSTANCE WakeLedger_proofs WITH wakes <- seat.wakes

(* So what is proved of the ledger is true of a remote sub-agent: of the wakes of a
   Conversation at most one waits, it is the latest, and none newer was handed
   over (admission.ts: hold, release). *)
THEOREM RemoteKeepsItsPromise ==
  Spec => [](Ledger!OneHeldEach /\ Ledger!LatestIsKept /\ Ledger!NoOvertaking)
<1>1. Promise!Spec => [](Promise!OneHeldEach /\ Promise!LatestIsKept /\ Promise!NoOvertaking)
  <2>1. Promise!LedgerAssumption
    BY RemoteAssumption DEF Promise!LedgerAssumption
  <2> QED
    BY <2>1, Promise!LedgerOneHeldEach, Promise!LedgerLatestIsKept,
       Promise!LedgerNoOvertaking, PTL
<1>2. Ledger!Init <=> Promise!Init
  BY DEF Ledger!Init, Promise!Init
<1>3. [Ledger!Next]_(seat.wakes) <=> [Promise!Next]_(seat.wakes)
  BY DEF Ledger!Next, Promise!Next, Ledger!Released, Promise!Released, Ledger!PutOff,
         Promise!PutOff, Ledger!Refused, Promise!Refused, Ledger!HandedOver,
         Promise!HandedOver, Ledger!Stamped, Promise!Stamped, Ledger!Held, Promise!Held,
         Ledger!Of, Promise!Of
<1>4. (Promise!OneHeldEach <=> Ledger!OneHeldEach)
      /\ (Promise!LatestIsKept <=> Ledger!LatestIsKept)
      /\ (Promise!NoOvertaking <=> Ledger!NoOvertaking)
  BY DEF Promise!OneHeldEach, Ledger!OneHeldEach, Promise!LatestIsKept, Ledger!LatestIsKept,
         Promise!NoOvertaking, Ledger!NoOvertaking, Ledger!Held, Promise!Held
<1> QED
  BY <1>1, <1>2, <1>3, <1>4, RemoteRefinesLedger, PTL
     DEF RefinesLedger, Ledger!Spec, Promise!Spec
=============================================================================
