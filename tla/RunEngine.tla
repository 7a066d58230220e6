------------------------------ MODULE RunEngine ------------------------------
(***************************************************************************)
(* The synchronous heart of the server: RunRegistry (which Run a           *)
(* participant has open), AdmissionEngine (what a wake does when it finds  *)
(* a Run open) and the settle listener that index.ts hangs between them.   *)
(*                                                                         *)
(* open, settle, release and a connector's deliver call each other without *)
(* an await between them, so one handler runs the whole cascade before any *)
(* other handler.  Every index involved is keyed by (session, participant):*)
(* the cascade never leaves one participant.  The module is therefore the  *)
(* algebra of one participant's "seat", a record; the connector modules    *)
(* keep a seat in a variable and apply these operators to it atomically.   *)
(*                                                                         *)
(* Run ids (UUIDs in the code) and wake ids are serial numbers.            *)
(***************************************************************************)
EXTENDS Naturals, Sequences, FiniteSets

CONSTANTS Conversations,  \* the Conversations the participant is a member of
          Policy,         \* Membership.admission of each of them
          Kind            \* the connector the participant lives on

Kinds    == {"pi", "remote", "a2a", "external"}
Policies == {"queue", "coalesce", "preempt", "reject"}

ASSUME EngineAssumption ==
  /\ Policy \in [Conversations -> Policies]
  /\ Kind \in Kinds

NoRun == 0

(* What became of a wake: waiting behind a Run, replaced by a newer wake of *)
(* its Conversation, handed to the far end, dropped at release because the  *)
(* connector refused it, or refused to the sender at once.                  *)
Fates == {"held", "merged", "sent", "lost", "refused"}

Wakes == [conv : Conversations, fate : Fates]

Seats == [cur    : Nat,                \* runs.byParticipant, NoRun when absent
          open   : SUBSET Nat,         \* runs.byId, this participant's entries
          n      : Nat,                \* Runs opened so far
          held   : Seq([conv : Conversations, id : Nat]),  \* admission.pending
          up     : BOOLEAN,            \* the connector has a far end to reach
          busy   : BOOLEAN,            \* AgentProcess.busy (pi only)
          wire   : Seq(Nat),           \* wakes handed over, no Run opened yet
          riding : BOOLEAN,            \* the participant has an entry in waves
          wakes  : Seq(Wakes)]         \* history: every wake and its fate

FreshSeat == [cur |-> NoRun, open |-> {}, n |-> 0, held |-> <<>>, up |-> TRUE,
              busy |-> FALSE, wire |-> <<>>, riding |-> FALSE, wakes |-> <<>>]

(* A connector that only starts the Run once the far end has been reached. *)
OpensLate == Kind \in {"a2a", "external"}

-----------------------------------------------------------------------------
(* Bookkeeping of the history *)

Stamp(a, ids, f) ==
  [a EXCEPT !.wakes = [i \in DOMAIN a.wakes |->
      IF i \in ids THEN [a.wakes[i] EXCEPT !.fate = f] ELSE a.wakes[i]]]

HeldIds(a) == {a.held[i].id : i \in DOMAIN a.held}

-----------------------------------------------------------------------------
(* RunRegistry and AdmissionEngine *)

\* The tail of open: both indexes learn the new Run.
Register(a) ==
  [a EXCEPT !.n = @ + 1, !.cur = a.n + 1, !.open = @ \cup {a.n + 1}]

\* The Run a delivery opens on a connector that opens at delivery; a Pi prompt
\* also marks the process busy.
Start(a) == [a EXCEPT !.busy = (Kind = "pi")]

\* The held wakes' deliveries, in order, until one opens a Run.  On a far end
\* that is gone, that opens late or that is mid-turn none does, so all fire.
FireHeld(a) ==
  LET first == Head(a.held)
      ids   == HeldIds(a)
      all   == [a EXCEPT !.held = <<>>]
  IN  IF a.held = <<>> THEN a
      ELSE IF ~a.up THEN Stamp(all, ids, "lost")
      ELSE IF OpensLate
        THEN Stamp([all EXCEPT !.wire = @ \o [i \in DOMAIN a.held |-> a.held[i].id]],
                   ids, "sent")
      ELSE IF a.busy THEN Stamp(all, ids, "sent")
      ELSE Stamp(Start(Register([a EXCEPT !.held = Tail(@)])), {first.id}, "sent")

Release(a) == IF a.cur = NoRun THEN FireHeld(a) ELSE a

\* Mutant of EndChain: a finished chain keeps its wave.
EndChainNever(a) == a

\* The end of the settle listener: an idle participant with nothing held
\* leaves its wave.
EndChain(a) ==
  IF a.cur = NoRun /\ a.held = <<>> THEN [a EXCEPT !.riding = FALSE] ELSE a

\* Mutant of Forget: the Run stays in the index by id.
ForgetByParticipant(a, r) == [a EXCEPT !.cur = IF @ = r THEN NoRun ELSE @]

Forget(a, r) ==
  [a EXCEPT !.open = @ \ {r}, !.cur = IF @ = r THEN NoRun ELSE @]

\* Mutant of Settle: the listener no longer releases.
SettleQuietly(a, r) == IF r \in a.open THEN EndChain(Forget(a, r)) ELSE a

Settle(a, r) == IF r \in a.open THEN EndChain(Release(Forget(a, r))) ELSE a

SettleOpenFor(a) == IF a.cur = NoRun THEN a ELSE Settle(a, a.cur)

Open(a) == Register(SettleOpenFor(a))

\* connectors.resolve(..).deliver(..) for wake id.
Deliver(a, id) ==
  IF ~a.up THEN Stamp(a, {id}, "refused")
  ELSE IF OpensLate THEN Stamp([a EXCEPT !.wire = Append(@, id)], {id}, "sent")
  ELSE IF a.busy THEN Stamp(a, {id}, "sent")
  ELSE Stamp(Start(Open(a)), {id}, "sent")

\* Mutant of Hold: the first wake is kept, not the latest.
HoldKeepsFirst(a, c, id) ==
  IF \E i \in DOMAIN a.held : a.held[i].conv = c
    THEN Stamp(a, {id}, "merged")
    ELSE [a EXCEPT !.held = Append(@, [conv |-> c, id |-> id])]

\* One held wake per Conversation: a newer one takes the older one's place.
Hold(a, c, id) ==
  LET slot == {i \in DOMAIN a.held : a.held[i].conv = c}
      mine == [conv |-> c, id |-> id]
  IN  IF slot = {}
        THEN [a EXCEPT !.held = Append(@, mine)]
        ELSE Stamp([a EXCEPT !.held = [i \in DOMAIN @ |->
                                         IF i \in slot THEN mine ELSE @[i]]],
                   {a.held[i].id : i \in slot}, "merged")

\* cancel is what the connector's cancelRun would do: whether it took the
\* request, and the seat it leaves behind.  One that only signals an abort
\* leaves the Run open, so the restart waits for it.
Preempt(a, c, id, cancel) ==
  IF ~cancel.cancelled THEN Stamp(a, {id}, "refused")
  ELSE IF cancel.seat.cur = NoRun THEN Deliver(cancel.seat, id)
  ELSE Hold(cancel.seat, c, id)

Admit(a, c, id, cancel) ==
  IF a.cur = NoRun \/ Policy[c] = "queue" THEN Deliver(a, id)
  ELSE IF Policy[c] = "reject" THEN Stamp(a, {id}, "refused")
  ELSE IF Policy[c] = "coalesce" THEN Hold(a, c, id)
  ELSE Preempt(a, c, id, cancel)

\* A wake as the fan-out engine sees it before admission: recorded, and its
\* participant put on the wave it arrived in.  The history's fate is "held"
\* until the admission says otherwise.
Arrive(a, c) ==
  [a EXCEPT !.riding = TRUE,
            !.wakes = Append(@, [conv |-> c, fate |-> "held"])]

-----------------------------------------------------------------------------
(* Properties of a seat, stated by every connector module of its own seat *)

\* No wake waits behind nothing: release runs only when a Run settles, so a
\* wake held by an idle participant would never be delivered.
BehindRun(a) == a.held # <<>> => a.cur # NoRun

\* Both indexes of the registry know the current Run.
Indexed(a) == a.cur # NoRun => a.cur \in a.open

=============================================================================
