----------------------------- MODULE DeliveryQueue ---------------------------
(***************************************************************************)
(* The outbound half of the external connector: one session's deliveries,  *)
(* queued for drivers that collect them over long polls.  A poll is scoped *)
(* to one agent or takes the whole session's work; it is answered at once, *)
(* or parks until a delivery, its timeout, the abort of its connection, or *)
(* the end of its agent settles it.                                        *)
(* ExternalRuns sees one agent's part of this queue as its seat's wire.    *)
(***************************************************************************)
EXTENDS Naturals, Sequences, FiniteSets, Filters

CONSTANTS Agents,
          Everyone,   \* the scope of a poll that takes the whole session's work
          Polls,      \* bound: the polls drivers make, each one once
          MaxPushes   \* bound: deliveries pushed

ASSUME QueueAssumption == Everyone \notin Agents /\ MaxPushes \in Nat

VARIABLES queued,  \* DeliveryQueue.queued
          waiting, \* DeliveryQueue.waiting, the parked polls in order
          polls,    \* each poll: its scope, state, connection and answer
          pushed,  \* history: the agent of each delivery, by its number
          dropped  \* history: deliveries discarded with their agent

queueVars == <<queued, waiting, polls, pushed, dropped>>

Deliveries == [agent : Agents, id : Nat]

\* A connection that broke fires its abort signal a moment later.
PollsOf == [scope : Agents \cup {Everyone},
            state : {"unmade", "parked", "settled"},
            conn : {"open", "broken", "aborted"},
            got : Seq(Deliveries)]

QueueInit ==
  /\ queued = <<>> /\ waiting = <<>>
  /\ polls = [k \in Polls |-> [scope |-> Everyone, state |-> "unmade",
                              conn |-> "open", got |-> <<>>]]
  /\ pushed = <<>>
  /\ dropped = {}

-----------------------------------------------------------------------------
(* Helpers *)

InScope(k, a) == polls[k].scope \in {a, Everyone}

\* The queued deliveries a poll of this scope is for.
QueuedFor(scope) ==
  {queued[i] : i \in {j \in DOMAIN queued : scope \in {queued[j].agent, Everyone}}}

\* Mutant of Settled: a poll settles again.
SettledAgain(ks, ds) ==
  [k \in Polls |-> IF k \in ks THEN [polls[k] EXCEPT !.state = "settled", !.got = ds]
                   ELSE polls[k]]

\* settle: once; the poll leaves the waiting list and is answered.
Settled(ks, ds) ==
  [k \in Polls |-> IF k \in ks /\ polls[k].state = "parked"
                     THEN [polls[k] EXCEPT !.state = "settled", !.got = ds]
                     ELSE polls[k]]

\* Mutant of Takers: polls of the whole session are overlooked.
TakersByName(a) == {i \in DOMAIN waiting : polls[waiting[i]].scope = a}

\* takeWaiter: the first parked poll a delivery for a may wake.
Takers(a) == {i \in DOMAIN waiting : InScope(waiting[i], a)}
FirstTaker(a) == waiting[CHOOSE i \in Takers(a) : \A j \in Takers(a) : i <= j]

-----------------------------------------------------------------------------
Push(a) ==
  /\ Len(pushed) < MaxPushes
  /\ pushed' = Append(pushed, a)
  /\ LET d == [agent |-> a, id |-> Len(pushed')]
     IN  IF Takers(a) = {}
           THEN queued' = Append(queued, d) /\ UNCHANGED <<waiting, polls>>
           ELSE /\ polls' = Settled({FirstTaker(a)}, <<d>>)
                /\ waiting' = Without(waiting, {FirstTaker(a)})
                /\ UNCHANGED queued
  /\ UNCHANGED dropped

\* take: drained work is answered at once; an empty queue parks the caller,
\* unless its connection is gone already.
Take(k, scope) ==
  /\ polls[k].state = "unmade"
  /\ LET mine  == Only(queued, QueuedFor(scope))
         parks == mine = <<>> /\ polls[k].conn # "aborted"
     IN  /\ queued' = Without(queued, QueuedFor(scope))
         /\ polls' = [polls EXCEPT ![k].scope = scope, ![k].got = mine,
                                 ![k].state = IF parks THEN "parked" ELSE "settled"]
         /\ waiting' = IF parks THEN Append(waiting, k) ELSE waiting
  /\ UNCHANGED <<pushed, dropped>>

\* Mutant of Timeout: the settled poll stays in the waiting list.
TimeoutStaysParked(k) ==
  /\ polls[k].state = "parked"
  /\ polls' = Settled({k}, <<>>)
  /\ UNCHANGED <<queued, waiting, pushed, dropped>>

\* The poll's budget runs out.
Timeout(k) ==
  /\ polls[k].state = "parked"
  /\ polls' = Settled({k}, <<>>)
  /\ waiting' = Without(waiting, {k})
  /\ UNCHANGED <<queued, pushed, dropped>>

\* The driver's connection breaks, before its take or while it is parked.
Break(k) ==
  /\ polls[k].conn = "open" /\ polls[k].state # "settled"
  /\ polls' = [polls EXCEPT ![k].conn = "broken"]
  /\ UNCHANGED <<queued, waiting, pushed, dropped>>

\* The abort signal: a poll that was settled meanwhile ignores it.
Abort(k) ==
  /\ polls[k].conn = "broken"
  /\ polls' = [Settled({k}, <<>>) EXCEPT ![k].conn = "aborted"]
  /\ waiting' = Without(waiting, {k})
  /\ UNCHANGED <<queued, pushed, dropped>>

\* drop: a's queued work goes, and the polls parked for a alone are woken empty.
Drop(a) ==
  LET its == {waiting[i] : i \in {j \in DOMAIN waiting : polls[waiting[j]].scope = a}}
  IN  /\ \/ its # {}
         \/ \E i \in DOMAIN queued : queued[i].agent = a
      /\ queued' = Without(queued, QueuedFor(a))
      /\ dropped' = dropped \cup
           {queued[i].id : i \in {j \in DOMAIN queued : queued[j].agent = a}}
      /\ polls' = Settled(its, <<>>)
      /\ waiting' = Without(waiting, its)
      /\ UNCHANGED pushed

-----------------------------------------------------------------------------
QueueNext ==
  \/ \E a \in Agents : Push(a) \/ Drop(a)
  \/ \E k \in Polls, scope \in Agents \cup {Everyone} : Take(k, scope)
  \/ \E k \in Polls : Timeout(k) \/ Break(k) \/ Abort(k)

QueueSpec == QueueInit /\ [][QueueNext]_queueVars

-----------------------------------------------------------------------------
QueueTypeOK ==
  /\ queued \in Seq(Deliveries)
  /\ waiting \in Seq(Polls)
  /\ polls \in [Polls -> PollsOf]
  /\ pushed \in Seq(Agents)
  /\ dropped \subseteq DOMAIN pushed
  /\ {waiting[i] : i \in DOMAIN waiting} = {k \in Polls : polls[k].state = "parked"}
  /\ Len(waiting) = Cardinality({k \in Polls : polls[k].state = "parked"})

\* No delivery sits in the queue while a driver is parked that would take it: a
\* push that found no waiter and a take that found no work never miss each other.
NobodyWaitsInVain ==
  \A i \in DOMAIN queued, j \in DOMAIN waiting : ~InScope(waiting[j], queued[i].agent)

Ids(s) == {s[i].id : i \in DOMAIN s}

\* Every delivery is in exactly one place: the queue, the answer of one poll, or
\* gone with its agent.  None is handed out twice, and a poll that timed out or
\* was aborted takes none with it.
HandedOutOnce ==
  /\ DOMAIN pushed = Ids(queued) \cup dropped \cup UNION {Ids(polls[k].got) : k \in Polls}
  /\ Ids(queued) \cap dropped = {}
  /\ \A k \in Polls : Ids(polls[k].got) \cap (Ids(queued) \cup dropped) = {}
  /\ \A j, k \in Polls : j # k => Ids(polls[j].got) \cap Ids(polls[k].got) = {}

Ascending(s) == \A i, j \in DOMAIN s : i < j => s[i].id < s[j].id

\* Each answer has its deliveries once and in the order they were pushed, and so
\* are an agent's collected from answer to answer, whoever collects them.
CollectedInOrder ==
  /\ Ascending(queued) /\ \A k \in Polls : Ascending(polls[k].got)
  /\ \A i, j \in DOMAIN pushed :
       (i < j /\ pushed[i] = pushed[j] /\ i \in Ids(queued)) => j \in Ids(queued)

\* Both together, whatever polls race for one push, time out, break and abort.
DeliveredOnceInOrder == HandedOutOnce /\ CollectedInOrder
=============================================================================
