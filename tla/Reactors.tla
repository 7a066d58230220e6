------------------------------- MODULE Reactors ------------------------------
(***************************************************************************)
(* Reactors: what a participant waits for, folded over the Messages of the *)
(* Conversations in its scope and woken when the fold is ready.  One row   *)
(* of the store, keyed by its scope, is read, folded and written back by   *)
(* the fan-outs of its Conversations (each serialized by its queue) and by *)
(* the timers of the registry, with awaits in between.                     *)
(***************************************************************************)
EXTENDS Naturals, FiniteSets

CONSTANTS Targets,            \* participants and Runs a reactor waits on
          ReactorSpecs,       \* the specs installed, as ReactorSpecOf
          ReactorScopes,      \* sets of Conversations
          NoReactor,          \* the absent row
          MaxInstalls,        \* bound: install calls
          MaxReactorRestarts  \* bound: server restarts

VARIABLES scope,     \* the scope of the row: part of its key, it never changes
          reactor,   \* the row in the store, or NoReactor
          timers,    \* ReactorRegistry.timers: the ids with a timer pending
          task,      \* observe and onTimer calls between two awaits
          installs,  \* ids handed out by install
          reboots,   \* restarts so far
          owed,      \* history: the fold as it would be in one step per Message
          disturbed, \* history: installed or removed under a call in flight or a timer
          rung       \* history: a timer has marked the row since its install

reactorVars ==
  <<scope, reactor, timers, task, installs, reboots, owed, disturbed, rung>>

Watched  == UNION ReactorScopes
Ids      == 1..MaxInstalls
Callers  == Watched \cup Ids

ReactorSpecOf == [name : {"awaitAll", "awaitQuorum", "firstOf", "awaitDeadline",
                          "debounce", "supervise"},
                  of : SUBSET Targets, n : Nat]

Timed(spec) == spec.name \in {"awaitDeadline", "debounce"}

\* What a fold remembers: the completions seen, or that it fired or is due.
States  == [seen : SUBSET Targets, flag : BOOLEAN]
Initial == [seen |-> {}, flag |-> FALSE]

\* What reactors read of a Message: its author's turn ended, or it is a notice
\* with a cause.  Any other Message only matters by arriving.
Facts == [author : Targets, endsRun : BOOLEAN, cause : BOOLEAN]

Rows == [id : Ids, spec : ReactorSpecs, state : States]
Idle == [step |-> "idle"]

\* No Conversation has the id of a reactor.
ASSUME ReactorAssumption ==
  /\ MaxInstalls \in Nat /\ MaxReactorRestarts \in Nat
  /\ \A s \in ReactorScopes : s # {} /\ IsFiniteSet(s) /\ s \cap Ids = {}
  /\ NoReactor \notin Rows

-----------------------------------------------------------------------------
(* The reactors *)

Completes(spec, m) == m.endsRun /\ m.author \in spec.of

Observed(spec, state, m) ==
  CASE spec.name \in {"awaitAll", "awaitQuorum"} /\ Completes(spec, m) ->
         [state EXCEPT !.seen = @ \cup {m.author}]
    [] spec.name = "firstOf"   -> [state EXCEPT !.flag = @ \/ Completes(spec, m)]
    [] spec.name = "supervise" -> [state EXCEPT !.flag = @ \/ m.cause]
    [] spec.name = "debounce"  -> [state EXCEPT !.flag = FALSE]
    [] OTHER                   -> state

Ready(spec, state) ==
  CASE spec.name = "awaitAll"    -> spec.of \subseteq state.seen
    [] spec.name = "awaitQuorum" -> Cardinality(state.seen) >= spec.n
    [] OTHER                     -> state.flag

MarkDue(spec, state) == IF Timed(spec) THEN [state EXCEPT !.flag = TRUE] ELSE state

\* Every kind starts over once its wake was delivered.
OnWake(state) == Initial

\* validate: what install accepts for this scope.
Valid(spec) ==
  /\ Timed(spec) => Cardinality(scope) = 1
  /\ spec.name = "awaitQuorum" => spec.n >= 1 /\ spec.of # {}
  /\ spec.name \in {"awaitAll", "firstOf"} => spec.of # {}

\* put: an upsert by scope; the row that is there keeps its id.
Upserted(rec) ==
  IF reactor = NoReactor THEN rec ELSE [rec EXCEPT !.id = reactor.id]

InFlight == {c \in Callers : task[c] # Idle}

-----------------------------------------------------------------------------
ReactorInit ==
  /\ scope \in ReactorScopes
  /\ reactor = NoReactor
  /\ timers = {}
  /\ task = [c \in Callers |-> Idle]
  /\ installs = 0 /\ reboots = 0
  /\ owed = Initial /\ disturbed = FALSE /\ rung = FALSE

\* install: the timer of a deadline is armed under the id just made up.
Install(spec) ==
  /\ installs < MaxInstalls
  /\ Valid(spec)
  /\ installs' = installs + 1
  /\ reactor' = Upserted([id |-> installs', spec |-> spec, state |-> Initial])
  /\ timers' = IF spec.name = "awaitDeadline" THEN timers \cup {installs'} ELSE timers
  /\ owed' = Initial /\ rung' = FALSE
  /\ disturbed' = (InFlight # {} \/ (reactor # NoReactor /\ reactor.id \in timers))
  /\ UNCHANGED <<scope, task, reboots>>

\* remove, of an id some install returned.
RemoveReactor(id) ==
  /\ id <= installs
  /\ timers' = timers \ {id}
  /\ reactor' = IF reactor # NoReactor /\ reactor.id = id THEN NoReactor ELSE reactor
  /\ disturbed' = (disturbed \/ InFlight # {})
  /\ UNCHANGED <<scope, task, installs, reboots, owed, rung>>

\* observe: a Message reaches the head of its Conversation's queue, and the
\* reactors watching it are listed.
Post(r, m) ==
  /\ r \in scope /\ task[r] = Idle
  /\ reactor # NoReactor
  /\ task' = [task EXCEPT ![r] = [step |-> "read", rec |-> reactor, msg |-> m]]
  /\ UNCHANGED <<scope, reactor, timers, installs, reboots, owed, disturbed, rung>>

\* The fold is written back when it advanced; a debounce (re)arms its timer; a
\* ready reactor goes on to its wake.
Fold(r) ==
  /\ r \in Watched /\ task[r].step = "read"
  /\ LET rec  == task[r].rec
         next == [rec EXCEPT !.state = Observed(rec.spec, @, task[r].msg)]
     IN  /\ reactor' = IF next # rec \/ rec.spec.name = "debounce"
                         THEN Upserted(next) ELSE reactor
         /\ timers' = IF rec.spec.name = "debounce" THEN timers \cup {rec.id} ELSE timers
         /\ task' = [task EXCEPT ![r] = IF Ready(rec.spec, next.state)
                                          THEN [step |-> "firing", rec |-> next] ELSE Idle]
         /\ owed' = Observed(rec.spec, owed, task[r].msg)
  /\ UNCHANGED <<scope, installs, reboots, disturbed, rung>>

\* onTimer: an id the store does not know ends here.
Ring(id) ==
  /\ id \in timers /\ task[id] = Idle
  /\ timers' = timers \ {id}
  /\ task' = [task EXCEPT ![id] =
                IF reactor # NoReactor /\ reactor.id = id
                  THEN [step |-> "read", rec |-> reactor] ELSE Idle]
  /\ UNCHANGED <<scope, reactor, installs, reboots, owed, disturbed, rung>>

Mark(id) ==
  /\ id \in Ids /\ task[id].step = "read"
  /\ LET rec  == task[id].rec
         next == [rec EXCEPT !.state = MarkDue(rec.spec, @)]
     IN  /\ reactor' = Upserted(next)
         /\ task' = [task EXCEPT ![id] = IF Ready(rec.spec, next.state)
                                           THEN [step |-> "firing", rec |-> next] ELSE Idle]
         /\ owed' = MarkDue(rec.spec, owed)
  /\ rung' = TRUE
  /\ UNCHANGED <<scope, timers, installs, reboots, disturbed>>

\* Mutant of Fire: a wake that was refused starts the fold over as well.
FireResetsAlways(c) ==
  /\ task[c].step = "firing"
  /\ task' = [task EXCEPT ![c] = Idle]
  /\ reactor' = Upserted([task[c].rec EXCEPT !.state = OnWake(@)])
  /\ owed' \in {owed, OnWake(owed)}
  /\ UNCHANGED <<scope, timers, installs, reboots, disturbed, rung>>

\* fire: a wake that was delivered starts the fold over; one the budget or the
\* admission refused leaves it ready.
Fire(c) ==
  /\ task[c].step = "firing"
  /\ task' = [task EXCEPT ![c] = Idle]
  /\ \/ /\ reactor' = Upserted([task[c].rec EXCEPT !.state = OnWake(@)])
        /\ owed' = OnWake(owed)
     \/ UNCHANGED <<reactor, owed>>
  /\ UNCHANGED <<scope, timers, installs, reboots, disturbed, rung>>

\* The server restarts: rows stay, timers and calls in flight are gone.
Reboot ==
  /\ reboots < MaxReactorRestarts
  /\ reboots' = reboots + 1
  /\ timers' = {}
  /\ task' = [c \in Callers |-> Idle]
  /\ UNCHANGED <<scope, reactor, installs, owed, disturbed, rung>>

ReactorNext ==
  \/ \E spec \in ReactorSpecs : Install(spec)
  \/ \E id \in Ids : RemoveReactor(id) \/ Ring(id) \/ Mark(id)
  \/ \E r \in Watched, m \in Facts : Post(r, m)
  \/ \E r \in Watched : Fold(r)
  \/ \E c \in Callers : Fire(c)
  \/ Reboot

ReactorSpec == ReactorInit /\ [][ReactorNext]_reactorVars

-----------------------------------------------------------------------------
ReactorTypeOK ==
  /\ scope \in ReactorScopes
  /\ reactor \in Rows \cup {NoReactor}
  /\ timers \subseteq Ids
  /\ installs \in 0..MaxInstalls
  /\ owed \in States

\* A scope of one Conversation folds every completion, cause and timer exactly
\* once: whenever nothing is in flight the stored fold is the one that would
\* come of folding each of them in one step, and a refused wake leaves it ready.
FoldedExactly ==
  (/\ Cardinality(scope) = 1 /\ reactor # NoReactor
   /\ InFlight = {} /\ ~disturbed) => reactor.state = owed

\* A deadline that has not rung has the timer that will ring it.
DeadlineIsArmed ==
  (/\ reactor # NoReactor /\ reactor.spec.name = "awaitDeadline"
   /\ InFlight = {} /\ ~rung) => reactor.id \in timers
=============================================================================
