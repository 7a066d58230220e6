------------------------------ MODULE Triggers -------------------------------
(***************************************************************************)
(* The triggers of one session: TriggerManager stores them, TriggerEngine  *)
(* arms the schedules and delivers firings to a dedicated sub-agent or to  *)
(* Prime.  Between a request and its effect lie real waits: the handler's  *)
(* worker thread, and the memory lookup before Prime can be spawned.       *)
(*                                                                         *)
(* The file and the manager's map change together, so one "file" stands    *)
(* for both and "loaded" says whether the map exists; a write that fails   *)
(* is left out.  A trigger object outlives its removal in the call that    *)
(* holds it.  Prime's own crashes belong to PiRuns.                        *)
(***************************************************************************)
EXTENDS Naturals, Sequences

CONSTANTS TriggerIds,
          Scheduled,        \* the triggers of kind "schedule"; the others are callbacks
          Dedicated,        \* the triggers whose target is a sub-agent
          WithHandler,      \* the triggers with a compiled handler
          Seeded,           \* the triggers the session's bundle declares
          Calls,            \* bound: requests and firings under way at once
          Period,           \* a schedule's interval, in ticks
          MaxWorkers,       \* bound: sub-agents spawned for triggers
          MaxBoots          \* bound: server restarts

ASSUME TriggerAssumption ==
  /\ Scheduled \subseteq TriggerIds /\ Dedicated \subseteq TriggerIds
  /\ Seeded \subseteq TriggerIds \ Dedicated
  /\ Period \in Nat \ {0} /\ MaxWorkers \in Nat /\ MaxBoots \in Nat

VARIABLES session,  \* the session's row: "live" or "deleted"
          file,     \* each trigger on file: "unmade", "on", "off", "removed"
          loaded,   \* TriggerManager.sessions holds the session
          target,   \* target.agentId: each trigger's recorded worker, 0 for none
          armed,    \* TriggerEngine.timers
          age,      \* ticks since each interval began
          prime,    \* "down", "starting" (memory is being resolved), "up"
          owner,    \* the trigger of each worker spawned, by its number
          alive,    \* the workers pi holds
          backing,  \* workers that died and are due to be respawned after a back-off
          rows,     \* roster rows of workers that are not terminal
          revived,  \* history: workers brought back after they had been replaced
          call,     \* the requests and firings under way
          boots

triggerVars == <<session, file, loaded, target, armed, age, prime,
                 owner, alive, backing, rows, revived, call, boots>>

NoCall == [op |-> "none", on |-> CHOOSE t \in TriggerIds : TRUE, at |-> "idle"]
CallRecords == [op : {"none", "fire", "provision", "join"}, on : TriggerIds \cup {NoCall.on},
                at : {"idle", "resolving", "ensuring", "awaiting", "ready"}]

-----------------------------------------------------------------------------
(* Helpers *)

OnFile(t) == file[t] \in {"on", "off"}

\* arm: every handle is cleared, and each enabled schedule gets a fresh one.
Arm(f) ==
  /\ armed' = {t \in Scheduled : f[t] = "on"}
  /\ age' = [t \in TriggerIds |-> 0]

Disarm == armed' = {} /\ age' = [t \in TriggerIds |-> 0]

Goes(c, place) == call' = [call EXCEPT ![c].at = place]
Returns(c) == call' = [call EXCEPT ![c] = NoCall]
Starts(c, op, t, place) == call' = [call EXCEPT ![c] = [op |-> op, on |-> t, at |-> place]]

Begin(c, t) == Starts(c, "fire", t, IF t \in WithHandler THEN "resolving" ELSE "ensuring")

\* seed: the bundle's triggers are stored and armed when the session is created.
TriggerInit ==
  /\ session = "live" /\ loaded = TRUE
  /\ file = [t \in TriggerIds |-> IF t \in Seeded THEN "on" ELSE "unmade"]
  /\ target = [t \in TriggerIds |-> 0]
  /\ armed = Scheduled \cap Seeded
  /\ age = [t \in TriggerIds |-> 0]
  /\ prime = "up"
  /\ owner = <<>> /\ alive = {} /\ backing = {} /\ rows = {} /\ revived = {}
  /\ call = [c \in Calls |-> NoCall]
  /\ boots = 0

-----------------------------------------------------------------------------
(* Requests that change the definitions *)

\* create: stored at once; a dedicated worker is provisioned before the arming.
CreateTrigger(c, t, flag) ==
  /\ session = "live" /\ call[c].op = "none" /\ file[t] = "unmade"
  /\ file' = [file EXCEPT ![t] = flag]
  /\ loaded' = TRUE
  /\ IF t \in Dedicated
       THEN Starts(c, "provision", t, "ensuring") /\ UNCHANGED <<armed, age>>
       ELSE Arm(file') /\ UNCHANGED call
  /\ UNCHANGED <<session, target, prime, owner, alive, backing, rows, revived, boots>>

\* update: a patch of enabled, followed by afterChange.
UpdateTrigger(t, flag) ==
  /\ session = "live" /\ OnFile(t)
  /\ file' = [file EXCEPT ![t] = flag]
  /\ loaded' = TRUE
  /\ Arm(file')
  /\ UNCHANGED <<session, target, prime, owner, alive, backing, rows, revived, call, boots>>

\* Mutant of RemoveTrigger: the row goes and its timer stays.
RemoveLeavesTimer(t) ==
  /\ session = "live" /\ OnFile(t)
  /\ file' = [file EXCEPT ![t] = "removed"]
  /\ loaded' = TRUE
  /\ UNCHANGED <<session, target, armed, age, prime, owner, alive, backing, rows, revived, call, boots>>

RemoveTrigger(t) ==
  /\ session = "live" /\ OnFile(t)
  /\ file' = [file EXCEPT ![t] = "removed"]
  /\ loaded' = TRUE
  /\ Arm(file')
  /\ UNCHANGED <<session, target, prime, owner, alive, backing, rows, revived, call, boots>>

-----------------------------------------------------------------------------
(* Firings *)

\* Time passes for every armed interval; a due one runs before the next tick.
Tick ==
  /\ armed # {} /\ \A t \in armed : age[t] < Period
  /\ age' = [t \in TriggerIds |-> IF t \in armed THEN age[t] + 1 ELSE age[t]]
  /\ UNCHANGED <<session, file, loaded, target, armed, prime, owner, alive, backing, rows,
                 revived, call, boots>>

\* A due interval runs fire: a trigger that is gone or off throws.
Elapse(c, t) ==
  /\ t \in armed /\ age[t] = Period /\ call[c].op = "none"
  /\ age' = [age EXCEPT ![t] = 0]
  /\ IF loaded /\ file[t] = "on" THEN Begin(c, t) ELSE UNCHANGED call
  /\ UNCHANGED <<session, file, loaded, target, armed, prime, owner, alive, backing, rows,
                 revived, boots>>

\* fireCallback: an outside system posts to the trigger's secret URL.
Callback(c, t) ==
  /\ session = "live" /\ call[c].op = "none"
  /\ t \notin Scheduled /\ file[t] = "on"
  /\ loaded' = TRUE
  /\ Begin(c, t)
  /\ UNCHANGED <<session, file, target, armed, age, prime, owner, alive, backing, rows,
                 revived, boots>>

\* resolveTriggerPrompt: the handler's worker answers; an error or its timeout
\* ends the firing.
HandlerAnswers(c, ok) ==
  /\ call[c].at = "resolving"
  /\ IF ok THEN Goes(c, "ensuring") ELSE Returns(c)
  /\ UNCHANGED <<session, file, loaded, target, armed, age, prime, owner, alive, backing,
                 rows, revived, boots>>

\* pi.ensure: at once for a Prime that runs, else joining the spawn under way.
EnsurePrime(c) ==
  /\ call[c].at = "ensuring"
  /\ Goes(c, IF prime = "up" THEN "ready" ELSE "awaiting")
  /\ prime' = IF prime = "down" THEN "starting" ELSE prime
  /\ UNCHANGED <<session, file, loaded, target, armed, age, owner, alive, backing, rows,
                 revived, boots>>

\* The memory is resolved, Prime spawned, and whoever waited goes on.
PrimeUp ==
  /\ prime = "starting"
  /\ prime' = "up"
  /\ call' = [c \in Calls |-> IF call[c].at = "awaiting"
                                THEN [call[c] EXCEPT !.at = "ready"] ELSE call[c]]
  /\ UNCHANGED <<session, file, loaded, target, armed, age, owner, alive, backing, rows,
                 revived, boots>>

\* The ensuring promise of a session that was disposed meanwhile: it settles
\* without spawning.
Ensured(c) ==
  /\ call[c].at = "awaiting" /\ session = "deleted"
  /\ Goes(c, "ready")
  /\ UNCHANGED <<session, file, loaded, target, armed, age, prime, owner, alive, backing,
                 rows, revived, boots>>

\* What a provision or a firing does once its worker is there: arm, or post.
Finish(c) ==
  /\ Returns(c)
  /\ IF call[c].op = "provision" /\ loaded THEN Arm(file)
     ELSE IF call[c].op = "provision" THEN Disarm
     ELSE UNCHANGED <<armed, age>>

\* Mutant of Recorded: the worker's id is not written back onto the trigger.
RecordedNowhere(t) == target

\* setTargetAgent: nothing when the trigger or the session's state is gone.
Recorded(t) ==
  IF loaded /\ OnFile(t) THEN [target EXCEPT ![t] = Len(owner) + 1] ELSE target

\* ensureSubagent finds the recorded worker alive, or the target is Prime.
Reuse(c) ==
  /\ call[c].at = "ready" /\ call[c].op \in {"fire", "provision"}
  /\ call[c].on \in Dedicated => target[call[c].on] \in alive
  /\ Finish(c)
  /\ UNCHANGED <<session, file, loaded, target, prime, owner, alive, backing, rows, revived, boots>>

\* ensureSubagent spawns a fresh worker from the trigger's spec.
SpawnForTrigger(c) ==
  LET t == call[c].on
  IN  /\ call[c].at = "ready" /\ call[c].op \in {"fire", "provision"}
      /\ t \in Dedicated /\ target[t] \notin alive
      /\ prime = "up" /\ Len(owner) < MaxWorkers
      /\ owner' = Append(owner, t)
      /\ alive' = alive \cup {Len(owner')}
      /\ rows' = IF session = "live" THEN rows \cup {Len(owner')} ELSE rows
      /\ target' = Recorded(t)
      /\ Finish(c)
      /\ UNCHANGED <<session, file, loaded, prime, backing, revived, boots>>

\* spawnSubagent throws: no session record, or the process did not start.  A
\* create then answers 400 and never reaches its arming.
SpawnFails(c) ==
  LET t == call[c].on
  IN  /\ call[c].at = "ready" /\ call[c].op \in {"fire", "provision"}
      /\ t \in Dedicated /\ target[t] \notin alive
      /\ Returns(c)
      /\ UNCHANGED <<session, file, loaded, target, armed, age, prime, owner, alive, backing,
                     rows, revived, boots>>

\* A worker that is killed, or that the supervisor gives up.
WorkerEnds(w) ==
  /\ w \in alive
  /\ alive' = alive \ {w} /\ rows' = rows \ {w}
  /\ UNCHANGED <<session, file, loaded, target, armed, age, prime, owner, backing,
                 revived, call, boots>>

\* scheduleRespawn: one that dies leaves the roster, its row stays active, and it is
\* to come back under the same id.
WorkerDies(w) ==
  /\ w \in alive
  /\ alive' = alive \ {w} /\ backing' = backing \cup {w}
  /\ UNCHANGED <<session, file, loaded, target, armed, age, prime, owner, rows,
                 revived, call, boots>>

\* Those among ws that come back although their trigger has had another since.
Replaced(ws) == {v \in ws \ alive : \E w \in DOMAIN owner : v < w /\ owner[w] = owner[v]}

\* Its back-off is over: nothing to do without a session or when it is there already,
\* and the spawn may fail.
Respawn(w, ok) ==
  /\ w \in backing
  /\ backing' = backing \ {w}
  /\ alive' = IF prime = "up" /\ ok THEN alive \cup {w} ELSE alive
  /\ revived' = revived \cup Replaced(alive')
  /\ UNCHANGED <<session, file, loaded, target, armed, age, prime, owner, rows, call, boots>>

-----------------------------------------------------------------------------
(* The session around them *)

\* chat:join finds the session and waits for ensureSessionAgents.
JoinChat(c) ==
  /\ session = "live" /\ call[c].op = "none"
  /\ Starts(c, "join", call[c].on, "ensuring")
  /\ UNCHANGED <<session, file, loaded, target, armed, age, prime, owner, alive,
                 backing, rows, revived, boots>>

\* The rest of the join: revive the persisted workers, then sync the triggers.
Sync(c) ==
  /\ call[c].op = "join" /\ call[c].at = "ready"
  /\ alive' = IF prime = "up" THEN alive \cup rows ELSE alive
  /\ revived' = revived \cup Replaced(alive')
  /\ loaded' = TRUE
  /\ Arm(file)
  /\ Returns(c)
  /\ UNCHANGED <<session, file, target, prime, owner, backing, rows, boots>>

\* handleDeleteSession: the row, then pi.dispose and triggerEngine.dispose; the
\* folder with the triggers file stays.
DeleteSession ==
  /\ session = "live"
  /\ session' = "deleted"
  /\ prime' = "down" /\ alive' = {} /\ rows' = {}
  /\ loaded' = FALSE
  /\ Disarm
  /\ UNCHANGED <<file, target, owner, backing, revived, call, boots>>

Boot ==
  /\ boots < MaxBoots
  /\ boots' = boots + 1
  /\ prime' = "down" /\ alive' = {} /\ backing' = {} /\ loaded' = FALSE
  /\ Disarm
  /\ call' = [c \in Calls |-> NoCall]
  /\ UNCHANGED <<session, file, target, owner, rows, revived>>

\* The rest of a call runs to its next real wait before the next event is taken.
AtRest == \A c \in Calls : call[c].at \notin {"ensuring", "ready"}

Events ==
  \/ \E c \in Calls, t \in TriggerIds, flag \in {"on", "off"} : CreateTrigger(c, t, flag)
  \/ \E t \in TriggerIds, flag \in {"on", "off"} : UpdateTrigger(t, flag)
  \/ \E t \in TriggerIds : RemoveTrigger(t)
  \/ Tick
  \/ \E c \in Calls, t \in TriggerIds : Elapse(c, t) \/ Callback(c, t)
  \/ \E c \in Calls, ok \in BOOLEAN : HandlerAnswers(c, ok)
  \/ PrimeUp
  \/ \E w \in 1..MaxWorkers : \/ WorkerEnds(w) \/ WorkerDies(w)
                              \/ \E ok \in BOOLEAN : Respawn(w, ok)
  \/ \E c \in Calls : JoinChat(c) \/ Ensured(c)
  \/ DeleteSession
  \/ Boot

Continue(c) ==
  EnsurePrime(c) \/ Reuse(c) \/ SpawnForTrigger(c) \/ SpawnFails(c) \/ Sync(c)

TriggerNext == (AtRest /\ Events) \/ \E c \in Calls : Continue(c)

\* Timers run when they are due, and the waits settle: the memory lookup falls
\* back when it fails, and the handler's worker has a budget.
TriggerFairness ==
  /\ WF_triggerVars(AtRest /\ Tick) /\ WF_triggerVars(AtRest /\ PrimeUp)
  /\ \A t \in TriggerIds : WF_triggerVars(AtRest /\ \E c \in Calls : Elapse(c, t))
  /\ \A c \in Calls :
       /\ WF_triggerVars(AtRest /\ \E ok \in BOOLEAN : HandlerAnswers(c, ok))
       /\ WF_triggerVars(AtRest /\ Ensured(c))
       /\ WF_triggerVars(Continue(c))

TriggerSpec == TriggerInit /\ [][TriggerNext]_triggerVars
TriggerFairSpec == TriggerSpec /\ TriggerFairness

-----------------------------------------------------------------------------
\* Only triggers that are on file and enabled have a timer, through every order
\* of changes with the creates and joins that arm after their waits.
ArmedIsEnabled == \A t \in armed : file[t] = "on"

TriggerTypeOK ==
  /\ session \in {"live", "deleted"}
  /\ file \in [TriggerIds -> {"unmade", "on", "off", "removed"}]
  /\ loaded \in BOOLEAN
  /\ target \in [TriggerIds -> 0..MaxWorkers]
  /\ armed \subseteq Scheduled /\ ArmedIsEnabled
  /\ age \in [TriggerIds -> 0..Period]
  /\ prime \in {"down", "starting", "up"}
  /\ owner \in Seq(TriggerIds) /\ Len(owner) <= MaxWorkers
  /\ alive \cup backing \cup rows \cup revived \subseteq DOMAIN owner
  /\ call \in [Calls -> CallRecords]
  /\ boots \in 0..MaxBoots

\* A trigger that stands has one worker: firings and a provision that overlap never
\* spawn it twice, nor does one that finds it at work.  Only a worker that was gone
\* when a firing came, in its back-off or since a restart, is replaced, and one that
\* comes back all the same stays beside its successor.
OneWorkerEach ==
  session = "live" =>
    \A v, w \in alive :
      (v < w /\ owner[v] = owner[w] /\ OnFile(owner[v])) => v \in revived

\* docs/overview/08-triggers.md:37-38 "by default a dedicated helper agent": one each.  A
\* worker that comes back makes it false, so no run claims it.
OneHelperEach ==
  session = "live" =>
    \A v, w \in alive : (owner[v] = owner[w] /\ OnFile(owner[v])) => v = w

\* docs/overview/01-sessions.md:85 "Deleting a session is clean and complete: the
\* agent (and any specialists it spawned) is stopped, scheduled work is disarmed".
\* A join that waited for Prime while the session was deleted arms it again from
\* the file that stays in the folder.
DeletedStaysQuiet == session = "deleted" => armed = {}

\* sync is "Idempotent - safe to call on chat join" (triggerEngine.ts:122): once the
\* definitions are left alone, a schedule that stays armed keeps firing.  Each join
\* starts every interval anew, so people who come and go more often than the
\* interval keep it from ever running out.
ScheduleFires ==
  \A t \in Scheduled :
    (<>[](t \in armed) /\ <>[][\A f \in {"on", "off"} : ~UpdateTrigger(t, f)]_triggerVars)
      => []<>(age[t] = Period)
=============================================================================
