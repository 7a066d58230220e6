---------------------------- MODULE Provisioning -----------------------------
(***************************************************************************)
(* A session from its creation to its deletion: the row is inserted first, *)
(* then the bundle is written out, shared folders are mounted, the memory  *)
(* binding is settled and Prime is spawned, each after real file I/O, with *)
(* the session on everybody's list all the while.  Whoever joins it, posts *)
(* in it or fires a trigger of it spawns Prime too.                        *)
(*                                                                         *)
(* A leaf of the memory binding is rooted at the mount name of one shared  *)
(* folder.  Prime's runs and its crashes belong to PiRuns, what armed      *)
(* triggers do to Triggers.                                                *)
(***************************************************************************)
EXTENDS Naturals, FiniteSets

CONSTANTS Folders,     \* shared folders
          SeedMounts,  \* those the creation request mounts
          BoundTo,     \* those the requested memory binding is rooted in
          MaxCallers,  \* bound: calls that are about to ensure Prime
          MaxCrashes   \* bound: restarts of the server

ASSUME ProvisionAssumption ==
  /\ SeedMounts \subseteq Folders /\ BoundTo \subseteq Folders
  /\ MaxCallers \in Nat /\ MaxCrashes \in Nat

VARIABLES row,       \* the session's: "none", "live", "deleted", or "withdrawn" by a
                     \* creation that failed
          creation,  \* where handleCreateSession stands
          tree,      \* the installed .tangent/: "none", "part", "whole"
          seeds,     \* mounts the creation has yet to make
          mounting,  \* mounts under way
          entry,     \* at each mount name: "none", a "link" to its folder, or the
                     \* agent's "own" directory
          mounted,   \* folders with a mount row in the catalog
          binding,   \* the leaves of the stored binding
          ensuring,  \* PiAgentManager.ensuring: the spawns awaiting their memory
          record,    \* PiAgentManager.sessions: the config captured, in a set
          primes,    \* the session's Prime process, in a set
          offered,   \* history: leaves whose store was there at the creation
          callers,   \* calls that found the session and have yet to ensure Prime
          early,     \* history: Prime was ensured before the bundle was written out
          late,      \* history: Prime was ensured after the session's row was gone
          crashes

provisionVars == <<row, creation, tree, seeds, mounting, entry, mounted, binding,
                   ensuring, record, primes, offered, callers, early, late, crashes>>
diskAndRows == <<tree, seeds, mounting, entry, mounted, binding>>

Configs == {"none", "default", "cut", "bundle"}

ProvisionInit ==
  /\ row = "none" /\ creation = "idle" /\ tree = "none" /\ seeds = {}
  /\ mounting = {} /\ entry = [f \in Folders |-> "none"] /\ mounted = {} /\ binding = {}
  /\ ensuring = {} /\ record = {} /\ primes = {}
  /\ offered = {} /\ callers = 0 /\ early = FALSE /\ late = FALSE /\ crashes = 0

UnderWay == creation \in {"installing", "seeding"}

\* checkPiMemoryStore and storeAvailable: the root is a directory there, and leads to
\* a folder the session has mounted or stays inside the session.
Available(f) == entry[f] = "own" \/ (entry[f] = "link" /\ f \in mounted)

(***************************************************************************)
(* Prime                                                                   *)
(***************************************************************************)
\* ensure: the first caller's options count, the binding is read at once.
EnsureAgent(config, leaves) ==
  IF primes # {} \/ ensuring # {} THEN UNCHANGED ensuring
  ELSE ensuring' = {[config |-> config, leaves |-> leaves]}

\* loadInstalledConfig: a tree that is still being written fails to parse, or lacks
\* the parts that are not there yet.
Installed == CASE tree = "none" -> {"none"}
               [] tree = "part" -> {"none", "cut"}
               [] tree = "whole" -> {"bundle"}

\* The config captured at an earlier spawn.
Captured == record \ {"none"}

\* Mutant of Effective: the installed config is not looked for.
EffectiveInMemory(given) ==
  IF given # "none" THEN {given}
  ELSE IF Captured # {} THEN Captured ELSE {"none"}

\* resolveEffectiveConfig: the caller's, else the captured one, else the installed one.
Effective(given) ==
  IF given # "none" THEN {given}
  ELSE IF Captured # {} THEN Captured ELSE Installed

\* spawnPrime: the record keeps the first config it is given; the memory is resolved
\* anew and a leaf whose store is not there is left out of it.
SpawnPrime ==
  /\ \E e \in ensuring : \E found \in Effective(e.config) :
     \E kept \in (IF Captured = {} THEN {found} ELSE Captured) :
       /\ record' = {kept}
       /\ primes' = {[config |-> IF kept = "none" THEN "default" ELSE kept,
                      memory |-> {f \in e.leaves : Available(f)}]}
  /\ ensuring' = {}
  /\ UNCHANGED <<row, creation, diskAndRows, offered, callers, early, late, crashes>>

\* A join, a post or a firing finds the session on file, and awaits what comes before
\* Prime: its home, its environment, the trigger's handler ...
CallFinds ==
  /\ row = "live" /\ callers < MaxCallers
  /\ callers' = callers + 1
  /\ UNCHANGED <<row, creation, diskAndRows, ensuring, record, primes, offered, early, late,
                 crashes>>

\* ... and ensures Prime, without another look at the row.
CallEnsures ==
  /\ callers > 0
  /\ callers' = callers - 1
  /\ EnsureAgent("none", binding)
  /\ early' = (early \/ tree # "whole") /\ late' = (late \/ row # "live")
  /\ UNCHANGED <<row, creation, diskAndRows, record, primes, offered, crashes>>

\* The supervisor gave up on Prime's process; the session's record stays.
PrimeGone ==
  /\ primes # {}
  /\ primes' = {}
  /\ UNCHANGED <<row, creation, diskAndRows, ensuring, record, offered, callers, early, late,
                 crashes>>

(***************************************************************************)
(* Creation                                                                *)
(***************************************************************************)
CreateSession ==
  /\ row = "none"
  /\ row' = "live" /\ creation' = "installing"
  /\ UNCHANGED <<diskAndRows, ensuring, record, primes, offered, callers, early, late, crashes>>

\* installBundle writes the bundle file by file ...
InstallSome ==
  /\ creation = "installing" /\ tree = "none"
  /\ tree' = "part"
  /\ UNCHANGED <<row, creation, seeds, mounting, entry, mounted, binding, ensuring, record,
                 primes, offered, callers, early, late, crashes>>

\* ... and resolves the config; the seeds come next.
InstallRest ==
  /\ creation = "installing" /\ tree = "part"
  /\ tree' = "whole" /\ creation' = "seeding" /\ seeds' = SeedMounts
  /\ UNCHANGED <<row, mounting, entry, mounted, binding, ensuring, record, primes, offered,
                 callers, early, late, crashes>>

\* The catch of createSessionFromBundle: the row goes, whoever uses it does not.
Withdraw ==
  /\ creation' = "failed" /\ seeds' = {}
  /\ row' = (IF row = "live" THEN "withdrawn" ELSE row)
  /\ mounted' = {} /\ binding' = {}

InstallFails ==
  /\ creation = "installing"
  /\ Withdraw
  /\ UNCHANGED <<tree, mounting, entry, ensuring, record, primes, offered, callers, early, late,
                 crashes>>

\* storeSessionMemory keeps the leaves whose store is there, for good; then the
\* triggers are armed and Prime is ensured with the bundle's config.
SettledLeaves == {f \in BoundTo : Available(f)}

Provision ==
  /\ creation = "seeding" /\ seeds = {}
  /\ creation' = "done" /\ offered' = {f \in BoundTo : Available(f)}
  /\ LET kept == IF row = "live" THEN SettledLeaves ELSE {} IN
     binding' = kept /\ EnsureAgent("bundle", kept)
  /\ late' = (late \/ row # "live")
  /\ UNCHANGED <<row, tree, seeds, mounting, entry, mounted, record, primes, callers, early,
                 crashes>>

(***************************************************************************)
(* Mounts                                                                  *)
(***************************************************************************)
Refuse(m) == IF m.by = "creation" THEN Withdraw
             ELSE UNCHANGED <<creation, seeds, row, mounted, binding>>

\* createMountSymlink looks at the mount name: a link to the folder will do, anything
\* else is in the way.
MountLooks(by, f) ==
  /\ by = "creation" => (creation = "seeding" /\ f \in seeds)
  /\ by = "request" => row = "live"
  /\ \A m \in mounting : m.by # by
  /\ IF entry[f] = "own" THEN Refuse([by |-> by]) /\ UNCHANGED mounting
     ELSE /\ mounting' = mounting \cup
               {[by |-> by, of |-> f,
                 at |-> IF entry[f] = "link" THEN "linked" ELSE "looked"]}
          /\ UNCHANGED <<creation, seeds, row, mounted, binding>>
  /\ UNCHANGED <<tree, entry, ensuring, record, primes, offered, callers, early, late, crashes>>

\* The link is made, unless the name was taken meanwhile.
MountLinks(m) ==
  /\ m.at = "looked"
  /\ IF entry[m.of] = "none"
     THEN /\ entry' = [entry EXCEPT ![m.of] = "link"]
          /\ mounting' = (mounting \ {m}) \cup {[m EXCEPT !.at = "linked"]}
          /\ UNCHANGED <<creation, seeds, row, mounted, binding>>
     ELSE Refuse(m) /\ mounting' = mounting \ {m} /\ UNCHANGED entry
  /\ UNCHANGED <<tree, ensuring, record, primes, offered, callers, early, late, crashes>>

\* The mount is catalogued: the row refers to the session's, which must be there.
MountRow(m) ==
  /\ m.at = "linked"
  /\ mounting' = mounting \ {m}
  /\ IF row # "live" THEN Refuse(m)
     ELSE /\ mounted' = mounted \cup {m.of}
          /\ seeds' = (IF m.by = "creation" THEN seeds \ {m.of} ELSE seeds)
          /\ UNCHANGED <<creation, row, binding>>
  /\ UNCHANGED <<tree, entry, ensuring, record, primes, offered, callers, early, late, crashes>>

\* removeResourceByUri of a mount: the link stays.
Unmount(f) ==
  /\ row = "live" /\ f \in mounted
  /\ mounted' = mounted \ {f}
  /\ UNCHANGED <<row, creation, tree, seeds, mounting, entry, binding, ensuring, record,
                 primes, offered, callers, early, late, crashes>>

\* Prime has the run of the session's root.
AgentTidies(f, what) ==
  /\ primes # {} /\ entry[f] # what
  /\ entry' = [entry EXCEPT ![f] = what]
  /\ UNCHANGED <<row, creation, tree, seeds, mounting, mounted, binding, ensuring, record,
                 primes, offered, callers, early, late, crashes>>

(***************************************************************************)
(* The end                                                                 *)
(***************************************************************************)
\* Mutant of Dispose: a spawn that awaits its memory goes on.
DisposeRunning == UNCHANGED ensuring /\ record' = {} /\ primes' = {}

\* PiAgentManager.dispose, a spawn that still awaits its memory included.
Dispose == ensuring' = {} /\ record' = {} /\ primes' = {}

\* handleDeleteSession: the rows go by cascade, the folder stays on disk.
RemoveSession ==
  /\ row = "live"
  /\ row' = "deleted" /\ mounted' = {} /\ binding' = {}
  /\ Dispose
  /\ UNCHANGED <<creation, tree, seeds, mounting, entry, offered, callers, early, late,
                 crashes>>

\* The server restarts: processes and requests are gone, a creation is cut off.
ServerCrashes ==
  /\ crashes < MaxCrashes
  /\ crashes' = crashes + 1
  /\ creation' = (IF UnderWay THEN "lost" ELSE creation)
  /\ seeds' = {} /\ mounting' = {} /\ callers' = 0 /\ early' = FALSE /\ late' = FALSE
  /\ Dispose
  /\ UNCHANGED <<row, tree, entry, mounted, binding, offered>>

ProvisionNext ==
  \/ CreateSession \/ InstallSome \/ InstallRest \/ InstallFails \/ Provision
  \/ CallFinds \/ CallEnsures \/ SpawnPrime \/ PrimeGone \/ RemoveSession \/ ServerCrashes
  \/ \E f \in Folders : \/ Unmount(f)
                        \/ \E by \in {"creation", "request"} : MountLooks(by, f)
                        \/ \E what \in {"none", "link", "own"} : AgentTidies(f, what)
  \/ \E m \in mounting : MountLinks(m) \/ MountRow(m)

ProvisionSpec == ProvisionInit /\ [][ProvisionNext]_provisionVars
-----------------------------------------------------------------------------
\* Every variable keeps its type, there is at most one spawn and one Prime, and a
\* folder has a mount row only while the session is on file.
ProvisionTypeOK ==
  /\ row \in {"none", "live", "deleted", "withdrawn"}
  /\ creation \in {"idle", "installing", "seeding", "done", "failed", "lost"}
  /\ tree \in {"none", "part", "whole"} /\ seeds \subseteq SeedMounts
  /\ mounting \subseteq [by : {"creation", "request"}, of : Folders,
                    at : {"looked", "linked"}]
  /\ entry \in [Folders -> {"none", "link", "own"}]
  /\ mounted \subseteq Folders /\ binding \subseteq BoundTo /\ offered \subseteq BoundTo
  /\ row # "live" => mounted = {} /\ binding = {}
  /\ Cardinality(ensuring) <= 1
  /\ ensuring \subseteq [config : Configs, leaves : SUBSET BoundTo]
  /\ Cardinality(record) <= 1 /\ record \subseteq Configs
  /\ Cardinality(primes) <= 1
  /\ primes \subseteq [config : Configs, memory : SUBSET BoundTo]
  /\ callers \in 0..MaxCallers /\ early \in BOOLEAN /\ late \in BOOLEAN
  /\ crashes \in 0..MaxCrashes

\* Once the creation is done, Prime runs with the configuration of the bundle, whoever
\* has it spawned and after whatever crash or restart, unless someone had it spawned
\* before the bundle was there (PiAgentManager.resolveEffectiveConfig: a respawn comes
\* up as the session was created).
RunsTheBundle ==
  \A p \in primes : creation = "done" /\ ~early => p.config = "bundle"

\* No Prime has the memory of a store that was not there when the session was created:
\* what a later mount, or the agent, puts at that name does not become its memory
\* (memory/binding.ts:160-165, "instead of picking the
\* store up (or creating it at a mount name) later").
MemoryIsSettled == \A p \in primes : p.memory \subseteq offered

\* Prime is as the session was created, whatever crash, restart, mount or unmount came
\* between.
PrimeIsAsCreated == RunsTheBundle /\ MemoryIsSettled

\* A deleted session has no Prime and no spawn of one, though a spawn was awaiting its
\* memory when it was deleted, until someone who had found the session before asks for
\* Prime after.
DeletedHasNoPrime == row = "deleted" /\ ~late => primes = {} /\ ensuring = {}

\* Not so: "Deleting a session is clean and complete: the agent (and any specialists it
\* spawned) is stopped" (docs/overview/01-sessions.md:85-86).  A join, a post or a firing
\* under way, or a creation, ensures Prime after its session is gone.
DeletionIsComplete == row = "deleted" => primes = {} /\ ensuring = {}

\* Not so: "so a failed upload leaves nothing half-provisioned" (handlers.ts:236-238).
\* The row is on everybody's list before the bundle is written; the Prime of whoever
\* joined it meanwhile outlives the row.
NothingHalfProvisioned == row = "withdrawn" => primes = {} /\ ensuring = {}
==============================================================================
