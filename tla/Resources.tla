----------------------------- MODULE Resources -------------------------------
(***************************************************************************)
(* The files of a session and their catalog: what is on disk under         *)
(* artifacts/ and uploads/, and the row of each uri in the resource        *)
(* catalog.  Reading a directory, writing and unlinking a file take their  *)
(* time; cataloguing is one step, for the database is synchronous.         *)
(***************************************************************************)
EXTENDS Naturals, FiniteSets

CONSTANTS HostFiles,    \* files the embedding app writes under uploads/
          Attachments,  \* files people upload to post them, each once
          Artifacts     \* files the agent writes under artifacts/
                        \* (it has the run of uploads/ as well)

Files == HostFiles \cup Attachments \cup Artifacts
Dirs == {"artifacts", "uploads"}

VARIABLES bytes,     \* files on disk
          kind,      \* of each file's row in the catalog, "none" without a row
          puts,      \* host files just written, and not yet catalogued ("written")
          removals,  \* files being unlinked for a DELETE, or just unlinked
          attached,  \* each attachment: "none", "uploaded", "posted"
          scans,     \* the listing under way, in a set: directories to read, files found
          raced,     \* history: unlinked with a listing or a put about to catalog them
          lost       \* history: deleted by the agent, or by a removal that was cut off

resourceVars == <<bytes, kind, puts, removals, attached, scans, raced, lost>>

Kinds == {"none", "file", "attachment", "artifact"}

FilesIn(dir) == IF dir = "artifacts" THEN Artifacts ELSE HostFiles \cup Attachments
Removing == {r.uri : r \in removals}

\* A listing or a put has seen the file, and is about to catalog it.
InHand(u) == (\E s \in scans : u \in s.found) \/ (u \in HostFiles /\ puts[u] = "written")

ResourceInit ==
  /\ bytes = {} /\ kind = [u \in Files |-> "none"]
  /\ puts = [u \in HostFiles |-> "idle"] /\ removals = {}
  /\ attached = [u \in Attachments |-> "none"]
  /\ scans = {}
  /\ raced = {} /\ lost = {}

(***************************************************************************)
(* What is on disk                                                         *)
(***************************************************************************)
\* New bytes under a name: what became of the old ones is no matter.
Written(u) == bytes' = bytes \cup {u} /\ raced' = raced \ {u} /\ lost' = lost \ {u}

\* Mutant of PutWrites: the row first, the bytes when it is there.
PutWritesLater(u) ==
  /\ puts[u] = "idle"
  /\ puts' = [puts EXCEPT ![u] = "written"]
  /\ kind' = [kind EXCEPT ![u] = "file"]
  /\ UNCHANGED <<bytes, removals, attached, scans, raced, lost>>

\* applyResourceInput of a "file": the bytes first, the row when they are there.
PutWrites(u) ==
  /\ puts[u] = "idle"
  /\ puts' = [puts EXCEPT ![u] = "written"]
  /\ Written(u)
  /\ UNCHANGED <<kind, removals, attached, scans>>

PutCatalogs(u) ==
  /\ puts[u] = "written"
  /\ puts' = [puts EXCEPT ![u] = "idle"]
  /\ kind' = [kind EXCEPT ![u] = "file"]
  /\ UNCHANGED <<bytes, removals, attached, scans, raced, lost>>

\* multer has stored an upload; its sender may post it later.
Upload(u) ==
  /\ attached[u] = "none"
  /\ attached' = [attached EXCEPT ![u] = "uploaded"] /\ bytes' = bytes \cup {u}
  /\ UNCHANGED <<kind, puts, removals, scans, raced, lost>>

\* The Message is in the log; its attachment is catalogued.
PostCatalogs(u) ==
  /\ attached[u] = "uploaded"
  /\ attached' = [attached EXCEPT ![u] = "posted"]
  /\ kind' = [kind EXCEPT ![u] = "attachment"]
  /\ UNCHANGED <<bytes, puts, removals, scans, raced, lost>>

AgentWrites(u) ==
  /\ u \notin bytes
  /\ u \in Attachments => attached[u] # "none"
  /\ Written(u)
  /\ UNCHANGED <<kind, puts, removals, attached, scans>>

\* The catalog "does not interpose on the tool reads and writes an agent makes".
AgentDeletes(u) ==
  /\ u \in bytes
  /\ bytes' = bytes \ {u} /\ lost' = lost \cup ({u} \ Artifacts)
  /\ UNCHANGED <<kind, puts, removals, attached, scans, raced>>

\* pinArtifact and unpinArtifact mirror the pin into the catalog.
Pin(u) ==
  /\ kind' = [kind EXCEPT ![u] = "artifact"]
  /\ UNCHANGED <<bytes, puts, removals, attached, scans, raced, lost>>

Unpin(u) ==
  /\ kind[u] = "artifact"
  /\ kind' = [kind EXCEPT ![u] = "none"]
  /\ UNCHANGED <<bytes, puts, removals, attached, scans, raced, lost>>

(***************************************************************************)
(* Removal                                                                 *)
(***************************************************************************)
\* unlinkManagedFile: bytes under uploads/ go with a row of kind "file", and go first.
Managed(u) == kind[u] = "file" /\ u \notin Artifacts

Drop(u) == kind' = [kind EXCEPT ![u] = "none"]

RemovalStarts(u) ==
  IF Managed(u)
  THEN /\ removals' = removals \cup {[uri |-> u, at |-> "unlinking"]}
       /\ UNCHANGED <<bytes, kind, puts, attached, scans, raced, lost>>
  ELSE /\ kind[u] # "none" /\ Drop(u)
       /\ UNCHANGED <<bytes, puts, removals, attached, scans, raced, lost>>

Unlink(r) ==
  /\ r.at = "unlinking"
  /\ removals' = (removals \ {r}) \cup {[r EXCEPT !.at = "unlinked"]}
  /\ bytes' = bytes \ {r.uri}
  /\ raced' = (IF r.uri \in bytes /\ InHand(r.uri) THEN raced \cup {r.uri} ELSE raced)
  /\ UNCHANGED <<kind, puts, attached, scans, lost>>

\* The bytes cannot be removed: the DELETE fails, and the row stays.
UnlinkFails(r) ==
  /\ r.at = "unlinking"
  /\ removals' = removals \ {r}
  /\ UNCHANGED <<bytes, kind, puts, attached, scans, raced, lost>>

RemovalEnds(r) ==
  /\ r.at = "unlinked"
  /\ removals' = removals \ {r}
  /\ Drop(r.uri)
  /\ UNCHANGED <<bytes, puts, attached, scans, raced, lost>>

(***************************************************************************)
(* Listing: catalogWorkspaceFiles, then the catalog                        *)
(***************************************************************************)
ScanStarts ==
  /\ scans = {}
  /\ scans' = {[unread |-> Dirs, found |-> {}]}
  /\ UNCHANGED <<bytes, kind, puts, removals, attached, raced, lost>>

ScanReads(s, dir) ==
  /\ dir \in s.unread
  /\ scans' = {[unread |-> s.unread \ {dir},
                found |-> s.found \cup (bytes \cap FilesIn(dir))]}
  /\ UNCHANGED <<bytes, kind, puts, removals, attached, raced, lost>>

\* catalogIfAbsent for each file found; the answer is the catalog that results.
Catalogued(found) ==
  [u \in Files |-> IF u \in found /\ kind[u] = "none" THEN "file" ELSE kind[u]]

ScanEnds(s) ==
  /\ s.unread = {}
  /\ scans' = {} /\ kind' = Catalogued(s.found)
  /\ UNCHANGED <<bytes, puts, removals, attached, raced, lost>>

\* The server restarts: requests under way are gone; a Message may have come as far
\* as the log and its attachment not as far as the catalog.
ServerRestarts ==
  /\ puts' = [u \in HostFiles |-> "idle"] /\ removals' = {} /\ scans' = {}
  /\ \E reached \in {"uploaded", "posted"} :
       attached' = [u \in Attachments |->
                      IF attached[u] = "uploaded" THEN reached ELSE attached[u]]
  /\ lost' = lost \cup ({r.uri : r \in {q \in removals : q.at = "unlinked"}} \ (bytes \cup raced))
  /\ UNCHANGED <<bytes, kind, raced>>

ResourceNext ==
  \/ ScanStarts \/ ServerRestarts
  \/ \E s \in scans : ScanEnds(s) \/ \E dir \in Dirs : ScanReads(s, dir)
  \/ \E u \in HostFiles : PutWrites(u) \/ PutCatalogs(u)
  \/ \E u \in Attachments : Upload(u) \/ PostCatalogs(u)
  \/ \E u \in Artifacts : Pin(u) \/ Unpin(u)
  \/ \E u \in Files : AgentWrites(u) \/ AgentDeletes(u) \/ RemovalStarts(u)
  \/ \E r \in removals : Unlink(r) \/ UnlinkFails(r) \/ RemovalEnds(r)

ResourceSpec == ResourceInit /\ [][ResourceNext]_resourceVars
-----------------------------------------------------------------------------
\* Every variable keeps its type; a file about to be catalogued has been written.
ResourceTypeOK ==
  /\ bytes \subseteq Files /\ kind \in [Files -> Kinds]
  /\ puts \in [HostFiles -> {"idle", "written"}]
  /\ removals \subseteq [uri : Files \ Artifacts, at : {"unlinking", "unlinked"}]
  /\ attached \in [Attachments -> {"none", "uploaded", "posted"}]
  /\ Cardinality(scans) <= 1
  /\ scans \subseteq [unread : SUBSET Dirs, found : SUBSET Files]
  /\ raced \subseteq Files \ Artifacts /\ lost \subseteq Files \ Artifacts

\* A file under uploads/ that was removed is gone from the catalog with its bytes: no
\* row of kind "file" is left without them, but for the time the removal takes
\* (hostResources.ts: "Runs before the catalog row is dropped"), for a removal that a
\* restart cuts off or the agent forestalls, and for a listing or a write that had the
\* file in hand at that moment.  A listing that comes later finds nothing to restore.
RemovedIsGone ==
  \A u \in Files \ Artifacts :
    kind[u] = "file" /\ u \notin bytes => u \in Removing \cup raced \cup lost

\* Not so: the rescan "cannot re-catalog an entry the host just removed"
\* (hostResources.ts:309-311, and "can't resurrect it" at 335-336).  A listing that read
\* uploads/ before the unlink catalogs the file after its row was dropped, for good.
RescanRestoresNothing ==
  [][\A s \in scans : ScanEnds(s) =>
       \A u \in Files \ Artifacts :
         kind[u] = "none" /\ kind'[u] = "file" => u \in bytes \cup lost]_resourceVars

\* Not so: the catalog a listing answers with "reflects what is on disk at request
\* time" (routes/sessions/resources.ts:77-80).  A scan adds rows and drops none, so
\* a file the agent deleted stays listed.
ListingReflectsDisk ==
  [][\A s \in scans : ScanEnds(s) =>
       \A u \in Artifacts : kind'[u] = "file" => u \in bytes]_resourceVars

\* Not so: attachments "keep their own lifecycle" (hostResources.ts:312-313).  The
\* DELETE of an attachment drops its row, the next listing catalogs the file as an
\* ordinary one, and the DELETE of that takes the bytes of a posted Message.
AttachmentsKeepTheirBytes == \A u \in Attachments : attached[u] = "posted" => u \in bytes
==============================================================================
