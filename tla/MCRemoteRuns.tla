----------------------------- MODULE MCRemoteRuns ----------------------------
(***************************************************************************)
(* Instances of RemoteRuns: the sub-agent's own Conversation queues, a     *)
(* room coalesces, and a hall refuses wakes that find a Run open.          *)
(***************************************************************************)
EXTENDS RemoteRuns, TLC

CONSTANTS thread, room, hall  \* Conversations

RemotePolicy == thread :> "queue" @@ room :> "coalesce" @@ hall :> "reject"
=============================================================================
