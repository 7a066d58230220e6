---------------------------- MODULE MCExternalRuns ---------------------------
(***************************************************************************)
(* Instances of ExternalRuns.  A sub-agent's own Conversation and a shared *)
(* room, the one coalescing its wakes, the other never holding them back.  *)
(***************************************************************************)
EXTENDS ExternalRuns, TLC

CONSTANTS thread, room, hall  \* Conversations

TabPolicy == thread :> "coalesce" @@ room :> "queue" @@ hall :> "preempt"
=============================================================================
