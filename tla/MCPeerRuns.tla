------------------------------ MODULE MCPeerRuns -----------------------------
(***************************************************************************)
(* Instances of PeerRuns: a peer's own Conversation delivers every wake, a *)
(* room coalesces them, a hall lets a newer wake preempt the turn.         *)
(***************************************************************************)
EXTENDS PeerRuns

CONSTANTS thread, room, hall  \* Conversations

PeerPolicy ==
  [c \in Conversations |-> CASE c = thread -> "queue"
                             [] c = room   -> "coalesce"
                             [] c = hall   -> "preempt"]
=============================================================================
