------------------------------ MODULE MCPiRuns -------------------------------
(***************************************************************************)
(* Instances of PiRuns.  The production memberships give Prime a queue     *)
(* membership of its own Conversation and a coalesce one of every worker's *)
(* (MembershipRegistry.derive); a stored row may carry any policy.         *)
(***************************************************************************)
EXTENDS PiRuns, TLC

CONSTANTS home, thread, room  \* Conversations

PrimePolicy == home :> "queue" @@ thread :> "coalesce"

MixedPolicy == home :> "coalesce" @@ thread :> "preempt" @@ room :> "queue"
=============================================================================
