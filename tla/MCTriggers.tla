----------------------------- MODULE MCTriggers ------------------------------
(* Instances of Triggers under which a schedule comes to nothing. *)
EXTENDS Triggers
=============================================================================
