----------------------------- MODULE MCReactors ------------------------------
(* The instance of Reactors under which a deadline is installed over another. *)
EXTENDS Reactors

CONSTANT lead

OneDeadline == {[name |-> "awaitDeadline", of |-> {lead}, n |-> 1]}
=============================================================================
