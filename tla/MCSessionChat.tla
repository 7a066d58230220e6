---------------------------- MODULE MCSessionChat ----------------------------
(* A worker's thread, and a browser that connects in the middle of a turn. *)
EXTENDS SessionChat

CONSTANT thread

InThread == [m \in Messages |-> thread]
=============================================================================
