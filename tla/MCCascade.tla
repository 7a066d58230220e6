------------------------------- MODULE MCCascade -----------------------------
(***************************************************************************)
(* Instances of Cascade.  Prime's own room has Prime alone; a worker's     *)
(* thread has the worker, which queues, and Prime, which coalesces         *)
(* (MembershipRegistry.derive); in the mesh both queue.                    *)
(***************************************************************************)
EXTENDS Cascade

CONSTANTS prime, worker, main, thread

Everyone    == {prime, worker}
AllRooms    == {main, thread}
Memberships == AllRooms \X Everyone

Threads == [p \in {worker} |-> thread]

Joined == [r \in AllRooms |-> IF r = main THEN <<prime>> ELSE <<worker, prime>>]

DerivedPolicy ==
  [m \in Memberships |-> IF m = <<thread, prime>> THEN "coalesce" ELSE "queue"]
=============================================================================
