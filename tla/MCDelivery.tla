------------------------------ MODULE MCDelivery -----------------------------
(***************************************************************************)
(* The ways a Message travels, checked in one run: through the admission   *)
(* engines of a room (Cascade), to an attached driver (DeliveryQueue), to  *)
(* a browser (SessionChat) and the windows it opens (WindowDesk), and      *)
(* through a Shell tab's host to an agent (AttachBridge).  They share no   *)
(* state, so a behaviour is one of them at work while the others stay as   *)
(* they began; "part" says which.                                          *)
(*                                                                         *)
(* Prime's own room has Prime alone; a worker's thread has the worker,     *)
(* which queues, and Prime, which coalesces (MembershipRegistry.derive).   *)
(***************************************************************************)
EXTENDS Cascade, DeliveryQueue, SessionChat, WindowDesk, AttachBridge

CONSTANTS prime, worker, main, thread, chatWindow, treeWindow, fileWindow

VARIABLE part

Agencies    == {prime, worker}
AllRooms    == {main, thread}
Memberships == AllRooms \X Agencies

Threads == [p \in {worker} |-> thread]

Joined == [r \in AllRooms |-> IF r = main THEN <<prime>> ELSE <<worker, prime>>]

DerivedPolicy ==
  [m \in Memberships |-> IF m = <<thread, prime>> THEN "coalesce" ELSE "queue"]

\* SessionChat: everything is said in the worker's thread.
InThread == [m \in Messages |-> thread]

\* WindowDesk: two docked windows, one of them shown only when asked for, and
\* one that floats.
OpeningOrder == <<chatWindow, treeWindow, fileWindow>>
DockedAt == [w \in {chatWindow, treeWindow, fileWindow} |->
               IF w = chatWindow THEN "left" ELSE IF w = treeWindow THEN "right" ELSE "none"]

DeliveryInit ==
  /\ part \in {"cascade", "queue", "chat", "desk", "bridge"}
  /\ CascadeInit /\ QueueInit /\ ChatInit /\ DeskInit /\ BridgeInit

DeliveryNext ==
  /\ UNCHANGED part
  /\ \/ /\ part = "cascade" /\ CascadeNext
        /\ UNCHANGED <<queueVars, chatVars, deskVars, bridgeVars>>
     \/ /\ part = "queue" /\ QueueNext
        /\ UNCHANGED <<cascadeVars, chatVars, deskVars, bridgeVars>>
     \/ /\ part = "chat" /\ ChatNext
        /\ UNCHANGED <<cascadeVars, queueVars, deskVars, bridgeVars>>
     \/ /\ part = "desk" /\ DeskNext
        /\ UNCHANGED <<cascadeVars, queueVars, chatVars, bridgeVars>>
     \/ /\ part = "bridge" /\ BridgeNext
        /\ UNCHANGED <<cascadeVars, queueVars, chatVars, deskVars>>

deliveryVars == <<part, cascadeVars, queueVars, chatVars, deskVars, bridgeVars>>

\* No fair step of SessionChat is enabled before its first Message, and none of
\* AttachBridge before its loop began.
DeliverySpec ==
  /\ DeliveryInit /\ [][DeliveryNext]_deliveryVars
  /\ ChatFairness /\ BridgeFairness

\* The variables of every part keep their types, and a poll is in the list that
\* a push looks for its taker in exactly while it is parked.
TypesOK ==
  /\ CascadeTypeOK /\ QueueTypeOK /\ ChatTypeOK /\ DeskTypeOK /\ BridgeTypeOK
=============================================================================
