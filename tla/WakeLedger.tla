------------------------------ MODULE WakeLedger -----------------------------
(***************************************************************************)
(* What AdmissionEngine promises the senders of one participant's wakes,   *)
(* without Runs, processes or connectors: every wake gets an answer at     *)
(* once, a deferred one is the only one its Conversation has waiting, and  *)
(* it is later passed on or dropped, never forgotten and never overtaken.  *)
(* Each connector module implements this module with its seat's wakes.     *)
(***************************************************************************)
EXTENDS Naturals, Sequences

CONSTANTS Conversations,  \* the Conversations the participant is a member of
          MaxWakes        \* bound: wakes posted to the participant

ASSUME LedgerAssumption == MaxWakes \in Nat

VARIABLE wakes  \* every wake so far, in the order they were posted

\* Waiting behind a Run; replaced by a newer wake of its Conversation; handed to
\* the connector; dropped at release because the connector refused it; refused
\* to the sender at once.
Fates == {"held", "merged", "sent", "lost", "refused"}
Wakes == [conv : Conversations, fate : Fates]

Held == {i \in DOMAIN wakes : wakes[i].fate = "held"}
Of(c) == {i \in DOMAIN wakes : wakes[i].conv = c}

Stamped(ids, f) ==
  [i \in DOMAIN wakes |-> IF i \in ids THEN [wakes[i] EXCEPT !.fate = f] ELSE wakes[i]]

Init == wakes = <<>>

\* A Run settles: some of the wakes it held back leave, together.
Released(ids, f) ==
  /\ ids # {}
  /\ wakes' = Stamped(ids, f)

\* A wake is put off; it takes the place of one its Conversation has waiting.
PutOff(c) ==
  wakes' = Append(Stamped(Held \cap Of(c), "merged"), [conv |-> c, fate |-> "held"])

\* A wake is refused to its sender, and changes nothing else.
Refused(c) == wakes' = Append(wakes, [conv |-> c, fate |-> "refused"])

\* Mutant of HandedOver: a wake passes one its Conversation has waiting.
HandedOverPast(c, ids) ==
  wakes' = Append(Stamped(ids, "sent"), [conv |-> c, fate |-> "sent"])

\* A wake is handed over.  The Run it opens settles the one before it, which may
\* release wakes of the other Conversations; one of its own it never passes by.
HandedOver(c, ids) ==
  /\ Held \cap Of(c) \subseteq ids
  /\ wakes' = Append(Stamped(ids, "sent"), [conv |-> c, fate |-> "sent"])

Next ==
  \/ \E ids \in SUBSET Held, f \in {"sent", "lost"} : Released(ids, f)
  \/ \E c \in Conversations :
       /\ Len(wakes) < MaxWakes
       /\ \/ PutOff(c)
          \/ Refused(c)
          \/ \E ids \in SUBSET Held : HandedOver(c, ids)

Spec == Init /\ [][Next]_wakes

-----------------------------------------------------------------------------
TypeOK == wakes \in Seq(Wakes)

\* One wake at most waits per Conversation (AdmissionEngine.pending).
OneHeldEach ==
  \A i, j \in Held : wakes[i].conv = wakes[j].conv => i = j

\* A wake that was coalesced away is covered by a newer one of its Conversation
\* that is still waiting or was passed on: the latest is the one that is kept.
LatestIsKept ==
  \A i \in DOMAIN wakes : wakes[i].fate = "merged" =>
    \E j \in DOMAIN wakes : /\ j > i
                            /\ wakes[j].conv = wakes[i].conv
                            /\ wakes[j].fate \in {"held", "sent", "lost"}

\* No newer wake of a Conversation is handed over while an older one waits.
NoOvertaking ==
  \A i, j \in DOMAIN wakes :
    (i < j /\ wakes[i].conv = wakes[j].conv /\ wakes[i].fate = "held")
      => wakes[j].fate # "sent"
=============================================================================
