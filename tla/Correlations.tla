----------------------------- MODULE Correlations ----------------------------
(***************************************************************************)
(* Correlations: a question asked over a relay channel and its answer.  A  *)
(* peer's ask_prime subscribes before its question is posted; the post     *)
(* opens the correlation once the Message is persisted, a Message in reply *)
(* resolves it, and two clocks, the waiter's own and the correlation's,    *)
(* expire it.                                                              *)
(***************************************************************************)
EXTENDS Naturals, FiniteSets

CONSTANTS Asks  \* the questions asked, each with an id of its own

VARIABLES channels,    \* RelayRegistry.channels, by the state of this session's
          ask,         \* each ask_prime call, and the outcome it was given
          question,    \* the post of its question
          outstanding, \* CorrelationEngine.outstanding: id to its waiters
          detached,    \* CorrelationEngine.detached: ids waited for before opening
          clocks,      \* timers pending, of entries and of detached waiters
          notices,     \* correlation-timeout notices posted
          answered     \* history: the questions a reply has resolved

correlationVars ==
  <<channels, ask, question, outstanding, detached, clocks, notices, answered>>

\* A channel a participant owns posts the question in its Conversation; the text
\* of one that nobody owns goes to the orchestrator without a Message.
Channels == {"none", "owned", "unowned", "closed"}

AskStates == {"idle", "posting", "holding", "failed", "returned"}
Outcomes  == {"none", "answered", "timeout"}
Asking    == [state : AskStates, outcome : Outcomes]

Absent == "absent"

\* An entry with the waiters it settles: the one call, or nobody.
Entries == {Absent, "waited", "unwaited"}

CorrelationInit ==
  /\ channels = "none"
  /\ ask = [q \in Asks |-> [state |-> "idle", outcome |-> "none"]]
  /\ question = [q \in Asks |-> "unposted"]
  /\ outstanding = [q \in Asks |-> Absent]
  /\ detached = {}
  /\ clocks = {}
  /\ notices = {} /\ answered = {}

-----------------------------------------------------------------------------
(* CorrelationEngine *)

Settled(q, outcome) ==
  ask' = [ask EXCEPT ![q].outcome = IF @ = "none" THEN outcome ELSE @]

\* Mutant of OpenEntry: a waiter that came first is forgotten.
OpenEntryAlone(q) ==
  /\ outstanding' = [outstanding EXCEPT ![q] = IF @ = Absent THEN "unwaited" ELSE @]
  /\ detached' = detached \ {q}
  /\ clocks' = (clocks \ {<<q, "detached">>}) \cup {<<q, "entry">>}

\* open: idempotent; takes over the waiter that came first, and its clock.
OpenEntry(q) ==
  IF outstanding[q] # Absent
    THEN UNCHANGED <<outstanding, detached, clocks>>
    ELSE /\ outstanding' = [outstanding EXCEPT
                              ![q] = IF q \in detached THEN "waited" ELSE "unwaited"]
         /\ detached' = detached \ {q}
         /\ clocks' = (clocks \ {<<q, "detached">>}) \cup {<<q, "entry">>}

\* Mutant of Resolve: the clock of the entry is left running and the entry kept.
ResolveKeepsEntry(q) ==
  /\ outstanding[q] # Absent
  /\ Settled(q, "answered")
  /\ answered' = answered \cup {q}
  /\ UNCHANGED <<outstanding, detached, clocks>>

\* resolve, of a Message in reply to q.
Resolve(q) ==
  \/ /\ outstanding[q] # Absent
     /\ outstanding' = [outstanding EXCEPT ![q] = Absent]
     /\ clocks' = clocks \ {<<q, "entry">>}
     /\ IF outstanding[q] = "waited" THEN Settled(q, "answered") ELSE UNCHANGED ask
     /\ answered' = answered \cup {q}
     /\ UNCHANGED detached
  \/ /\ outstanding[q] = Absent /\ q \in detached
     /\ detached' = detached \ {q}
     /\ clocks' = clocks \ {<<q, "detached">>}
     /\ Settled(q, "answered")
     /\ answered' = answered \cup {q}
     /\ UNCHANGED outstanding

\* expire: the entry goes, its waiter is told, the asker's room gets a notice.
Expire(q) ==
  /\ <<q, "entry">> \in clocks
  /\ clocks' = clocks \ {<<q, "entry">>}
  /\ outstanding' = [outstanding EXCEPT ![q] = Absent]
  /\ IF outstanding[q] = "waited" THEN Settled(q, "timeout") ELSE UNCHANGED ask
  /\ notices' = IF outstanding[q] = Absent THEN notices ELSE notices \cup {q}
  /\ UNCHANGED <<channels, question, detached, answered>>

\* dropDetached: a correlation that never opened.
GiveUpDetached(q) ==
  /\ <<q, "detached">> \in clocks
  /\ clocks' = clocks \ {<<q, "detached">>}
  /\ detached' = detached \ {q}
  /\ Settled(q, "timeout")
  /\ UNCHANGED <<channels, question, outstanding, notices, answered>>

-----------------------------------------------------------------------------
(* The relay *)

OpenChannel(kind) ==
  /\ channels = "none" /\ channels' = kind
  /\ UNCHANGED <<ask, question, outstanding, detached, clocks, notices, answered>>

CloseChannel ==
  /\ channels \in {"owned", "unowned"} /\ channels' = "closed"
  /\ UNCHANGED <<ask, question, outstanding, detached, clocks, notices, answered>>

\* askPrimeTool, up to its first await: waitFor before report.
AskPrime(q) ==
  /\ channels \in {"owned", "unowned"}
  /\ ask[q].state = "idle"
  /\ ask' = [ask EXCEPT ![q].state = "posting"]
  /\ detached' = detached \cup {q}
  /\ clocks' = clocks \cup {<<q, "detached">>}
  /\ question' = [question EXCEPT ![q] = IF channels = "owned" THEN "posting" ELSE "told"]
  /\ UNCHANGED <<channels, outstanding, notices, answered>>

\* post: the question is persisted, then the correlation opens and it is broadcast.
PostQuestion(q) ==
  /\ question[q] = "posting"
  /\ question' = [question EXCEPT ![q] = "told"]
  /\ OpenEntry(q)
  /\ UNCHANGED <<channels, ask, notices, answered>>

\* The post fails before the Message is persisted: the call fails with it.
QuestionLost(q) ==
  /\ question[q] = "posting"
  /\ question' = [question EXCEPT ![q] = "lost"]
  /\ ask' = [ask EXCEPT ![q].state = "failed"]
  /\ UNCHANGED <<channels, outstanding, detached, clocks, notices, answered>>

\* report is done: the call holds on for the outcome.
Reported(q) ==
  /\ ask[q].state = "posting" /\ question[q] = "told"
  /\ ask' = [ask EXCEPT ![q].state = "holding"]
  /\ UNCHANGED <<channels, question, outstanding, detached, clocks, notices, answered>>

\* The tool call is answered, with Prime's words or with the fallback.
AskReturns(q) ==
  /\ ask[q].state = "holding" /\ ask[q].outcome # "none"
  /\ ask' = [ask EXCEPT ![q].state = "returned"]
  /\ UNCHANGED <<channels, question, outstanding, detached, clocks, notices, answered>>

\* A Message in reply to a question that was told; a second one, or one after the
\* correlation expired, resolves nothing.
Reply(q) ==
  /\ question[q] = "told"
  /\ Resolve(q)
  /\ UNCHANGED <<channels, question, notices>>

CorrelationNext ==
  \/ \E kind \in {"owned", "unowned"} : OpenChannel(kind)
  \/ CloseChannel
  \/ \E q \in Asks : \/ AskPrime(q) \/ PostQuestion(q) \/ QuestionLost(q)
                     \/ Reported(q) \/ AskReturns(q) \/ Reply(q)
                     \/ Expire(q) \/ GiveUpDetached(q)

\* Timers fire and awaits come back.
CorrelationFairness ==
  \A q \in Asks : /\ WF_correlationVars(Expire(q)) /\ WF_correlationVars(GiveUpDetached(q))
                  /\ WF_correlationVars(PostQuestion(q)) /\ WF_correlationVars(Reported(q))
                  /\ WF_correlationVars(AskReturns(q))

CorrelationSpec == CorrelationInit /\ [][CorrelationNext]_correlationVars
CorrelationFairSpec == CorrelationSpec /\ CorrelationFairness

-----------------------------------------------------------------------------
CorrelationTypeOK ==
  /\ channels \in Channels
  /\ ask \in [Asks -> Asking]
  /\ question \in [Asks -> {"unposted", "posting", "told", "lost"}]
  /\ outstanding \in [Asks -> Entries]
  /\ detached \subseteq Asks
  /\ clocks \subseteq Asks \X {"entry", "detached"}
  /\ notices \subseteq Asks /\ answered \subseteq Asks

\* Whoever waits is waited for by exactly one table with its clock running, from
\* the subscription through the opening to the outcome, so that no call hangs and
\* none is settled twice; a notice of a timeout never follows an answer.
AskIsTracked ==
  \A q \in Asks :
    /\ q \in detached <=> <<q, "detached">> \in clocks
    /\ outstanding[q] # Absent <=> <<q, "entry">> \in clocks
    /\ ask[q].state # "idle" /\ ask[q].outcome = "none" =>
         (q \in detached) # (outstanding[q] = "waited")
    /\ q \in detached => outstanding[q] = Absent
    /\ ~(q \in answered /\ q \in notices)

\* A question that was asked is answered, timed out or fails, and both tables
\* forget it.
AskSettles ==
  \A q \in Asks : ask[q].state = "posting" ~>
                    (/\ ask[q].state \in {"returned", "failed"}
                     /\ outstanding[q] = Absent /\ q \notin detached)
=============================================================================
