--------------------------- MODULE Session_proofs ---------------------------
(***************************************************************************)
(* What is proved of the records a session keeps beside its Runs: its      *)
(* reactors, its correlations, its memberships, its triggers, its creation *)
(* and its end, its files, and the host that runs its sub-agents on        *)
(* another machine.  They share no state, so each has its own              *)
(* specification and its own inductive invariant; the types of each follow *)
(* at the end, and what a session, which is all of them at once, has from  *)
(* its parts.                                                              *)
(***************************************************************************)
EXTENDS MCSession, WakeLedger_proofs, FiniteSetTheorems

-----------------------------------------------------------------------------
(* Correlations *)

\* A question nobody posted yet, or that was lost, has no entry and no outcome in
\* either history; one with an outcome is in neither table.
CorrelationInv ==
  /\ CorrelationTypeOK /\ AskIsTracked
  /\ \A q \in Asks :
       /\ ask[q].state = "idle" => question[q] = "unposted"
       /\ question[q] # "told" => outstanding[q] = Absent /\ q \notin answered \cup notices
       /\ q \in answered \cup notices => outstanding[q] = Absent /\ q \notin detached

(* The invariant holds of a session in which nothing was asked yet. *)
LEMMA CorrelationInvInitially == CorrelationInit => CorrelationInv
BY DEF CorrelationInit, CorrelationInv, CorrelationTypeOK, AskIsTracked, Channels, Asking,
       AskStates, Outcomes, Entries, Absent

\* The same of one question, of AskIsTracked and of its place in the histories.
Tracked(q) ==
  /\ q \in detached <=> <<q, "detached">> \in clocks
  /\ outstanding[q] # Absent <=> <<q, "entry">> \in clocks
  /\ ask[q].state # "idle" /\ ask[q].outcome = "none" =>
       (q \in detached) # (outstanding[q] = "waited")
  /\ q \in detached => outstanding[q] = Absent
  /\ ~(q \in answered /\ q \in notices)
  /\ ask[q].state = "idle" => question[q] = "unposted"
  /\ question[q] # "told" => outstanding[q] = Absent /\ q \notin answered \cup notices
  /\ q \in answered \cup notices => outstanding[q] = Absent /\ q \notin detached

(* The invariant holds question by question, before a step and after it. *)
LEMMA TrackedIsInv ==
  /\ CorrelationInv <=> CorrelationTypeOK /\ \A q \in Asks : Tracked(q)
  /\ CorrelationInv' <=> CorrelationTypeOK' /\ \A q \in Asks : Tracked(q)'
BY DEF CorrelationInv, AskIsTracked, Tracked

(* Every step of it keeps the invariant. *)
LEMMA CorrelationInvIsInductive ==
  CorrelationInv /\ [CorrelationNext]_correlationVars => CorrelationInv'
<1> SUFFICES ASSUME CorrelationInv, [CorrelationNext]_correlationVars PROVE CorrelationInv'
  OBVIOUS
<1> USE DEF CorrelationInv, CorrelationTypeOK, AskIsTracked, Channels, Asking, AskStates,
            Outcomes, Entries, Absent
<1>1. CASE \E sort \in {"owned", "unowned"} : OpenChannel(sort)
  BY <1>1 DEF OpenChannel
<1>2. CASE CloseChannel
  BY <1>2 DEF CloseChannel
<1>3. ASSUME NEW q \in Asks, AskPrime(q) PROVE CorrelationInv'
  BY <1>3 DEF AskPrime
<1>4. ASSUME NEW q \in Asks, PostQuestion(q) PROVE CorrelationInv'
  BY <1>4 DEF PostQuestion, OpenEntry
<1>5. ASSUME NEW q \in Asks, QuestionLost(q) PROVE CorrelationInv'
  BY <1>5 DEF QuestionLost
<1>6. ASSUME NEW q \in Asks, Reported(q) PROVE CorrelationInv'
  BY <1>6 DEF Reported
<1>7. ASSUME NEW q \in Asks, AskReturns(q) PROVE CorrelationInv'
  BY <1>7 DEF AskReturns
<1>8. ASSUME NEW q \in Asks, Reply(q) PROVE CorrelationInv'
  <2>1. CASE outstanding[q] # Absent
    <3>1. outstanding' = [outstanding EXCEPT ![q] = Absent] /\ clocks' = clocks \ {<<q, "entry">>}
      BY <1>8, <2>1 DEF Reply, Resolve
    <3>2. ask' \in [Asks -> Asking] /\ \A p \in Asks : ask'[p].state = ask[p].state
                /\ (p # q => ask'[p] = ask[p])
      BY <1>8, <2>1 DEF Reply, Resolve, Settled
    <3>3. ask'[q].outcome = "none" => outstanding[q] # "waited" /\ ask[q].outcome = "none"
      BY <1>8, <2>1 DEF Reply, Resolve, Settled
    <3>4. /\ q \notin detached /\ question[q] = "told" /\ answered' = answered \cup {q}
          /\ UNCHANGED <<channels, question, detached, notices>>
      BY <1>8, <2>1 DEF Reply, Resolve
    <3>5. q \notin notices
      BY <2>1
    <3>6. CorrelationTypeOK'
      BY <3>1, <3>2, <3>4
    <3>7. ASSUME NEW p \in Asks PROVE Tracked(p)'
      <4>1. CASE p = q
        BY <4>1, <3>1, <3>2, <3>3, <3>4, <3>5, <2>1 DEF Tracked
      <4>2. CASE p # q
        BY <4>2, <3>1, <3>2, <3>4 DEF Tracked
      <4> QED BY <4>1, <4>2
    <3> QED BY <3>6, <3>7, TrackedIsInv
  <2>2. CASE outstanding[q] = Absent
    BY <1>8, <2>2 DEF Reply, Resolve, Settled
  <2> QED BY <2>1, <2>2
<1>9. ASSUME NEW q \in Asks, Expire(q) PROVE CorrelationInv'
  <2>1. outstanding' = [outstanding EXCEPT ![q] = Absent] /\ clocks' = clocks \ {<<q, "entry">>}
    BY <1>9 DEF Expire
  <2>2. ask' \in [Asks -> Asking] /\ \A p \in Asks : ask'[p].state = ask[p].state
                /\ (p # q => ask'[p] = ask[p])
    BY <1>9 DEF Expire, Settled
  <2>3. ask'[q].outcome = "none" => outstanding[q] # "waited" /\ ask[q].outcome = "none"
    BY <1>9 DEF Expire, Settled
  <2>4. /\ q \notin answered /\ q \notin detached /\ question[q] = "told"
        /\ notices' = notices \cup {q}
        /\ UNCHANGED <<channels, question, detached, answered>>
    BY <1>9 DEF Expire
  <2>5. outstanding[q] # Absent /\ q \notin answered
    BY <1>9 DEF Expire
  <2>6. CorrelationTypeOK'
    BY <2>1, <2>2, <2>4
  <2>7. ASSUME NEW p \in Asks PROVE Tracked(p)'
    <3>1. CASE p = q
      BY <3>1, <2>1, <2>2, <2>3, <2>4, <2>5 DEF Tracked
    <3>2. CASE p # q
      BY <3>2, <2>1, <2>2, <2>4 DEF Tracked
    <3> QED BY <3>1, <3>2
  <2> QED BY <2>6, <2>7, TrackedIsInv
<1>10. ASSUME NEW q \in Asks, GiveUpDetached(q) PROVE CorrelationInv'
  BY <1>10 DEF GiveUpDetached, Settled
<1>11. CASE UNCHANGED correlationVars
  BY <1>11 DEF correlationVars
<1> QED BY <1>1, <1>2, <1>3, <1>4, <1>5, <1>6, <1>7, <1>8, <1>9, <1>10, <1>11
        DEF CorrelationNext

(* Through every subscription, opening, completion and timeout, whoever waits for an
   answer is in exactly one of the two tables, with its clock running, and no question
   is both answered and reported as timed out: AskIsTracked. *)
THEOREM AskIsTrackedAlways == CorrelationSpec => []AskIsTracked
<1>1. CorrelationInv => AskIsTracked
  BY DEF CorrelationInv
<1> QED BY <1>1, CorrelationInvInitially, CorrelationInvIsInductive, PTL DEF CorrelationSpec

-----------------------------------------------------------------------------
(* Memberships: the rows *)

\* Who a Conversation starts with.
Starters(c) == {r.who : r \in Derived(c)}
\* Who has a row.
Present(those) == {r.who : r \in those}
\* Nobody who starts a Conversation is missing from it.
Started(c) == \A s \in Starters(c) : <<c, s>> \in removed \/ s \in Present(stored[c])

\* The registry's cache is the store, and a Conversation with rows is known and has
\* its starters, unless it was written to ahead of its worker.
RowsInv ==
  /\ stored \in [Threads -> SUBSET MembershipRows]
  /\ roster \subseteq Workers
  /\ cached.loaded \in BOOLEAN /\ CacheTellsTheStore
  /\ \A c \in Threads : (stored[c] # {} /\ c \notin ahead) => c \in Known /\ Started(c)

(* Derived rows are rows, of the orchestrator and the worker of the thread. *)
LEMMA DerivedRows ==
  ASSUME NEW c \in Threads
  PROVE  Derived(c) \in SUBSET MembershipRows /\ Derived(c) # {}
<1>1. CASE c = HomeThread
  BY <1>1 DEF Derived, MembershipRows, Row, Members, Reactions
<1>2. CASE c # HomeThread
  <2>1. PICK v \in Workers : ThreadOf[v] = c
    BY <1>2 DEF Threads
  <2> DEFINE w == CHOOSE w \in Workers : ThreadOf[w] = c
  <2>2. w \in Workers
    BY <2>1
  <2>3. Derived(c) = {Row(w, "addressable"),
            Row(Orchestrator, IF w \in relaying THEN "atRunEnd" ELSE "mentionsMe")}
    BY <1>2 DEF Derived
  <2> HIDE DEF w
  <2> QED BY <2>2, <2>3 DEF MembershipRows, Row, Members, Reactions
<1> QED BY <1>1, <1>2

(* Who starts a thread is not a matter of what the workers relay. *)
LEMMA SameStarters ==
  ASSUME NEW c \in Threads
  PROVE  Starters(c)' = Starters(c)
<1>1. CASE c = HomeThread
  BY <1>1 DEF Starters, Derived, Row
<1>2. CASE c # HomeThread
  <2> DEFINE w == CHOOSE w \in Workers : ThreadOf[w] = c
  <2>1. Starters(c) = {w, Orchestrator}
    <3>1. Derived(c) = {Row(w, "addressable"),
            Row(Orchestrator, IF w \in relaying THEN "atRunEnd" ELSE "mentionsMe")}
      BY <1>2 DEF Derived
    <3> HIDE DEF w
    <3> QED BY <3>1 DEF Starters, Row
  <2>2. Starters(c)' = {w, Orchestrator}
    <3>1. Derived(c)' = {Row(w, "addressable"),
            Row(Orchestrator, IF w \in relaying' THEN "atRunEnd" ELSE "mentionsMe")}
      BY <1>2 DEF Derived
    <3> HIDE DEF w
    <3> QED BY <3>1 DEF Starters, Row
  <2> QED BY <2>1, <2>2
<1> QED BY <1>1, <1>2

(* What a fan-out, an invitation or a join finds, and what an upsert leaves. *)
LEMMA KeptRows ==
  ASSUME RowsInv, NEW c \in Threads
  PROVE  /\ InUse = stored
         /\ Kept(c) = Resolved(c)
         /\ Kept(c) = IF stored[c] # {} \/ c \notin Known THEN stored[c] ELSE Derived(c)
         /\ Kept(c) \in SUBSET MembershipRows
<1>1. InUse = stored
  BY DEF RowsInv, InUse, CacheTellsTheStore
<1>2. Kept(c) = IF stored[c] # {} \/ c \notin Known THEN stored[c] ELSE Derived(c)
  BY <1>1 DEF Kept
<1> QED BY <1>1, <1>2, DerivedRows DEF Resolved, RowsInv

(* upsert() replaces the row of its member, and adds nobody else. *)
LEMMA PutRowFacts ==
  ASSUME NEW those \in SUBSET MembershipRows, NEW one \in MembershipRows
  PROVE  /\ PutRow(those, one) \in SUBSET MembershipRows
         /\ Present(PutRow(those, one)) = Present(those) \cup {one.who}
         /\ PutRow(those, one) # {}
BY DEF PutRow, Present

(* remove() takes out its member, and nobody else. *)
LEMMA DroppedFacts ==
  ASSUME NEW those \in SUBSET MembershipRows, NEW who
  PROVE  /\ Dropped(those, who) \in SUBSET MembershipRows
         /\ Present(Dropped(those, who)) = Present(those) \ {who}
         /\ Dropped({}, who) = {}
BY DEF Dropped, Present

(* An addition leaves the starters and whoever was there, and the one added. *)
LEMMA AddedFacts ==
  ASSUME RowsInv, NEW c \in Threads, NEW one \in MembershipRows
  PROVE  /\ Added(c, one) \in SUBSET MembershipRows
         /\ one.who \in Present(Added(c, one))
         /\ c \in Known \ ahead =>
              \A s \in Starters(c) : <<c, s>> \in removed \/ s \in Present(Added(c, one))
<1>1. /\ Kept(c) \in SUBSET MembershipRows
      /\ Kept(c) = IF stored[c] # {} \/ c \notin Known THEN stored[c] ELSE Derived(c)
  BY KeptRows
<1>2. c \in Known \ ahead => \A s \in Starters(c) : <<c, s>> \in removed \/ s \in Present(Kept(c))
  <2>1. CASE stored[c] # {}
    BY <1>1, <2>1 DEF RowsInv, Started
  <2>2. CASE stored[c] = {}
    BY <1>1, <2>2 DEF Starters, Present
  <2> QED BY <2>1, <2>2
<1> QED BY <1>1, <1>2, PutRowFacts DEF Added

(* The parts of RowsInv a step must re-establish of each Conversation. *)
LEMMA RowsFromParts ==
  ASSUME RowsInv, roster' = roster, cached' = NotCached \/ UNCHANGED <<cached, stored>>,
         stored' \in [Threads -> SUBSET MembershipRows],
         \A c \in Threads : (stored'[c] # {} /\ c \notin ahead') =>
           /\ c \in Known
           /\ \A s \in Starters(c) : <<c, s>> \in removed' \/ s \in Present(stored'[c])
  PROVE  RowsInv'
<1>1. Known' = Known
  BY DEF Known
<1>2. \A c \in Threads : (stored'[c] # {} /\ c \notin ahead') => c \in Known' /\ Started(c)'
  <2>1. \A c \in Threads : Starters(c)' = Starters(c)
    BY SameStarters
  <2>2. \A c \in Threads : Started(c)' <=>
           \A s \in Starters(c)' : <<c, s>> \in removed' \/ s \in Present(stored'[c])
    BY DEF Started, Present
  <2> QED BY <1>1, <2>1, <2>2
<1>3. (cached.loaded \in BOOLEAN /\ CacheTellsTheStore)'
  <2>1. CASE cached' = NotCached
    <3>1. cached'.loaded = FALSE
      BY <2>1 DEF NotCached
    <3> QED BY <3>1 DEF CacheTellsTheStore
  <2>2. CASE UNCHANGED <<cached, stored>>
    BY <2>2 DEF RowsInv, CacheTellsTheStore
  <2> QED BY <2>1, <2>2
<1> QED BY <1>2, <1>3 DEF RowsInv

(* Spawning a worker makes its thread known; whoever is in it came ahead. *)
LEMMA SpawnKeepsRows ==
  ASSUME RowsInv, NEW w \in Workers, NEW relays \in BOOLEAN, SpawnWorker(w, relays)
  PROVE  RowsInv'
<1>1. /\ roster' = roster \cup {w} /\ UNCHANGED <<stored, cached, removed, ahead>>
  BY DEF SpawnWorker
<1>2. Known \subseteq Known'
  BY <1>1 DEF Known
<1>3. \A c \in Threads : Started(c) => Started(c)'
  BY <1>1, SameStarters DEF Started, Present
<1> QED BY <1>1, <1>2, <1>3 DEF RowsInv, CacheTellsTheStore

(* The first read of a Conversation that is known derives its rows and stores them. *)
LEMMA ReadKeepsRows ==
  ASSUME RowsInv, NEW c \in Threads, ReadMembers(c)
  PROVE  RowsInv'
<1>0. Known' = Known
  BY DEF Known, ReadMembers
<1>1. /\ InUse = stored /\ Kept(c) = Resolved(c)
      /\ Kept(c) = IF stored[c] # {} \/ c \notin Known THEN stored[c] ELSE Derived(c)
      /\ Kept(c) \in SUBSET MembershipRows
  BY KeptRows
<1>2. /\ cached' = [loaded |-> TRUE, rows |-> [InUse EXCEPT ![c] = Resolved(c)]]
      /\ stored' = [stored EXCEPT ![c] = Kept(c)]
      /\ UNCHANGED <<roster, removed, ahead>>
  BY DEF ReadMembers
<1>3. (cached.loaded \in BOOLEAN /\ CacheTellsTheStore)'
  BY <1>1, <1>2 DEF CacheTellsTheStore
<1>4. (Kept(c) # {} /\ c \notin ahead) =>
        c \in Known /\ \A s \in Starters(c) : <<c, s>> \in removed \/ s \in Present(Kept(c))
  <2>1. CASE stored[c] # {}
    BY <1>1, <2>1 DEF RowsInv, Started
  <2>2. CASE stored[c] = {}
    BY <1>1, <2>2 DEF Starters, Present
  <2> QED BY <2>1, <2>2
<1>5. \A d \in Threads : (stored'[d] # {} /\ d \notin ahead') => d \in Known' /\ Started(d)'
  <2> SUFFICES ASSUME NEW d \in Threads, stored'[d] # {}, d \notin ahead'
               PROVE  d \in Known' /\ Started(d)'
    OBVIOUS
  <2>1. Started(d)' <=>
          \A s \in Starters(d) : <<d, s>> \in removed \/ s \in Present(stored'[d])
    BY <1>2, SameStarters DEF Started, Present
  <2>2. CASE d = c
    <3>1. stored'[d] = Kept(c)
      BY <1>2, <2>2 DEF RowsInv
    <3> QED BY <1>0, <1>2, <1>4, <2>1, <2>2, <3>1
  <2>3. CASE d # c
    <3>1. stored'[d] = stored[d]
      BY <1>2, <2>3 DEF RowsInv
    <3> QED BY <1>0, <1>2, <2>1, <3>1 DEF RowsInv, Started
  <2> QED BY <2>2, <2>3
<1>6. stored' \in [Threads -> SUBSET MembershipRows]
  BY <1>1, <1>2 DEF RowsInv
<1> QED BY <1>2, <1>3, <1>5, <1>6 DEF RowsInv

(* A person is invited into Conversations, or revoked from all of them. *)
LEMMA InviteKeepsRows ==
  ASSUME RowsInv, NEW p \in People, NEW granted \in SUBSET Threads, Invite(p, granted)
  PROVE  RowsInv'
<1>1. /\ stored' = [c \in Threads |->
                     IF c \in granted THEN Added(c, Row(p, "inert")) ELSE stored[c]]
      /\ removed' = removed \ {<<c, p>> : c \in granted}
      /\ cached' = NotCached /\ roster' = roster
      /\ ahead' = {c \in ahead \cup (granted \ Known) : stored'[c] # {}}
  BY DEF Invite, EditOf
<1>2. Row(p, "inert") \in MembershipRows /\ Row(p, "inert").who = p
  BY DEF Row, MembershipRows, Members, Reactions
<1>4. stored' \in [Threads -> SUBSET MembershipRows]
  BY <1>1, <1>2, AddedFacts DEF RowsInv
<1>5. \A c \in Threads : (stored'[c] # {} /\ c \notin ahead') =>
           /\ c \in Known
           /\ \A s \in Starters(c) : <<c, s>> \in removed' \/ s \in Present(stored'[c])
  <2> SUFFICES ASSUME NEW c \in Threads, stored'[c] # {}, c \notin ahead'
               PROVE  /\ c \in Known
                      /\ \A s \in Starters(c) : <<c, s>> \in removed' \/ s \in Present(stored'[c])
    OBVIOUS
  <2>0. c \notin ahead /\ (c \in granted => c \in Known)
    BY <1>1
  <2>1. CASE c \in granted
    <3>1. stored'[c] = Added(c, Row(p, "inert"))
      BY <1>1, <2>1
    <3>2. \A s \in Starters(c) :
            s \in Present(stored'[c]) \/ (<<c, s>> \in removed /\ s # p)
      BY <1>2, <2>0, <2>1, <3>1, AddedFacts
    <3> QED BY <1>1, <2>0, <2>1, <3>2
  <2>2. CASE c \notin granted
    <3>1. stored'[c] = stored[c]
      BY <1>1, <2>2
    <3>2. \A s \in Starters(c) : <<c, s>> \in removed => <<c, s>> \in removed'
      BY <1>1, <2>2
    <3> QED BY <2>0, <3>1, <3>2 DEF RowsInv, Started
  <2> QED BY <2>1, <2>2
<1> QED BY <1>1, <1>4, <1>5, RowsFromParts

(* A revoked person's rows leave the store and the cache together. *)
LEMMA RevokeKeepsRows ==
  ASSUME RowsInv, NEW p \in People, Revoke(p)
  PROVE  RowsInv'
<1>1. /\ stored' = [c \in Threads |-> Dropped(stored[c], p)]
      /\ removed' = removed \cup {<<c, p>> : c \in Threads}
      /\ cached' = NotCached /\ roster' = roster
      /\ ahead' = {c \in ahead : stored'[c] # {}}
  BY DEF Revoke, EditOf
<1>2. \A c \in Threads : stored[c] \in SUBSET MembershipRows
  BY DEF RowsInv
<1>4. stored' \in [Threads -> SUBSET MembershipRows]
  BY <1>1, <1>2, DroppedFacts DEF RowsInv
<1>5. \A c \in Threads : (stored'[c] # {} /\ c \notin ahead') =>
           /\ c \in Known
           /\ \A s \in Starters(c) : <<c, s>> \in removed' \/ s \in Present(stored'[c])
  <2> SUFFICES ASSUME NEW c \in Threads, stored'[c] # {}, c \notin ahead'
               PROVE  /\ c \in Known
                      /\ \A s \in Starters(c) : <<c, s>> \in removed' \/ s \in Present(stored'[c])
    OBVIOUS
  <2>1. stored'[c] = Dropped(stored[c], p)
    BY <1>1
  <2>2. stored[c] # {} /\ c \notin ahead
    BY <1>1, <2>1, <1>2, DroppedFacts
  <2>3. c \in Known /\ \A s \in Starters(c) : <<c, s>> \in removed \/ s \in Present(stored[c])
    BY <2>2 DEF RowsInv, Started
  <2>4. Present(stored'[c]) = Present(stored[c]) \ {p}
    BY <1>2, <2>1, DroppedFacts
  <2> QED BY <1>1, <2>3, <2>4
<1> QED BY <1>1, <1>4, <1>5, RowsFromParts

(* One Conversation's rows are edited: whoever started it is still there, or was
   removed. *)
LEMMA EditFacts ==
  ASSUME RowsInv, NEW c \in Threads, NEW those \in SUBSET MembershipRows,
         stored' = [stored EXCEPT ![c] = those],
         \A d \in Threads, s \in Members :
            <<d, s>> \in removed => <<d, s>> \in removed' \/ (d = c /\ s \in Present(those)),
         \A d \in ahead : stored'[d] # {} => d \in ahead',
         cached' = NotCached, roster' = roster,
         (those # {} /\ c \notin ahead') =>
           /\ c \in Known
           /\ \A s \in Starters(c) : <<c, s>> \in removed' \/ s \in Present(those)
  PROVE  RowsInv'
<1>2. stored' \in [Threads -> SUBSET MembershipRows]
  BY DEF RowsInv
<1>3. \A d \in Threads : (stored'[d] # {} /\ d \notin ahead') =>
           /\ d \in Known
           /\ \A s \in Starters(d) : <<d, s>> \in removed' \/ s \in Present(stored'[d])
  <2> SUFFICES ASSUME NEW d \in Threads, stored'[d] # {}, d \notin ahead'
               PROVE  /\ d \in Known
                      /\ \A s \in Starters(d) : <<d, s>> \in removed' \/ s \in Present(stored'[d])
    OBVIOUS
  <2>1. CASE d = c
    <3>1. stored'[d] = those
      BY <2>1 DEF RowsInv
    <3> QED BY <2>1, <3>1
  <2>2. CASE d # c
    <3>1. stored'[d] = stored[d] /\ d \notin ahead
      BY <2>2 DEF RowsInv
    <3>2. \A s \in Starters(d) : s \in Members
      BY DerivedRows DEF Starters, MembershipRows
    <3>3. d \in Known /\ \A s \in Starters(d) : <<d, s>> \in removed \/ s \in Present(stored[d])
      BY <3>1 DEF RowsInv, Started
    <3> QED BY <2>2, <3>1, <3>2, <3>3
  <2> QED BY <2>1, <2>2
<1> QED BY <1>2, <1>3, RowsFromParts

(* What an edit says of the cache and of the Conversations written to ahead. *)
LEMMA EditOfFacts ==
  ASSUME NEW cs, EditOf(cs)
  PROVE  /\ cached' = NotCached
         /\ \A d \in ahead \cup (cs \ Known) : stored'[d] # {} => d \in ahead'
BY DEF EditOf

(* A join is an addition to the rows that are kept. *)
LEMMA JoinKeepsRows ==
  ASSUME RowsInv, NEW who \in Members, NEW c \in Threads, NEW shared \in BOOLEAN,
         JoinConversation(who, c, shared)
  PROVE  RowsInv'
<1> DEFINE reaction == IF shared THEN "mentionsMe"
                       ELSE IF who \in {Orchestrator} \cup Workers THEN "addressable"
                       ELSE "inert"
           those == Added(c, Row(who, reaction))
<1>1. Row(who, reaction) \in MembershipRows /\ Row(who, reaction).who = who
  BY DEF Row, MembershipRows, Reactions
<1>2. /\ stored' = [stored EXCEPT ![c] = those] /\ EditOf({c})
      /\ removed' = removed \ {<<c, who>>} /\ roster' = roster
  BY DEF JoinConversation
<1>3. /\ those \in SUBSET MembershipRows /\ who \in Present(those)
      /\ c \in Known \ ahead => \A s \in Starters(c) : <<c, s>> \in removed \/ s \in Present(those)
  BY <1>1, AddedFacts
<1> HIDE DEF those
<1>4. /\ cached' = NotCached
      /\ \A d \in ahead : stored'[d] # {} => d \in ahead'
      /\ those # {} /\ c \notin ahead' => c \in Known \ ahead
  BY <1>2, EditOfFacts DEF RowsInv
<1> QED BY <1>2, <1>3, <1>4, EditFacts

(* Only an orchestrator or a worker that left by name is missing afterwards. *)
LEMMA LeaveKeepsRows ==
  ASSUME RowsInv, NEW who \in Members, NEW c \in Threads, Leave(who, c)
  PROVE  RowsInv'
<1>1. /\ stored' = [stored EXCEPT ![c] = Dropped(@, who)]
      /\ removed' = removed \cup {<<c, who>>} /\ roster' = roster
      /\ stored[c] # {} /\ EditOf({})
  BY DEF Leave
<1>2. stored[c] \in SUBSET MembershipRows
  BY DEF RowsInv
<1>3. /\ cached' = NotCached
      /\ \A d \in ahead : stored'[d] # {} => d \in ahead'
      /\ stored'[c] = Dropped(stored[c], who)
  BY <1>1, EditOfFacts DEF RowsInv
<1>4. (Dropped(stored[c], who) # {} /\ c \notin ahead') =>
        /\ c \in Known
        /\ \A s \in Starters(c) : <<c, s>> \in removed' \/ s \in Present(Dropped(stored[c], who))
  BY <1>1, <1>2, <1>3, DroppedFacts DEF RowsInv, Started
<1>5. Dropped(stored[c], who) \in SUBSET MembershipRows
  BY <1>2, DroppedFacts
<1> QED BY <1>1, <1>3, <1>4, <1>5, EditFacts

(* A mute changes how a member reacts, not who is there. *)
LEMMA MuteKeepsRows ==
  ASSUME RowsInv, NEW who \in Members, NEW c \in Threads, NEW muted \in BOOLEAN,
         Mute(who, c, muted)
  PROVE  RowsInv'
<1>1. PICK r \in stored[c] : /\ r.who = who
                             /\ stored' = [stored EXCEPT ![c] =
                                             PutRow(@, [r EXCEPT !.muted = muted])]
  BY DEF Mute
<1>2. /\ stored[c] \in SUBSET MembershipRows /\ EditOf({})
      /\ UNCHANGED <<roster, removed>>
  BY DEF RowsInv, Mute
<1> DEFINE those == PutRow(stored[c], [r EXCEPT !.muted = muted])
<1>3. [r EXCEPT !.muted = muted] \in MembershipRows /\ [r EXCEPT !.muted = muted].who = r.who
  BY <1>1, <1>2 DEF MembershipRows
<1>4. those \in SUBSET MembershipRows /\ Present(stored[c]) \subseteq Present(those) /\ those # {}
  BY <1>2, <1>3, PutRowFacts
<1>5. stored' = [stored EXCEPT ![c] = those]
  BY <1>1
<1> HIDE DEF those
<1>6. /\ cached' = NotCached
      /\ \A d \in ahead : stored'[d] # {} => d \in ahead'
      /\ stored'[c] = those
  BY <1>2, <1>5, EditOfFacts DEF RowsInv
<1>7. c \notin ahead' => c \in Known /\ \A s \in Starters(c) : <<c, s>> \in removed' \/ s \in Present(those)
  BY <1>1, <1>2, <1>4, <1>6 DEF RowsInv, Started
<1> QED BY <1>2, <1>4, <1>5, <1>6, <1>7, EditFacts

(* A closed thread is left as it was. *)
LEMMA CloseKeepsRows ==
  ASSUME RowsInv, NEW c \in Threads, CloseThread(c)
  PROVE  RowsInv'
<1>1. /\ stored' = [stored EXCEPT ![c] = {}] /\ EditOf({})
      /\ removed' = removed \cup {<<c, r.who>> : r \in stored[c]} /\ roster' = roster
  BY DEF CloseThread
<1> QED BY <1>1, EditOfFacts, EditFacts

(* The automation's own row is an addition to those of the home thread. *)
LEMMA AutomationKeepsRows ==
  ASSUME RowsInv, EnsureAutomation
  PROVE  RowsInv'
<1> DEFINE those == Added(HomeThread, Row(Automation, "inert"))
<1>1. Row(Automation, "inert") \in MembershipRows /\ HomeThread \in Known /\ HomeThread \in Threads
  BY DEF Row, MembershipRows, Members, Reactions, Known, Threads
<1>2. /\ those \in SUBSET MembershipRows
      /\ HomeThread \notin ahead =>
           \A s \in Starters(HomeThread) : <<HomeThread, s>> \in removed \/ s \in Present(those)
  BY <1>1, AddedFacts
<1>3. /\ stored' = [stored EXCEPT ![HomeThread] = those]
      /\ cached' = NotCached /\ UNCHANGED <<roster, removed, ahead>>
  BY DEF EnsureAutomation
<1> HIDE DEF those
<1> QED BY <1>1, <1>2, <1>3, EditFacts

(* A session starts with nobody in its Conversations. *)
LEMMA RowsInvInitially == MemberInit => RowsInv
<1> SUFFICES ASSUME MemberInit PROVE RowsInv
  OBVIOUS
<1>1. stored = [c \in Threads |-> {}] /\ roster = {} /\ cached = NotCached
  BY DEF MemberInit
<1>2. cached.loaded = FALSE
  BY <1>1 DEF NotCached
<1>3. (\A c \in Threads : stored[c] = {}) /\ stored \in [Threads -> SUBSET MembershipRows]
  BY <1>1
<1> QED BY <1>1, <1>2, <1>3 DEF RowsInv, CacheTellsTheStore

(* Every operation keeps RowsInv. *)
LEMMA RowsInvIsInductive == RowsInv /\ [MemberNext]_memberVars => RowsInv'
<1> SUFFICES ASSUME RowsInv, [MemberNext]_memberVars PROVE RowsInv'
  OBVIOUS
<1>0. ASSUME UNCHANGED <<stored, roster, removed, ahead>>, cached' = NotCached \/ cached' = cached
      PROVE  RowsInv'
  BY <1>0, RowsFromParts DEF RowsInv, Started
<1>1. ASSUME UNCHANGED <<stored, cached, roster, removed, ahead>> PROVE RowsInv'
  BY <1>0, <1>1
<1>2. CASE \E w \in Workers, relays \in BOOLEAN : SpawnWorker(w, relays)
  BY <1>2, SpawnKeepsRows
<1>3. CASE \E c \in Threads : ReadMembers(c) \/ CloseThread(c)
  BY <1>3, ReadKeepsRows, CloseKeepsRows
<1>4. CASE \E p \in People, granted \in SUBSET Threads : Invite(p, granted)
  BY <1>4, InviteKeepsRows
<1>5. CASE \E p \in People : Revoke(p)
  BY <1>5, RevokeKeepsRows
<1>6. CASE \E who \in Members, c \in Threads :
             \/ Leave(who, c)
             \/ \E b \in BOOLEAN : JoinConversation(who, c, b) \/ Mute(who, c, b)
  BY <1>6, LeaveKeepsRows, JoinKeepsRows, MuteKeepsRows
<1>7. CASE EnsureAutomation
  BY <1>7, AutomationKeepsRows
<1>8. CASE (\E p \in People, t \in Tabs : Arrive(p, t)) \/ \E t \in Tabs : Depart(t)
  BY <1>1, <1>8 DEF Arrive, Depart
<1>9. CASE RestartServer
  BY <1>0, <1>9 DEF RestartServer
<1>10. CASE UNCHANGED memberVars
  BY <1>1, <1>10 DEF memberVars
<1> QED BY <1>2, <1>3, <1>4, <1>5, <1>6, <1>7, <1>8, <1>9, <1>10 DEF MemberNext

(* So the invariant always holds. *)
LEMMA RowsInvHolds == MemberSpec => []RowsInv
BY RowsInvInitially, RowsInvIsInductive, PTL DEF MemberSpec

(* A registry that was loaded answers what the store holds, through every upsert,
   removal, revocation and restart (membership registry's loaded cache). *)
THEOREM CacheAlwaysTellsTheStore == MemberSpec => []CacheTellsTheStore
<1>1. RowsInv => CacheTellsTheStore
  BY DEF RowsInv
<1> QED BY <1>1, RowsInvHolds, PTL

(* A Conversation with rows has its orchestrator and its worker among them unless they
   were removed by name, or it was first written to before its worker's row had landed:
   an addition to a Conversation that had none writes the derived rows first. *)
THEOREM StartersAlwaysStay == MemberSpec => []StartersStay
<1>1. RowsInv => StartersStay
  <2>1. Known \subseteq Threads
    BY DEF Known
  <2> QED BY <2>1 DEF RowsInv, StartersStay, Started, Starters, Present
<1> QED BY <1>1, RowsInvHolds, PTL

-----------------------------------------------------------------------------
(* Memberships: presence *)

\* The tabs that count for a person.
TabsOf(p) == {t \in tracked : tabOf[t] = {p}}

\* A tab is nobody's or one person's, and each person's tracked ones are counted.
PresenceInv ==
  /\ person \in [People -> Persons]
  /\ tabOf \in [Tabs -> {{}} \cup {{p} : p \in People}]
  /\ tracked \subseteq Tabs /\ \A t \in tracked : tabOf[t] # {}
  /\ counted \in [People -> Nat]
  /\ \A p \in People : IsFiniteSet(TabsOf(p)) /\ counted[p] = Cardinality(TabsOf(p))
  /\ PresenceFollowsTabs

(* A person is counted absent exactly when no tab is theirs. *)
LEMMA CountedTabs ==
  ASSUME PresenceInv, NEW p \in People
  PROVE  (counted[p] = 0) <=> ~\E t \in tracked : tabOf[t] = {p}
<1>1. IsFiniteSet(TabsOf(p)) /\ counted[p] = Cardinality(TabsOf(p))
  BY DEF PresenceInv
<1>2. counted[p] = 0 <=> TabsOf(p) = {}
  BY <1>1, FS_EmptySet
<1> QED BY <1>2 DEF TabsOf

(* A tab that connects counts for its person, and the first of them shows the person. *)
LEMMA ArriveKeepsPresence ==
  ASSUME PresenceInv, NEW p \in People, NEW t \in Tabs, Arrive(p, t)
  PROVE  PresenceInv'
<1>0. CASE UNCHANGED <<tracked, counted, person, unsettled>>
  <2>1. \A q \in People : TabsOf(q)' = TabsOf(q)
    BY <1>0 DEF Arrive, TabsOf, PresenceInv
  <2>2. \A q \in People : (\E s \in tracked' : tabOf'[s] = {q}) <=> \E s \in tracked : tabOf[s] = {q}
    BY <2>1 DEF TabsOf
  <2>3. PresenceFollowsTabs'
    BY <1>0, <2>2 DEF PresenceInv, PresenceFollowsTabs
  <2> QED BY <1>0, <2>1, <2>3 DEF PresenceInv, Arrive
<1> SUFFICES ASSUME ~UNCHANGED <<tracked, counted, person, unsettled>> PROVE PresenceInv'
  BY <1>0
<1>1. /\ tabOf[t] \in {{}, {p}} /\ tabOf' = [tabOf EXCEPT ![t] = {p}]
      /\ t \notin tracked /\ tracked' = tracked \cup {t}
      /\ counted' = [counted EXCEPT ![p] = @ + 1]
      /\ person' = IF counted'[p] = 1 THEN WithPresence(p, "connected") ELSE person
      /\ unsettled' = IF counted'[p] = 1 THEN unsettled \ {p} ELSE unsettled
  BY DEF Arrive
<1>2. TabsOf(p)' = TabsOf(p) \cup {t} /\ t \notin TabsOf(p)
  BY <1>1 DEF TabsOf, PresenceInv
<1>3. \A q \in People : q # p => TabsOf(q)' = TabsOf(q)
  BY <1>1 DEF TabsOf, PresenceInv
<1>4. \A q \in People : IsFiniteSet(TabsOf(q)') /\ counted'[q] = Cardinality(TabsOf(q)')
  <2>1. IsFiniteSet(TabsOf(p)') /\ Cardinality(TabsOf(p)') = Cardinality(TabsOf(p)) + 1
    BY <1>2, FS_AddElement DEF PresenceInv
  <2> QED BY <2>1, <1>1, <1>3 DEF PresenceInv
<1>5. person' \in [People -> Persons]
  BY <1>1 DEF PresenceInv, Persons, WithPresence
<1>6. PresenceFollowsTabs'
  <2> SUFFICES ASSUME NEW q \in People, person'[q].row = "invited", q \notin unsettled'
               PROVE  (person'[q].presence = "connected") = (\E s \in tracked' : tabOf'[s] = {q})
    BY DEF PresenceFollowsTabs
  <2>1. CASE q # p
    <3>1. person'[q] = person[q] /\ q \notin unsettled
      BY <2>1, <1>1 DEF WithPresence, PresenceInv, Persons
    <3>2. (\E s \in tracked' : tabOf'[s] = {q}) <=> \E s \in tracked : tabOf[s] = {q}
      BY <2>1, <1>3 DEF TabsOf
    <3> QED BY <3>1, <3>2 DEF PresenceInv, PresenceFollowsTabs
  <2>2. CASE q = p
    <3>1. \E s \in tracked' : tabOf'[s] = {p}
      BY <1>1 DEF PresenceInv
    <3>2. CASE counted'[p] = 1
      <4>1. person' = WithPresence(p, "connected")
        BY <3>2, <1>1
      <4>2. person'[p].presence = "connected"
        BY <4>1, <2>2 DEF WithPresence, PresenceInv, Persons
      <4> QED BY <4>2, <3>1, <2>2
    <3>3. CASE counted'[p] # 1
      <4>1. counted[p] # 0 /\ UNCHANGED <<person, unsettled>>
        BY <3>3, <1>1 DEF PresenceInv
      <4>2. \E s \in tracked : tabOf[s] = {p}
        BY <4>1, CountedTabs
      <4> QED BY <4>1, <4>2, <3>1, <2>2 DEF PresenceInv, PresenceFollowsTabs
    <3> QED BY <3>2, <3>3
  <2> QED BY <2>1, <2>2
<1>7. /\ tabOf' \in [Tabs -> {{}} \cup {{q} : q \in People}]
      /\ tracked' \subseteq Tabs /\ \A s \in tracked' : tabOf'[s] # {}
      /\ counted' \in [People -> Nat]
  BY <1>1 DEF PresenceInv
<1> QED BY <1>4, <1>5, <1>6, <1>7 DEF PresenceInv

(* A tab that closes no longer counts, and the last of them hides its person. *)
LEMMA DepartKeepsPresence ==
  ASSUME PresenceInv, NEW t \in Tabs, Depart(t)
  PROVE  PresenceInv'
<1>8. CASE t \notin tracked
  <2>1. /\ tabOf' = [tabOf EXCEPT ![t] = {}] /\ tracked' = tracked
        /\ UNCHANGED <<counted, person, unsettled>>
    BY <1>8 DEF Depart
  <2>2. \A q \in People : TabsOf(q)' = TabsOf(q)
    BY <1>8, <2>1 DEF TabsOf, PresenceInv
  <2>3. \A q \in People : (\E s \in tracked' : tabOf'[s] = {q}) <=> \E s \in tracked : tabOf[s] = {q}
    BY <2>2 DEF TabsOf
  <2>4. PresenceFollowsTabs'
    BY <2>1, <2>3 DEF PresenceInv, PresenceFollowsTabs
  <2>5. \A s \in tracked' : tabOf'[s] # {}
    BY <1>8, <2>1 DEF PresenceInv
  <2> QED BY <2>1, <2>2, <2>4, <2>5 DEF PresenceInv
<1> SUFFICES ASSUME t \in tracked PROVE PresenceInv'
  BY <1>8
<1>1. PICK p \in tabOf[t] :
        /\ tabOf' = [tabOf EXCEPT ![t] = {}] /\ tracked' = tracked \ {t}
        /\ counted' = [counted EXCEPT ![p] = @ - 1]
        /\ person' = IF counted'[p] = 0 THEN WithPresence(p, "detached") ELSE person
        /\ unsettled' = IF counted'[p] = 0 THEN unsettled \ {p} ELSE unsettled
  BY DEF Depart
<1>0. p \in People /\ tabOf[t] = {p}
  BY <1>1 DEF PresenceInv
<1>2. TabsOf(p)' = TabsOf(p) \ {t} /\ t \in TabsOf(p)
  BY <1>0, <1>1 DEF TabsOf, PresenceInv
<1>3. \A q \in People : q # p => TabsOf(q)' = TabsOf(q)
  BY <1>0, <1>1 DEF TabsOf, PresenceInv
<1>4. \A q \in People : /\ IsFiniteSet(TabsOf(q)') /\ counted'[q] = Cardinality(TabsOf(q)')
                        /\ counted'[q] \in Nat
  <2>1. IsFiniteSet(TabsOf(p)') /\ Cardinality(TabsOf(p)') = Cardinality(TabsOf(p)) - 1
    BY <1>0, <1>2, FS_RemoveElement DEF PresenceInv
  <2>2. Cardinality(TabsOf(p)') \in Nat
    BY <2>1, FS_CardinalityType
  <2> QED BY <2>1, <2>2, <1>0, <1>1, <1>3 DEF PresenceInv
<1>5. person' \in [People -> Persons]
  BY <1>1 DEF PresenceInv, Persons, WithPresence
<1>6. PresenceFollowsTabs'
  <2> SUFFICES ASSUME NEW q \in People, person'[q].row = "invited", q \notin unsettled'
               PROVE  (person'[q].presence = "connected") = (\E s \in tracked' : tabOf'[s] = {q})
    BY DEF PresenceFollowsTabs
  <2>1. CASE q # p
    <3>1. person'[q] = person[q] /\ q \notin unsettled
      BY <2>1, <1>0, <1>1 DEF WithPresence, PresenceInv, Persons
    <3>2. (\E s \in tracked' : tabOf'[s] = {q}) <=> \E s \in tracked : tabOf[s] = {q}
      BY <2>1, <1>3 DEF TabsOf
    <3> QED BY <3>1, <3>2 DEF PresenceInv, PresenceFollowsTabs
  <2>2. CASE q = p
    <3>0. counted'[p] = 0 <=> TabsOf(p)' = {}
      BY <1>0, <1>4, FS_EmptySet
    <3>1. counted'[p] = 0 <=> ~\E s \in tracked' : tabOf'[s] = {p}
      BY <3>0 DEF TabsOf
    <3>2. CASE counted'[p] = 0
      <4>1. person'[p].presence = "detached"
        BY <3>2, <1>0, <1>1, <2>2 DEF WithPresence, PresenceInv, Persons
      <4> QED BY <4>1, <3>1, <3>2, <2>2
    <3>3. CASE counted'[p] # 0
      <4>1. UNCHANGED <<person, unsettled>>
        BY <3>3, <1>1
      <4>2. \E s \in tracked : tabOf[s] = {p}
        BY <1>0
      <4> QED BY <4>1, <4>2, <3>1, <3>3, <2>2 DEF PresenceInv, PresenceFollowsTabs
    <3> QED BY <3>2, <3>3
  <2> QED BY <2>1, <2>2
<1>7. /\ tabOf' \in [Tabs -> {{}} \cup {{q} : q \in People}]
      /\ tracked' \subseteq Tabs /\ \A s \in tracked' : tabOf'[s] # {}
      /\ counted' \in [People -> Nat]
  BY <1>0, <1>1, <1>4 DEF PresenceInv
<1> QED BY <1>4, <1>5, <1>6, <1>7 DEF PresenceInv
(* An invitation starts a row over, with its presence. *)
LEMMA InviteKeepsPresence ==
  ASSUME PresenceInv, NEW p \in People, NEW granted \in SUBSET Threads, Invite(p, granted)
  PROVE  PresenceInv'
<1>1. /\ person' = [person EXCEPT ![p] = [row |-> "invited", presence |-> "away"]]
      /\ unsettled' = IF counted[p] > 0 THEN unsettled \cup {p} ELSE unsettled
      /\ UNCHANGED <<tabOf, tracked, counted>>
  BY DEF Invite, presenceVars
<1>2. person' \in [People -> Persons]
  BY <1>1 DEF PresenceInv, Persons
<1>3. PresenceFollowsTabs'
  <2> SUFFICES ASSUME NEW q \in People, person'[q].row = "invited", q \notin unsettled'
               PROVE  (person'[q].presence = "connected") = (\E s \in tracked' : tabOf'[s] = {q})
    BY DEF PresenceFollowsTabs
  <2>1. CASE q # p
    BY <2>1, <1>1 DEF PresenceInv, PresenceFollowsTabs
  <2>2. CASE q = p
    <3>1. person'[p].presence = "away" /\ counted[p] = 0
      BY <1>1, <2>2 DEF PresenceInv
    <3> QED BY <3>1, <2>2, <1>1, CountedTabs
  <2> QED BY <2>1, <2>2
<1> QED BY <1>1, <1>2, <1>3 DEF PresenceInv, TabsOf

(* A person who was revoked has no presence to speak of. *)
LEMMA RevokeKeepsPresence ==
  ASSUME PresenceInv, NEW p \in People, Revoke(p)
  PROVE  PresenceInv'
<1>1. /\ person' = [person EXCEPT ![p] = [row |-> "revoked", presence |-> "detached"]]
      /\ UNCHANGED <<tabOf, tracked, counted, unsettled>>
  BY DEF Revoke, presenceVars
<1>2. person' \in [People -> Persons]
  BY <1>1 DEF PresenceInv, Persons
<1>3. \A q \in People : person'[q].row = "invited" => person'[q] = person[q]
  BY <1>1 DEF PresenceInv
<1>4. PresenceFollowsTabs'
  BY <1>1, <1>3 DEF PresenceInv, PresenceFollowsTabs
<1> QED BY <1>1, <1>2, <1>4 DEF PresenceInv, TabsOf

(* A restart closes every tab; whoever had one is set aside. *)
LEMMA RestartKeepsPresence ==
  ASSUME PresenceInv, RestartServer
  PROVE  PresenceInv'
<1>1. /\ tabOf' = [t \in Tabs |-> {}] /\ tracked' = {} /\ counted' = [p \in People |-> 0]
      /\ unsettled' = unsettled \cup {p \in People : counted[p] > 0}
      /\ person' = person
  BY DEF RestartServer
<1>2. \A p \in People : TabsOf(p)' = {}
  BY <1>1 DEF TabsOf
<1>3. \A p \in People : IsFiniteSet(TabsOf(p)') /\ counted'[p] = Cardinality(TabsOf(p)')
  BY <1>1, <1>2, FS_EmptySet
<1>4. PresenceFollowsTabs'
  <2> SUFFICES ASSUME NEW q \in People, person[q].row = "invited", q \notin unsettled'
               PROVE  (person[q].presence = "connected") = (\E s \in tracked' : tabOf'[s] = {q})
    BY <1>1 DEF PresenceFollowsTabs
  <2>1. counted[q] = 0 /\ q \notin unsettled
    BY <1>1 DEF PresenceInv
  <2> QED BY <1>1, <2>1, CountedTabs DEF PresenceInv, PresenceFollowsTabs
<1> QED BY <1>1, <1>3, <1>4 DEF PresenceInv

(* Nobody has a tab at the start. *)
LEMMA PresenceInvInitially == MemberInit => PresenceInv
<1> SUFFICES ASSUME MemberInit PROVE PresenceInv
  OBVIOUS
<1>1. /\ person = [p \in People |-> [row |-> "none", presence |-> "away"]]
      /\ tabOf = [t \in Tabs |-> {}] /\ tracked = {} /\ counted = [p \in People |-> 0]
  BY DEF MemberInit
<1>2. \A p \in People : TabsOf(p) = {}
  BY <1>1 DEF TabsOf
<1> QED BY <1>1, <1>2, FS_EmptySet DEF PresenceInv, Persons, PresenceFollowsTabs

(* Every operation keeps PresenceInv. *)
LEMMA PresenceInvIsInductive == PresenceInv /\ [MemberNext]_memberVars => PresenceInv'
<1> SUFFICES ASSUME PresenceInv, [MemberNext]_memberVars PROVE PresenceInv'
  OBVIOUS
<1>1. ASSUME UNCHANGED <<person, presenceVars, unsettled>> PROVE PresenceInv'
  BY <1>1 DEF PresenceInv, PresenceFollowsTabs, TabsOf, presenceVars
<1>2. CASE \E w \in Workers, relays \in BOOLEAN : SpawnWorker(w, relays)
  BY <1>1, <1>2 DEF SpawnWorker
<1>3. CASE \E c \in Threads : ReadMembers(c) \/ CloseThread(c)
  BY <1>1, <1>3 DEF ReadMembers, CloseThread
<1>4. CASE \E p \in People, granted \in SUBSET Threads : Invite(p, granted)
  BY <1>4, InviteKeepsPresence
<1>5. CASE \E p \in People : Revoke(p)
  BY <1>5, RevokeKeepsPresence
<1>6. CASE \E who \in Members, c \in Threads :
             \/ Leave(who, c)
             \/ \E b \in BOOLEAN : JoinConversation(who, c, b) \/ Mute(who, c, b)
  BY <1>1, <1>6 DEF Leave, JoinConversation, Mute
<1>7. CASE EnsureAutomation
  BY <1>1, <1>7 DEF EnsureAutomation, presenceVars
<1>8. CASE \E p \in People, t \in Tabs : Arrive(p, t)
  BY <1>8, ArriveKeepsPresence
<1>9. CASE \E t \in Tabs : Depart(t)
  BY <1>9, DepartKeepsPresence
<1>10. CASE RestartServer
  BY <1>10, RestartKeepsPresence
<1>11. CASE UNCHANGED memberVars
  BY <1>1, <1>11 DEF memberVars, presenceVars
<1> QED BY <1>2, <1>3, <1>4, <1>5, <1>6, <1>7, <1>8, <1>9, <1>10, <1>11 DEF MemberNext

(* A person reads as connected exactly while a tab of theirs that was counted is open,
   however many they open and close, except between an invitation or a restart under such
   tabs and their next first or last one. *)
THEOREM PresenceAlwaysFollowsTabs == MemberSpec => []PresenceFollowsTabs
<1>1. PresenceInv => PresenceFollowsTabs
  BY DEF PresenceInv
<1> QED BY <1>1, PresenceInvInitially, PresenceInvIsInductive, PTL DEF MemberSpec

-----------------------------------------------------------------------------
(* Reactors *)

\* What a call in flight holds.
Holds(t) == /\ t.step \in {"read", "firing"}
            /\ t.rec \in Rows /\ t.rec.id \in 1 .. installs

\* The calls have their types; only the Conversations of the scope have calls.
CallTypes ==
  /\ task = [c \in Callers |-> task[c]]
  /\ \A c \in Callers : task[c] = Idle \/ Holds(task[c])
  /\ \A c \in Watched : task[c] # Idle => c \in scope
  /\ \A c \in Watched : task[c].step = "read" => task[c].msg \in Facts

\* So have the row and the timers.
RowTypes ==
  /\ scope \in ReactorScopes
  /\ reactor \in Rows \cup {NoReactor}
  /\ reactor # NoReactor => reactor.id \in 1 .. installs
  /\ installs \in 0 .. MaxInstalls /\ timers \subseteq 1 .. installs
  /\ owed \in States

\* Both.
ReactorTypes == RowTypes /\ CallTypes

\* Undisturbed, whoever is in flight holds the row that is stored.  A reactor without
\* timers is only touched by the one call of its Conversation, which holds the very
\* state that is stored; one with timers remembers nothing but its flag, which each
\* writer sets whatever it has read.
Undisturbed ==
  /\ \A c \in InFlight : /\ reactor # NoReactor
                         /\ task[c].rec.id = reactor.id /\ task[c].rec.spec = reactor.spec
  /\ reactor # NoReactor /\ ~Timed(reactor.spec) =>
       reactor.id \notin timers /\ \A c \in Ids : task[c] = Idle
  /\ reactor # NoReactor /\ Timed(reactor.spec) =>
       reactor.state.seen = {} /\ \A c \in InFlight : task[c].rec.state.seen = {}
  /\ reactor # NoReactor /\ Cardinality(scope) = 1 =>
       /\ reactor.state = owed
       /\ ~Timed(reactor.spec) => \A c \in InFlight : task[c].rec = reactor

\* The invariant.
FoldInv == ReactorTypes /\ (~disturbed => Undisturbed)

(* A fold and a timer keep the type of the state; of a reactor with timers they only
   set the flag. *)
LEMMA ObservedFacts ==
  ASSUME NEW spec, NEW state \in States, NEW m \in Facts
  PROVE  /\ Observed(spec, state, m) \in States
         /\ spec.name = "debounce" => Observed(spec, state, m) = [seen |-> state.seen, flag |-> FALSE]
         /\ Timed(spec) /\ spec.name # "debounce" => Observed(spec, state, m) = state
<1>1. m.author \in Targets /\ m.endsRun \in BOOLEAN /\ m.cause \in BOOLEAN
  BY DEF Facts
<1>2. Completes(spec, m) \in BOOLEAN
  BY <1>1 DEF Completes
<1>3. /\ state.seen \in SUBSET Targets /\ state.flag \in BOOLEAN
      /\ state = [seen |-> state.seen, flag |-> state.flag]
  BY DEF States
<1>4. /\ \A x \in SUBSET Targets : [state EXCEPT !.seen = x] \in States
      /\ \A b \in BOOLEAN : /\ [state EXCEPT !.flag = b] = [seen |-> state.seen, flag |-> b]
                            /\ [state EXCEPT !.flag = b] \in States
  BY <1>3 DEF States
<1>5. /\ state.seen \cup {m.author} \in SUBSET Targets
      /\ (state.flag \/ Completes(spec, m)) \in BOOLEAN /\ (state.flag \/ m.cause) \in BOOLEAN
  BY <1>1, <1>2, <1>3
<1>6. /\ [state EXCEPT !.seen = @ \cup {m.author}] \in States
      /\ [state EXCEPT !.flag = @ \/ Completes(spec, m)] \in States
      /\ [state EXCEPT !.flag = @ \/ m.cause] \in States
      /\ [state EXCEPT !.flag = FALSE] = [seen |-> state.seen, flag |-> FALSE]
      /\ [state EXCEPT !.flag = FALSE] \in States
  BY <1>4, <1>5
<1> HIDE DEF Completes
<1> QED BY <1>6 DEF Observed, Timed

(* A timer that fires only sets the flag. *)
LEMMA MarkFacts ==
  ASSUME NEW spec, NEW state \in States
  PROVE  /\ MarkDue(spec, state) \in States
         /\ Timed(spec) => MarkDue(spec, state) = [seen |-> state.seen, flag |-> TRUE]
BY DEF MarkDue, States

(* A fresh reactor has seen nobody. *)
LEMMA InitialState == Initial \in States /\ Initial.seen = {}
BY DEF Initial, States

(* What changing the state or the id of a row leaves as it was. *)
LEMMA RowFacts ==
  ASSUME NEW rec \in Rows
  PROVE  /\ rec.id \in Ids /\ rec.spec \in ReactorSpecs /\ rec.state \in States
         /\ \A s \in States : /\ [rec EXCEPT !.state = s] \in Rows
                              /\ [rec EXCEPT !.state = s].id = rec.id
                              /\ [rec EXCEPT !.state = s].spec = rec.spec
                              /\ [rec EXCEPT !.state = s].state = s
         /\ [rec EXCEPT !.state = rec.state] = rec
         /\ \A i \in Ids : /\ [rec EXCEPT !.id = i] \in Rows /\ [rec EXCEPT !.id = i].id = i
                           /\ [rec EXCEPT !.id = i].spec = rec.spec
                           /\ [rec EXCEPT !.id = i].state = rec.state
         /\ [rec EXCEPT !.id = rec.id] = rec
BY DEF Rows

(* A row is its id, its spec and its state. *)
LEMMA RowsDiffer ==
  ASSUME NEW a \in Rows, NEW b \in Rows, a.id = b.id, a.spec = b.spec, a.state = b.state
  PROVE  a = b
BY DEF Rows

(* The row that is there keeps its id. *)
LEMMA UpsertedFacts ==
  ASSUME ReactorTypes, NEW rec \in Rows, rec.id \in 1 .. installs
  PROVE  /\ Upserted(rec) \in Rows /\ Upserted(rec).id \in 1 .. installs
         /\ Upserted(rec).spec = rec.spec /\ Upserted(rec).state = rec.state
         /\ reactor # NoReactor => Upserted(rec).id = reactor.id
         /\ reactor # NoReactor /\ reactor.id = rec.id => Upserted(rec) = rec
BY RowFacts DEF Upserted, ReactorTypes, RowTypes

(* No Conversation has the id of a reactor, and the scope of one Conversation is just
   that Conversation. *)
LEMMA CallersApart ==
  /\ \A c \in Watched : c \notin Ids
  /\ Callers = Watched \cup Ids
  /\ NoReactor \notin Rows
  /\ \A r : scope \in ReactorScopes /\ Cardinality(scope) = 1 /\ r \in scope => scope = {r}
<1>1. /\ \A c \in Watched : c \notin Ids
      /\ Callers = Watched \cup Ids /\ NoReactor \notin Rows
  BY ReactorAssumption DEF Watched, Callers
<1>2. ASSUME NEW r, scope \in ReactorScopes, Cardinality(scope) = 1, r \in scope
      PROVE  scope = {r}
  <2>1. IsFiniteSet(scope)
    BY <1>2, ReactorAssumption
  <2>2. \E x : scope = {x}
    BY <2>1, <1>2, FS_Singleton
  <2> QED BY <2>2, <1>2
<1> QED BY <1>1, <1>2

(* A step that leaves every call but c's alone. *)
LEMMA OneCallMoves ==
  ASSUME task = [d \in Callers |-> task[d]], NEW c \in Callers, NEW t,
         task' = [task EXCEPT ![c] = t]
  PROVE  /\ task' = [d \in Callers |-> task'[d]]
         /\ task'[c] = t
         /\ \A d \in Callers : d # c => task'[d] = task[d]
OBVIOUS

(* A Conversation nobody calls for is idle. *)
LEMMA IdleHasNoCall == Idle.step = "idle"
BY DEF Idle

(* One call moving to a step with its type keeps the calls typed. *)
LEMMA CallTypesKept ==
  ASSUME CallTypes, scope' = scope, installs' = installs,
         NEW c \in Callers, NEW t, task' = [task EXCEPT ![c] = t],
         t = Idle \/ (Holds(t) /\ (c \in Watched => c \in scope)),
         c \in Watched /\ t.step = "read" => t.msg \in Facts
  PROVE  CallTypes'
<1>1. /\ task' = [d \in Callers |-> task'[d]]
      /\ task'[c] = t
      /\ \A d \in Callers : d # c => task'[d] = task[d]
  BY OneCallMoves DEF CallTypes
<1>2. \A x : Holds(x) <=> /\ x.step \in {"read", "firing"}
                          /\ x.rec \in Rows /\ x.rec.id \in 1 .. installs'
  BY DEF Holds
<1>3. \A d \in Callers : task'[d] = Idle \/ Holds(task'[d])
  BY <1>1 DEF CallTypes
<1>4. \A d \in Watched : task'[d] # Idle => d \in scope
  BY <1>1, CallersApart DEF CallTypes
<1>5. \A d \in Watched : task'[d].step = "read" => task'[d].msg \in Facts
  BY <1>1, CallersApart DEF CallTypes
<1> QED BY <1>1, <1>2, <1>3, <1>4, <1>5 DEF CallTypes, Holds

(* The row and the calls keep their types whatever the step. *)
LEMMA TypesKept ==
  ASSUME ReactorTypes, [ReactorNext]_reactorVars
  PROVE  ReactorTypes'
<1> USE DEF ReactorTypes
<1>0. CallTypes /\ UNCHANGED <<scope, installs, task>> => CallTypes'
  BY DEF CallTypes, Holds
<1>1. ASSUME NEW spec \in ReactorSpecs, Install(spec) PROVE ReactorTypes'
  <2>1. installs' \in 1 .. MaxInstalls /\ installs' = installs + 1 /\ installs \in Nat
    BY <1>1, ReactorAssumption DEF Install, RowTypes
  <2> DEFINE new == [id |-> installs', spec |-> spec, state |-> Initial]
  <2>3. new \in Rows /\ new.id = installs'
    BY <2>1, InitialState DEF Rows, Ids
  <2>4. Upserted(new) \in Rows /\ Upserted(new).id \in 1 .. installs'
    BY <2>1, <2>3, RowFacts DEF Upserted, RowTypes
  <2>5. \A i : i \in 1 .. installs => i \in 1 .. installs'
    BY <2>1
  <2>6. CallTypes'
    BY <1>1, <2>5 DEF CallTypes, Holds, Install
  <2>7. timers' \subseteq 1 .. installs'
    BY <1>1, <2>1, <2>5 DEF Install, RowTypes
  <2>8. reactor' = Upserted(new) /\ scope' = scope /\ owed' = Initial
    BY <1>1 DEF Install
  <2> HIDE DEF new
  <2> QED BY <2>1, <2>4, <2>6, <2>7, <2>8, InitialState DEF RowTypes
<1>2. ASSUME NEW id \in Ids, RemoveReactor(id) PROVE ReactorTypes'
  <2>1. timers' \subseteq timers /\ reactor' \in {reactor, NoReactor}
        /\ UNCHANGED <<scope, installs, task, owed>>
    BY <1>2 DEF RemoveReactor
  <2> QED BY <1>0, <2>1 DEF RowTypes
<1>3. ASSUME NEW r \in Watched, NEW m \in Facts, Post(r, m) PROVE ReactorTypes'
  <2> DEFINE t == [step |-> "read", rec |-> reactor, msg |-> m]
  <2>1. r \in Callers /\ t.step = "read" /\ t.msg = m /\ Holds(t) /\ r \in scope
    BY <1>3, CallersApart DEF Post, Holds, RowTypes
  <2>2. task' = [task EXCEPT ![r] = t]
    BY <1>3 DEF Post
  <2> HIDE DEF t
  <2> QED BY <1>3, <2>1, <2>2, CallTypesKept DEF Post, RowTypes
<1>4. ASSUME NEW r \in Watched, Fold(r) PROVE ReactorTypes'
  <2>1. r \in Callers /\ task[r] # Idle /\ r \in scope
    BY <1>4, CallersApart, IdleHasNoCall DEF Fold, CallTypes
  <2> DEFINE rec  == task[r].rec
             msg  == task[r].msg
             next == [rec EXCEPT !.state = Observed(rec.spec, @, msg)]
  <2>2. rec \in Rows /\ rec.id \in 1 .. installs /\ msg \in Facts
    BY <1>4, <2>1 DEF Fold, CallTypes, Holds
  <2>3. Observed(rec.spec, rec.state, msg) \in States
    BY <2>2, RowFacts, ObservedFacts
  <2>4. next \in Rows /\ next.id = rec.id
    BY <2>2, <2>3, RowFacts
  <2>5. Upserted(next) \in Rows /\ Upserted(next).id \in 1 .. installs
    BY <2>2, <2>4, UpsertedFacts
  <2>6. owed' \in States
    BY <1>4, <2>2, ObservedFacts DEF Fold, RowTypes
  <2>7. PICK t : task' = [task EXCEPT ![r] = t] /\ t \in {[step |-> "firing", rec |-> next], Idle}
    BY <1>4 DEF Fold
  <2>8. (t = Idle \/ (Holds(t) /\ r \in scope)) /\ t.step # "read"
    <3> HIDE DEF next, rec, msg
    <3> QED BY <2>1, <2>2, <2>4, <2>7, IdleHasNoCall DEF Holds
  <2>9. CallTypes'
    BY <1>4, <2>1, <2>7, <2>8, CallTypesKept DEF Fold
  <2>10. /\ reactor' \in {reactor, Upserted(next)}
         /\ timers' \subseteq timers \cup {rec.id}
         /\ UNCHANGED <<scope, installs>>
    BY <1>4 DEF Fold
  <2> QED BY <2>2, <2>5, <2>6, <2>9, <2>10 DEF RowTypes
<1>5. ASSUME NEW id \in Ids, Ring(id) PROVE ReactorTypes'
  <2>1. id \in Callers /\ id \notin Watched
    BY CallersApart
  <2>2. PICK t : /\ task' = [task EXCEPT ![id] = t]
                 /\ t = Idle \/ (reactor # NoReactor /\ t = [step |-> "read", rec |-> reactor])
    BY <1>5 DEF Ring
  <2>3. t = Idle \/ Holds(t)
    BY <2>2 DEF Holds, RowTypes
  <2> QED BY <1>5, <2>1, <2>2, <2>3, CallTypesKept DEF Ring, RowTypes
<1>6. ASSUME NEW id \in Ids, Mark(id) PROVE ReactorTypes'
  <2>1. id \in Callers /\ task[id] # Idle /\ id \notin Watched
    BY <1>6, CallersApart, IdleHasNoCall DEF Mark
  <2> DEFINE rec  == task[id].rec
             next == [rec EXCEPT !.state = MarkDue(rec.spec, @)]
  <2>2. rec \in Rows /\ rec.id \in 1 .. installs
    BY <1>6, <2>1 DEF Mark, CallTypes, Holds
  <2>4. next \in Rows /\ next.id = rec.id
    BY <2>2, RowFacts, MarkFacts
  <2>5. Upserted(next) \in Rows /\ Upserted(next).id \in 1 .. installs
    BY <2>2, <2>4, UpsertedFacts
  <2>6. owed' \in States
    BY <1>6, MarkFacts DEF Mark, RowTypes
  <2>7. PICK t : task' = [task EXCEPT ![id] = t] /\ t \in {[step |-> "firing", rec |-> next], Idle}
    BY <1>6 DEF Mark
  <2>8. t = Idle \/ Holds(t)
    <3> HIDE DEF next, rec
    <3> QED BY <2>2, <2>4, <2>7 DEF Holds
  <2>9. CallTypes'
    BY <1>6, <2>1, <2>7, <2>8, CallTypesKept DEF Mark
  <2>10. reactor' = Upserted(next) /\ UNCHANGED <<scope, installs, timers>>
    BY <1>6 DEF Mark
  <2> QED BY <2>5, <2>6, <2>9, <2>10 DEF RowTypes
<1>7. ASSUME NEW c \in Callers, Fire(c) PROVE ReactorTypes'
  <2>1. task[c] # Idle
    BY <1>7, IdleHasNoCall DEF Fire
  <2> DEFINE next == [task[c].rec EXCEPT !.state = OnWake(@)]
  <2>2. task[c].rec \in Rows /\ task[c].rec.id \in 1 .. installs
    BY <1>7, <2>1 DEF Fire, CallTypes, Holds
  <2>3. next \in Rows /\ next.id = task[c].rec.id
    BY <2>2, RowFacts, InitialState DEF OnWake
  <2>4. Upserted(next) \in Rows /\ Upserted(next).id \in 1 .. installs
    BY <2>2, <2>3, UpsertedFacts
  <2>5. owed' \in States
    BY <1>7, InitialState DEF Fire, OnWake, RowTypes
  <2>6. /\ reactor' \in {reactor, Upserted(next)} /\ UNCHANGED <<scope, installs, timers>>
        /\ task' = [task EXCEPT ![c] = Idle]
    BY <1>7 DEF Fire
  <2>7. CallTypes'
    BY <2>6, CallTypesKept, IdleHasNoCall
  <2> QED BY <2>4, <2>5, <2>6, <2>7 DEF RowTypes
<1>8. CASE Reboot
  <2>1. /\ task' = [c \in Callers |-> Idle] /\ timers' = {}
        /\ UNCHANGED <<scope, reactor, installs, owed>>
    BY <1>8 DEF Reboot
  <2>2. \A c \in Callers : task'[c] = Idle
    BY <2>1
  <2>3. CallTypes'
    BY <2>1, <2>2, CallersApart, IdleHasNoCall DEF CallTypes
  <2> QED BY <2>1, <2>3 DEF RowTypes
<1>9. CASE UNCHANGED reactorVars
  BY <1>0, <1>9 DEF reactorVars, RowTypes
<1> QED BY <1>1, <1>2, <1>3, <1>4, <1>5, <1>6, <1>7, <1>8, <1>9 DEF ReactorNext

(* A call that goes on or ends leaves no more calls in flight than there were with it. *)
LEMMA InFlightAfter ==
  ASSUME CallTypes, NEW c \in Callers, NEW t, task' = [task EXCEPT ![c] = t]
  PROVE  /\ \A d \in InFlight' : d = c \/ (d # c /\ d \in InFlight /\ task'[d] = task[d])
         /\ t = Idle => c \notin InFlight'
         /\ task'[c] = t
         /\ \A d \in Callers : d # c => task'[d] = task[d]
BY OneCallMoves DEF CallTypes, InFlight

(* Undisturbed, whoever folds, marks or fires writes the row the reactor already has
   under its own id. *)
LEMMA WritesItsRow ==
  ASSUME ReactorTypes, Undisturbed, NEW c \in InFlight, NEW s \in States
  PROVE  /\ reactor # NoReactor /\ reactor \in Rows
         /\ task[c].rec.spec = reactor.spec /\ task[c].rec.id = reactor.id
         /\ task[c].rec \in Rows
         /\ [task[c].rec EXCEPT !.state = s] \in Rows
         /\ [task[c].rec EXCEPT !.state = s].id = reactor.id
         /\ [task[c].rec EXCEPT !.state = s].spec = reactor.spec
         /\ [task[c].rec EXCEPT !.state = s].state = s
         /\ Upserted([task[c].rec EXCEPT !.state = s]) = [task[c].rec EXCEPT !.state = s]
<1>1. c \in Callers /\ task[c] # Idle
  BY DEF InFlight
<1>2. task[c].rec \in Rows /\ task[c].rec.id \in 1 .. installs
  BY <1>1 DEF ReactorTypes, CallTypes, Holds
<1>3. /\ reactor # NoReactor /\ reactor \in Rows
      /\ task[c].rec.spec = reactor.spec /\ task[c].rec.id = reactor.id
  BY DEF Undisturbed, ReactorTypes, RowTypes
<1>4. /\ [task[c].rec EXCEPT !.state = s] \in Rows
      /\ [task[c].rec EXCEPT !.state = s].id = reactor.id
      /\ [task[c].rec EXCEPT !.state = s].spec = reactor.spec
      /\ [task[c].rec EXCEPT !.state = s].state = s
  BY <1>2, <1>3, RowFacts
<1>5. Upserted([task[c].rec EXCEPT !.state = s]) = [task[c].rec EXCEPT !.state = s]
  BY <1>2, <1>3, <1>4, UpsertedFacts
<1> QED BY <1>2, <1>3, <1>4, <1>5

(* A step of one call, told by what it does to the row, the fold that is owed and the
   timers. *)
LEMMA OneCallUndisturbed ==
  ASSUME ReactorTypes, Undisturbed, UNCHANGED scope,
         NEW c \in InFlight, NEW t, task' = [task EXCEPT ![c] = t],
         reactor' \in Rows, reactor'.id = reactor.id, reactor'.spec = reactor.spec,
         t # Idle => /\ t.rec.id = reactor.id /\ t.rec.spec = reactor.spec
                     /\ Timed(reactor.spec) => t.rec.state.seen = {}
                     /\ Cardinality(scope) = 1 /\ ~Timed(reactor.spec) => t.rec = reactor',
         Timed(reactor.spec) => reactor'.state.seen = {},
         ~Timed(reactor.spec) => timers' \subseteq timers,
         Cardinality(scope) = 1 => reactor'.state = owed'
  PROVE  Undisturbed'
<1>1. /\ \A d \in InFlight' : d = c \/ (d # c /\ d \in InFlight /\ task'[d] = task[d])
      /\ t = Idle => c \notin InFlight'
      /\ task'[c] = t
      /\ \A d \in Callers : d # c => task'[d] = task[d]
  BY InFlightAfter DEF ReactorTypes, InFlight
<1>2. reactor # NoReactor /\ reactor' # NoReactor
  BY CallersApart DEF Undisturbed
<1>3. \A d \in InFlight' : /\ task'[d].rec.id = reactor'.id /\ task'[d].rec.spec = reactor'.spec
  BY <1>1 DEF Undisturbed
<1>4. ~Timed(reactor.spec) => reactor'.id \notin timers' /\ \A d \in Ids : task'[d] = Idle
  BY <1>1, <1>2, CallersApart DEF Undisturbed, InFlight
<1>5. Timed(reactor.spec) => reactor'.state.seen = {} /\ \A d \in InFlight' : task'[d].rec.state.seen = {}
  BY <1>1, <1>2 DEF Undisturbed
<1>6. ASSUME Cardinality(scope) = 1, ~Timed(reactor.spec), NEW d \in InFlight'
      PROVE  task'[d].rec = reactor'
  <2>1. c \in scope
    BY <1>2, <1>6, CallersApart DEF Undisturbed, InFlight, ReactorTypes, CallTypes
  <2>2. scope = {c}
    BY <2>1, <1>6, CallersApart DEF ReactorTypes, RowTypes
  <2>3. d \in InFlight => d = c
    BY <1>2, <1>6, <2>2, CallersApart DEF Undisturbed, InFlight, ReactorTypes, CallTypes
  <2> QED BY <1>1, <1>6, <2>3
<1> QED BY <1>2, <1>3, <1>4, <1>5, <1>6 DEF Undisturbed

(* Installing, undisturbed, is when no call is in flight and no timer rings for the row
   that is there: the new fold starts from nothing. *)
LEMMA InstallUndisturbed ==
  ASSUME ReactorTypes, NEW spec \in ReactorSpecs, Install(spec), ~disturbed'
  PROVE  Undisturbed'
<1> DEFINE new == [id |-> installs', spec |-> spec, state |-> Initial]
<1>1. InFlight = {} /\ (reactor # NoReactor => reactor.id \notin timers)
  BY DEF Install
<1>2. \A c \in Callers : task'[c] = Idle
  BY <1>1 DEF Install, InFlight
<1>3. InFlight' = {}
  BY <1>2 DEF InFlight
<1>4. installs' \in Ids /\ installs' \notin timers /\ installs' = installs + 1
  BY ReactorAssumption DEF Install, ReactorTypes, RowTypes, Ids
<1>5. new \in Rows /\ new.id = installs' /\ new.spec = spec /\ new.state = Initial
  BY <1>4, InitialState DEF Rows
<1>6. /\ Upserted(new).spec = spec /\ Upserted(new).state = Initial
      /\ Upserted(new).id = IF reactor = NoReactor THEN installs' ELSE reactor.id
  <2> HIDE DEF new
  <2> QED BY <1>4, <1>5, RowFacts DEF Upserted, ReactorTypes, RowTypes, Rows
<1>7. /\ reactor'.spec = spec /\ reactor'.state = Initial
      /\ reactor'.id = IF reactor = NoReactor THEN installs' ELSE reactor.id
  BY <1>6 DEF Install
<1>8. ~Timed(spec) => reactor'.id \notin timers'
  BY <1>1, <1>4, <1>7 DEF Install, Timed
<1>9. owed' = Initial
  BY DEF Install
<1> QED BY <1>2, <1>3, <1>7, <1>8, <1>9, InitialState, CallersApart DEF Undisturbed

(* The write after a fold: of one Conversation, it stores the fold of the very state
   that was stored; with timers, it stores no more than the flag. *)
LEMMA FoldUndisturbed ==
  ASSUME ReactorTypes, Undisturbed, NEW r \in Watched, Fold(r)
  PROVE  Undisturbed'
<1> DEFINE rec == task[r].rec
           msg == task[r].msg
           s   == Observed(rec.spec, rec.state, msg)
           u   == Observed(rec.spec, owed, msg)
           next == [rec EXCEPT !.state = s]
<1>1. r \in Callers /\ r \in InFlight /\ r \in scope
  BY CallersApart, IdleHasNoCall DEF Fold, InFlight, ReactorTypes, CallTypes
<1>2. msg \in Facts
  BY DEF Fold, ReactorTypes, CallTypes
<1>3. rec \in Rows /\ rec.state \in States /\ rec.spec = reactor.spec /\ rec.id = reactor.id
  BY <1>1, WritesItsRow, InitialState, RowFacts
<1>4. s \in States /\ u \in States
  BY <1>2, <1>3, ObservedFacts DEF ReactorTypes, RowTypes
<1>5. /\ reactor # NoReactor /\ reactor \in Rows /\ next \in Rows /\ next.id = reactor.id
      /\ next.spec = reactor.spec /\ next.state = s /\ Upserted(next) = next
  BY <1>1, <1>4, WritesItsRow
<1>6. Timed(reactor.spec) => rec.state.seen = {} /\ reactor.state.seen = {}
  BY <1>1, <1>5 DEF Undisturbed
<1>7. Cardinality(scope) = 1 => reactor.state = owed /\ (~Timed(reactor.spec) => rec = reactor)
  BY <1>1, <1>5 DEF Undisturbed
<1>8. /\ UNCHANGED scope /\ owed' = u
      /\ reactor' = IF next # rec \/ rec.spec.name = "debounce" THEN Upserted(next) ELSE reactor
      /\ timers' = IF rec.spec.name = "debounce" THEN timers \cup {rec.id} ELSE timers
      /\ task' = [task EXCEPT ![r] = IF Ready(rec.spec, next.state)
                                       THEN [step |-> "firing", rec |-> next] ELSE Idle]
  BY DEF Fold
<1> DEFINE t == IF Ready(rec.spec, next.state) THEN [step |-> "firing", rec |-> next] ELSE Idle
<1>9. /\ task' = [task EXCEPT ![r] = t]
      /\ t # Idle => t.rec = next
  BY <1>8
<1>10. ~Timed(reactor.spec) => timers' \subseteq timers
  BY <1>3, <1>8 DEF Timed
<1>11. /\ rec.spec.name = "debounce" => /\ s = [seen |-> rec.state.seen, flag |-> FALSE]
                                        /\ u = [seen |-> owed.seen, flag |-> FALSE]
       /\ Timed(rec.spec) /\ rec.spec.name # "debounce" => s = rec.state /\ u = owed
       /\ rec.spec.name = "debounce" => Timed(rec.spec)
  BY <1>2, <1>3, ObservedFacts DEF ReactorTypes, RowTypes, Timed
<1>12. Timed(rec.spec) => s.seen = {}
  BY <1>3, <1>6, <1>11
<1>13. Cardinality(scope) = 1 /\ ~Timed(reactor.spec) => s = u
  BY <1>7
<1> HIDE DEF next, s, u, msg, t
<1>14. CASE next # rec \/ rec.spec.name = "debounce"
  <2>1. reactor' = next
    BY <1>5, <1>8, <1>14
  <2>2. Cardinality(scope) = 1 /\ Timed(reactor.spec) => s = u
    <3>1. rec.spec.name # "debounce" => next # rec
      BY <1>14
    <3>2. Timed(rec.spec) /\ rec.spec.name # "debounce" => next = rec
      BY <1>3, <1>4, <1>5, <1>11, RowsDiffer
    <3> QED BY <1>3, <1>6, <1>7, <1>11, <3>1, <3>2
  <2>3. t # Idle => /\ t.rec.id = reactor.id /\ t.rec.spec = reactor.spec
                    /\ Timed(reactor.spec) => t.rec.state.seen = {}
                    /\ Cardinality(scope) = 1 /\ ~Timed(reactor.spec) => t.rec = reactor'
    BY <1>3, <1>5, <1>9, <1>12, <2>1
  <2>4. /\ Timed(reactor.spec) => reactor'.state.seen = {}
        /\ Cardinality(scope) = 1 => reactor'.state = owed'
    BY <1>3, <1>5, <1>8, <1>12, <1>13, <2>1, <2>2
  <2>5. reactor' \in Rows /\ reactor'.id = reactor.id /\ reactor'.spec = reactor.spec
    BY <1>5, <2>1
  <2> QED BY <1>1, <1>8, <1>9, <1>10, <2>3, <2>4, <2>5, OneCallUndisturbed
<1>15. CASE next = rec /\ rec.spec.name # "debounce"
  <2>1. reactor' = reactor /\ s = rec.state
    BY <1>5, <1>8, <1>15
  <2>2. reactor.state \in States
    BY <1>5, RowFacts
  <2>3. Cardinality(scope) = 1 => reactor.state = u
    <3>1. CASE Timed(rec.spec)
      BY <1>7, <1>11, <1>15, <3>1
    <3>2. CASE ~Timed(rec.spec)
      BY <1>3, <1>7, <1>13, <2>1, <3>2
    <3> QED BY <3>1, <3>2
  <2>4. t # Idle => /\ t.rec.id = reactor.id /\ t.rec.spec = reactor.spec
                    /\ Timed(reactor.spec) => t.rec.state.seen = {}
                    /\ Cardinality(scope) = 1 /\ ~Timed(reactor.spec) => t.rec = reactor'
    BY <1>3, <1>6, <1>7, <1>9, <1>15, <2>1
  <2>5. /\ Timed(reactor.spec) => reactor'.state.seen = {}
        /\ Cardinality(scope) = 1 => reactor'.state = owed'
    BY <1>6, <1>8, <2>1, <2>3
  <2> QED BY <1>1, <1>5, <1>8, <1>9, <1>10, <2>1, <2>4, <2>5, OneCallUndisturbed
<1> QED BY <1>14, <1>15

(* A timer only rings for a reactor that has one; it sets the flag of whatever it read. *)
LEMMA MarkUndisturbed ==
  ASSUME ReactorTypes, Undisturbed, NEW id \in Ids, Mark(id)
  PROVE  Undisturbed'
<1> DEFINE rec == task[id].rec
           s   == MarkDue(rec.spec, rec.state)
           u   == MarkDue(rec.spec, owed)
           next == [rec EXCEPT !.state = s]
<1>1. id \in Callers /\ id \in InFlight /\ task[id] # Idle
  BY CallersApart, IdleHasNoCall DEF Mark, InFlight
<1>3. rec \in Rows /\ rec.state \in States /\ rec.spec = reactor.spec /\ rec.id = reactor.id
  BY <1>1, WritesItsRow, InitialState, RowFacts
<1>4. s \in States /\ u \in States
  BY <1>3, MarkFacts DEF ReactorTypes, RowTypes
<1>5. /\ reactor # NoReactor /\ reactor \in Rows /\ next \in Rows /\ next.id = reactor.id
      /\ next.spec = reactor.spec /\ next.state = s /\ Upserted(next) = next
  BY <1>1, <1>4, WritesItsRow
<1>6. Timed(reactor.spec) /\ rec.state.seen = {} /\ reactor.state.seen = {}
  BY <1>1, <1>5 DEF Undisturbed
<1>7. Cardinality(scope) = 1 => reactor.state = owed
  BY <1>5 DEF Undisturbed
<1>8. /\ UNCHANGED scope /\ owed' = u /\ reactor' = next
      /\ task' = [task EXCEPT ![id] = IF Ready(rec.spec, next.state)
                                       THEN [step |-> "firing", rec |-> next] ELSE Idle]
  BY <1>5 DEF Mark
<1> DEFINE t == IF Ready(rec.spec, next.state) THEN [step |-> "firing", rec |-> next] ELSE Idle
<1>9. /\ task' = [task EXCEPT ![id] = t]
      /\ t # Idle => t.rec = next
  BY <1>8
<1>10. /\ s = [seen |-> rec.state.seen, flag |-> TRUE]
       /\ u = [seen |-> owed.seen, flag |-> TRUE]
  BY <1>3, <1>6, MarkFacts DEF ReactorTypes, RowTypes
<1> HIDE DEF next, s, u, t
<1>11. s.seen = {} /\ (Cardinality(scope) = 1 => s = u)
  BY <1>6, <1>7, <1>10
<1> QED BY <1>1, <1>3, <1>4, <1>5, <1>6, <1>8, <1>9, <1>11, OneCallUndisturbed

(* A wake that is delivered starts the row and the fold that is owed over; one that is
   refused leaves both. *)
LEMMA FireUndisturbed ==
  ASSUME ReactorTypes, Undisturbed, NEW c \in Callers, Fire(c)
  PROVE  Undisturbed'
<1> DEFINE next == [task[c].rec EXCEPT !.state = Initial]
<1>1. c \in InFlight
  BY IdleHasNoCall DEF Fire, InFlight
<1>2. /\ reactor # NoReactor /\ reactor \in Rows /\ next \in Rows /\ next.id = reactor.id
      /\ next.spec = reactor.spec /\ next.state = Initial /\ Upserted(next) = next
  BY <1>1, InitialState, WritesItsRow
<1>3. /\ UNCHANGED <<scope, timers>> /\ task' = [task EXCEPT ![c] = Idle]
      /\ \/ reactor' = next /\ owed' = Initial
         \/ UNCHANGED <<reactor, owed>>
  BY <1>2 DEF Fire, OnWake
<1>4. reactor.state \in States /\ owed \in States
  BY <1>2, RowFacts DEF ReactorTypes, RowTypes
<1>5. /\ Timed(reactor.spec) => reactor.state.seen = {}
      /\ Cardinality(scope) = 1 => reactor.state = owed
  BY <1>2 DEF Undisturbed
<1> HIDE DEF next
<1>6. CASE reactor' = next /\ owed' = Initial
  BY <1>1, <1>2, <1>3, <1>6, InitialState, OneCallUndisturbed
<1>7. CASE UNCHANGED <<reactor, owed>>
  BY <1>1, <1>2, <1>3, <1>4, <1>5, <1>7, OneCallUndisturbed
<1> QED BY <1>3, <1>6, <1>7

(* A step that leaves the session undisturbed keeps what being undisturbed means. *)
LEMMA UndisturbedKept ==
  ASSUME FoldInv, [ReactorNext]_reactorVars, ~disturbed'
  PROVE  Undisturbed'
<1> USE DEF FoldInv
<1>1. ASSUME NEW spec \in ReactorSpecs, Install(spec) PROVE Undisturbed'
  BY <1>1, InstallUndisturbed
<1>2. ASSUME NEW id \in Ids, RemoveReactor(id) PROVE Undisturbed'
  <2>1. /\ Undisturbed /\ InFlight = {}
        /\ UNCHANGED <<scope, task, owed>> /\ timers' \subseteq timers
        /\ reactor' \in {reactor, NoReactor}
    BY <1>2 DEF RemoveReactor
  <2>2. InFlight' = {}
    BY <2>1 DEF InFlight
  <2> QED BY <2>1, <2>2 DEF Undisturbed
<1>3. ASSUME NEW r \in Watched, NEW m \in Facts, Post(r, m) PROVE Undisturbed'
  <2> DEFINE t == [step |-> "read", rec |-> reactor, msg |-> m]
  <2>1. Undisturbed /\ r \in Callers /\ r \notin Ids
    BY <1>3, CallersApart DEF Post
  <2>2. /\ \A d \in InFlight' : d = r \/ (d # r /\ d \in InFlight /\ task'[d] = task[d])
        /\ task'[r].rec = reactor
        /\ \A d \in Callers : d # r => task'[d] = task[d]
    <3>1. t.rec = reactor /\ task' = [task EXCEPT ![r] = t]
      BY <1>3 DEF Post
    <3> HIDE DEF t
    <3> QED BY <2>1, <3>1, InFlightAfter DEF ReactorTypes
  <2>3. UNCHANGED <<scope, reactor, timers, owed>>
    BY <1>3 DEF Post
  <2>4. reactor # NoReactor /\ NoReactor' = NoReactor
    BY <1>3 DEF Post
  <2>5. ASSUME NEW d \in InFlight'
        PROVE  /\ task'[d].rec.id = reactor.id /\ task'[d].rec.spec = reactor.spec
               /\ Timed(reactor.spec) => task'[d].rec.state.seen = {}
               /\ Cardinality(scope) = 1 /\ ~Timed(reactor.spec) => task'[d].rec = reactor
    <3>1. CASE d = r
      BY <2>1, <2>2, <2>4, <3>1 DEF Undisturbed
    <3>2. CASE d \in InFlight /\ task'[d] = task[d]
      BY <2>1, <2>4, <3>2 DEF Undisturbed
    <3> QED BY <2>2, <2>5, <3>1, <3>2
  <2>6. ~Timed(reactor.spec) => \A d \in Ids : task'[d] = Idle
    BY <2>1, <2>2, <2>4, CallersApart DEF Undisturbed
  <2> QED BY <2>1, <2>3, <2>4, <2>5, <2>6 DEF Undisturbed
<1>4. ASSUME NEW r \in Watched, Fold(r) PROVE Undisturbed'
  BY <1>4, FoldUndisturbed DEF Fold
<1>5. ASSUME NEW id \in Ids, Ring(id) PROVE Undisturbed'
  <2>1. Undisturbed /\ id \in Callers /\ id \in timers
    BY <1>5, CallersApart DEF Ring
  <2> DEFINE t == IF reactor # NoReactor /\ reactor.id = id
                    THEN [step |-> "read", rec |-> reactor] ELSE Idle
  <2>2. /\ task' = [task EXCEPT ![id] = t]
        /\ t # Idle => reactor # NoReactor /\ reactor.id = id /\ t.rec = reactor
    BY <1>5 DEF Ring
  <2> HIDE DEF t
  <2>3. /\ \A d \in InFlight' : d = id \/ (d # id /\ d \in InFlight /\ task'[d] = task[d])
        /\ t = Idle => id \notin InFlight'
        /\ task'[id] = t
        /\ \A d \in Callers : d # id => task'[d] = task[d]
    BY <2>1, <2>2, InFlightAfter DEF ReactorTypes
  <2>4. UNCHANGED <<scope, reactor, owed>> /\ timers' \subseteq timers
    BY <1>5 DEF Ring
  <2>5. t # Idle => Timed(reactor.spec)
    BY <2>1, <2>2 DEF Undisturbed
  <2> QED BY <2>1, <2>2, <2>3, <2>4, <2>5, CallersApart DEF Undisturbed
<1>6. ASSUME NEW id \in Ids, Mark(id) PROVE Undisturbed'
  BY <1>6, MarkUndisturbed DEF Mark
<1>7. ASSUME NEW c \in Callers, Fire(c) PROVE Undisturbed'
  BY <1>7, FireUndisturbed DEF Fire
<1>8. CASE Reboot
  <2>1. /\ Undisturbed /\ \A c \in Callers : task'[c] = Idle
        /\ UNCHANGED <<scope, reactor, owed>> /\ timers' = {}
    BY <1>8 DEF Reboot
  <2>2. InFlight' = {}
    BY <2>1 DEF InFlight
  <2> QED BY <2>1, <2>2, CallersApart DEF Undisturbed
<1>9. CASE UNCHANGED reactorVars
  BY <1>9 DEF reactorVars, Undisturbed, InFlight
<1> QED BY <1>1, <1>2, <1>3, <1>4, <1>5, <1>6, <1>7, <1>8, <1>9 DEF ReactorNext

(* The invariant holds before anything is installed. *)
LEMMA ReactorInitInv == ReactorInit => FoldInv
<1> SUFFICES ASSUME ReactorInit PROVE FoldInv
  OBVIOUS
<1>1. \A c \in Callers : task[c] = Idle
  BY DEF ReactorInit
<1>2. CallTypes
  BY <1>1, CallersApart, IdleHasNoCall DEF ReactorInit, CallTypes
<1>3. RowTypes
  BY ReactorAssumption, InitialState DEF ReactorInit, RowTypes
<1>4. Undisturbed
  BY <1>1 DEF ReactorInit, Undisturbed, InFlight
<1> QED BY <1>2, <1>3, <1>4 DEF FoldInv, ReactorTypes

(* The reactor's row, its timers and the calls under way have their types, and no id is
   used that was not handed out. *)
THEOREM ReactorTypesAlwaysOK == ReactorSpec => []ReactorTypeOK
<1>1. FoldInv /\ [ReactorNext]_reactorVars => FoldInv'
  BY TypesKept, UndisturbedKept DEF FoldInv
<1>2. FoldInv => ReactorTypeOK
  BY ReactorAssumption DEF FoldInv, ReactorTypes, RowTypes, ReactorTypeOK, Ids
<1> QED BY <1>1, <1>2, ReactorInitInv, PTL DEF ReactorSpec

(* Whoever completes, times out or restarts meanwhile, a reactor over one Conversation
   that nothing disturbed holds, when no call is in flight, exactly the fold of every
   completion, cause and timer: none is lost between a read and its write. *)
THEOREM FoldsExactlyAlways == ReactorSpec => []FoldedExactly
<1>1. FoldInv /\ [ReactorNext]_reactorVars => FoldInv'
  BY TypesKept, UndisturbedKept DEF FoldInv
<1>2. FoldInv => FoldedExactly
  BY DEF FoldInv, Undisturbed, FoldedExactly
<1> QED BY <1>1, <1>2, ReactorInitInv, PTL DEF ReactorSpec

-----------------------------------------------------------------------------
(* Triggers *)

\* Only triggers that are on file and enabled have a timer; a trigger somebody fires or
\* provisions, or that ever had a worker, has been made.
TriggerInv ==
  /\ file \in [TriggerIds -> {"unmade", "on", "off", "removed"}]
  /\ target \in [TriggerIds -> Nat]
  /\ armed \subseteq Scheduled /\ ArmedIsEnabled
  /\ owner \in Seq(TriggerIds)
  /\ alive \cup backing \cup rows \subseteq 1 .. Len(owner)
  /\ call = [c \in Calls |-> call[c]]
  /\ \A c \in Calls : call[c] = [op |-> call[c].op, on |-> call[c].on, at |-> call[c].at]
  /\ \A c \in Calls : call[c].op \in {"fire", "provision"} =>
       /\ call[c].on \in TriggerIds /\ file[call[c].on] # "unmade"
       /\ session = "live" => loaded
  /\ \A w \in 1 .. Len(owner) : file[owner[w]] # "unmade"

\* What a trigger records is a worker of its own.
TargetInv ==
  \A t \in TriggerIds : target[t] # 0 => target[t] \in 1 .. Len(owner) /\ owner[target[t]] = t

\* While the session lives, a trigger that stands records the last worker spawned for
\* it, and that is the only one of its workers that runs without having come back late.
WorkerInv ==
  session = "live" =>
    /\ \A w \in 1 .. Len(owner) : OnFile(owner[w]) => w <= target[owner[w]]
    /\ \A w \in alive \ revived : OnFile(owner[w]) => w = target[owner[w]]

(* Nothing is under way where no call is. *)
LEMMA NoCallIsNoOp ==
  /\ NoCall.op = "none" /\ NoCall.at = "idle"
  /\ NoCall = [op |-> NoCall.op, on |-> NoCall.on, at |-> NoCall.at]
BY DEF NoCall

(* Whatever is armed is scheduled, and enabled. *)
LEMMA ArmFacts ==
  ASSUME NEW f \in [TriggerIds -> {"unmade", "on", "off", "removed"}], Arm(f)
  PROVE  armed' \subseteq Scheduled /\ \A t \in armed' : f[t] = "on"
BY DEF Arm

(* Both parts hold of a session without triggers or workers of its own. *)
LEMMA TriggerInitInv == TriggerInit => TriggerInv /\ TargetInv /\ WorkerInv
<1> SUFFICES ASSUME TriggerInit PROVE TriggerInv /\ TargetInv /\ WorkerInv
  OBVIOUS
<1>1. Len(owner) = 0 /\ owner \in Seq(TriggerIds) /\ alive = {} /\ backing = {} /\ rows = {}
  BY DEF TriggerInit
<1>2. \A c \in Calls : call[c].op = "none"
  BY NoCallIsNoOp DEF TriggerInit
<1>3. ArmedIsEnabled /\ armed \subseteq Scheduled
  BY TriggerAssumption DEF TriggerInit, ArmedIsEnabled
<1>4. /\ file \in [TriggerIds -> {"unmade", "on", "off", "removed"}]
      /\ target \in [TriggerIds -> Nat] /\ call = [c \in Calls |-> NoCall]
  BY DEF TriggerInit
<1>5. /\ call = [c \in Calls |-> call[c]]
      /\ \A c \in Calls : call[c] = [op |-> call[c].op, on |-> call[c].on, at |-> call[c].at]
  BY <1>4, NoCallIsNoOp
<1>6. TriggerInv
  BY <1>1, <1>2, <1>3, <1>4, <1>5 DEF TriggerInv
<1>7. WorkerInv
  BY <1>1 DEF WorkerInv
<1>8. TargetInv
  BY DEF TriggerInit, TargetInv
<1> QED BY <1>6, <1>7, <1>8

(* What the calls under way name has been made, whichever of them moves. *)
LEMMA CallMoves ==
  ASSUME TriggerInv, NEW c \in Calls, NEW k, call' = [call EXCEPT ![c] = k],
         k = [op |-> k.op, on |-> k.on, at |-> k.at],
         file' = file, session' = session, loaded => loaded',
         k.op \in {"fire", "provision"} =>
           /\ k.on \in TriggerIds /\ file[k.on] # "unmade"
           /\ session = "live" => loaded'
  PROVE  /\ call' = [d \in Calls |-> call'[d]]
         /\ \A d \in Calls : call'[d] = [op |-> call'[d].op, on |-> call'[d].on,
                                         at |-> call'[d].at]
         /\ \A d \in Calls : call'[d].op \in {"fire", "provision"} =>
              /\ call'[d].on \in TriggerIds /\ file'[call'[d].on] # "unmade"
              /\ session' = "live" => loaded'
BY DEF TriggerInv

(* Every event and every continuation of a call keeps the first part. *)
LEMMA TriggerInvKept ==
  ASSUME TriggerInv, [TriggerNext]_triggerVars
  PROVE  TriggerInv'
<1> DEFINE CallsOK == /\ call = [c \in Calls |-> call[c]]
                      /\ \A c \in Calls : call[c] = [op |-> call[c].op, on |-> call[c].on,
                                                   at |-> call[c].at]
                      /\ \A c \in Calls : call[c].op \in {"fire", "provision"} =>
                           /\ call[c].on \in TriggerIds /\ file[call[c].on] # "unmade"
                           /\ session = "live" => loaded
           Rest == /\ file \in [TriggerIds -> {"unmade", "on", "off", "removed"}]
                   /\ target \in [TriggerIds -> Nat]
                   /\ armed \subseteq Scheduled /\ \A t \in armed : file[t] = "on"
                   /\ owner \in Seq(TriggerIds)
                   /\ alive \cup backing \cup rows \subseteq 1 .. Len(owner)
                   /\ \A w \in 1 .. Len(owner) : file[owner[w]] # "unmade"
<1>0. (TriggerInv <=> CallsOK /\ Rest) /\ CallsOK /\ Rest
  BY DEF TriggerInv, ArmedIsEnabled
<1>00. TriggerInv' <=> CallsOK' /\ Rest'
  BY DEF TriggerInv, ArmedIsEnabled
<1>1. ASSUME NEW c \in Calls, NEW t \in TriggerIds, NEW flag \in {"on", "off"}, CreateTrigger(c, t, flag)
      PROVE  TriggerInv'
  <2>1. file' = [file EXCEPT ![t] = flag] /\ loaded' = TRUE /\ session' = session
        /\ UNCHANGED <<target, owner, alive, backing, rows>>
    BY <1>1 DEF CreateTrigger
  <2>2. /\ file' \in [TriggerIds -> {"unmade", "on", "off", "removed"}]
        /\ \A u \in TriggerIds : file[u] # "unmade" => file'[u] # "unmade"
        /\ \A u \in TriggerIds : file[u] = "on" => file'[u] = "on"
        /\ file'[t] # "unmade"
    BY <1>1, <2>1 DEF TriggerInv, CreateTrigger
  <2>3. armed' \subseteq Scheduled /\ \A u \in armed' : file'[u] = "on"
    <3>1. CASE UNCHANGED <<armed, age>>
      BY <3>1, <2>2, TriggerAssumption DEF TriggerInv, ArmedIsEnabled
    <3>2. CASE Arm(file')
      BY <3>2, <2>2, ArmFacts
    <3> QED BY <1>1, <3>1, <3>2 DEF CreateTrigger
  <2>4. Rest'
    BY <1>0, <2>1, <2>2, <2>3
  <2>5. CallsOK'
    <3>1. CASE UNCHANGED call
      BY <1>0, <2>1, <2>2, <3>1
    <3>2. CASE Starts(c, "provision", t, "ensuring")
      BY <1>0, <2>1, <2>2, <3>2 DEF Starts
    <3> QED BY <1>1, <3>1, <3>2 DEF CreateTrigger
  <2> QED BY <1>00, <2>4, <2>5
<1>2. ASSUME NEW t \in TriggerIds, NEW flag \in {"on", "off", "removed"},
             OnFile(t), file' = [file EXCEPT ![t] = flag], loaded' = TRUE, Arm(file'),
             UNCHANGED <<session, target, owner, alive, backing, rows, call>>
      PROVE  TriggerInv'
  <2>2. /\ file' \in [TriggerIds -> {"unmade", "on", "off", "removed"}]
        /\ \A u \in TriggerIds : file[u] # "unmade" => file'[u] # "unmade"
    BY <1>2 DEF TriggerInv, OnFile
  <2>3. armed' \subseteq Scheduled /\ \A u \in armed' : file'[u] = "on"
    BY <1>2, <2>2, ArmFacts
  <2> QED BY <1>0, <1>00, <1>2, <2>2, <2>3
<1>3. CASE Tick
  BY <1>0, <1>00, <1>3 DEF Tick
<1>4. ASSUME NEW c \in Calls, NEW t \in TriggerIds, Elapse(c, t) \/ Callback(c, t) PROVE TriggerInv'
  <2>1. UNCHANGED <<session, file, target, armed, owner, alive, backing, rows>> /\ (loaded => loaded')
    BY <1>4 DEF Elapse, Callback
  <2>2. call' = call \/ (loaded' /\ file[t] = "on" /\ Begin(c, t))
    BY <1>4 DEF Elapse, Callback
  <2>3. CASE call' = call
    BY <1>0, <1>00, <2>1, <2>3
  <2>4. CASE loaded' /\ file[t] = "on" /\ Begin(c, t)
    <3>1. PICK p : call' = [call EXCEPT ![c] = [op |-> "fire", on |-> t, at |-> p]]
      BY <2>4 DEF Begin, Starts
    <3>2. CallsOK'
      BY <2>1, <2>4, <3>1, CallMoves
    <3> QED BY <1>0, <1>00, <2>1, <3>2
  <2> QED BY <2>2, <2>3, <2>4
<1>5. ASSUME NEW c \in Calls, NEW k, call' = [call EXCEPT ![c] = k],
             k = [op |-> k.op, on |-> k.on, at |-> k.at],
             k.op \in {"fire", "provision"} => k.op = call[c].op /\ k.on = call[c].on
      PROVE  UNCHANGED <<session, file>> /\ (loaded => loaded') => CallsOK'
  BY <1>5, CallMoves DEF TriggerInv
<1>6. ASSUME NEW c \in Calls, NEW p, Goes(c, p)
      PROVE  UNCHANGED <<session, file>> /\ (loaded => loaded') => CallsOK'
  <2> DEFINE k == [op |-> call[c].op, on |-> call[c].on, at |-> p]
  <2>1. [call[c] EXCEPT !.at = p] = k
    <3>1. call[c] = [op |-> call[c].op, on |-> call[c].on, at |-> call[c].at]
      BY DEF TriggerInv
    <3> QED BY <3>1
  <2>2. call' = [call EXCEPT ![c] = k]
    BY <1>6, <2>1 DEF Goes
  <2>3. k.op = call[c].op /\ k.on = call[c].on /\ k = [op |-> k.op, on |-> k.on, at |-> k.at]
    OBVIOUS
  <2> HIDE DEF k
  <2> QED BY <1>5, <2>2, <2>3
<1>7. ASSUME NEW c \in Calls, Returns(c)
      PROVE  UNCHANGED <<session, file>> /\ (loaded => loaded') => CallsOK'
  BY <1>5, <1>7, NoCallIsNoOp DEF Returns
<1>8. ASSUME NEW c \in Calls, NEW ok \in BOOLEAN, HandlerAnswers(c, ok) PROVE TriggerInv'
  <2>1. CallsOK'
    BY <1>6, <1>7, <1>8 DEF HandlerAnswers
  <2>2. UNCHANGED <<file, target, armed, owner, alive, backing, rows>>
    BY <1>8 DEF HandlerAnswers
  <2> QED BY <1>0, <1>00, <2>1, <2>2
<1>9. ASSUME NEW c \in Calls, EnsurePrime(c) \/ Ensured(c) PROVE TriggerInv'
  <2>1. CallsOK'
    BY <1>6, <1>9 DEF EnsurePrime, Ensured
  <2>2. UNCHANGED <<file, target, armed, owner, alive, backing, rows>>
    BY <1>9 DEF EnsurePrime, Ensured
  <2> QED BY <1>0, <1>00, <2>1, <2>2
<1>10. CASE PrimeUp
  <2>1. ASSUME NEW c \in Calls
        PROVE  /\ call'[c] = [op |-> call'[c].op, on |-> call'[c].on, at |-> call'[c].at]
               /\ call'[c].op = call[c].op /\ call'[c].on = call[c].on
    <3>1. call[c] = [op |-> call[c].op, on |-> call[c].on, at |-> call[c].at]
      BY DEF TriggerInv
    <3>2. [call[c] EXCEPT !.at = "ready"] = [op |-> call[c].op, on |-> call[c].on, at |-> "ready"]
      BY <3>1
    <3>3. call'[c] = call[c] \/ call'[c] = [op |-> call[c].op, on |-> call[c].on, at |-> "ready"]
      BY <1>10, <3>2 DEF PrimeUp
    <3> QED BY <3>1, <3>3
  <2>2. call' = [c \in Calls |-> call'[c]] /\ UNCHANGED <<session, file, loaded>>
    BY <1>10 DEF PrimeUp
  <2>3. CallsOK'
    BY <1>0, <2>1, <2>2
  <2>4. UNCHANGED <<file, target, armed, owner, alive, backing, rows>>
    BY <1>10 DEF PrimeUp
  <2> QED BY <1>0, <1>00, <2>3, <2>4
<1>11. ASSUME NEW c \in Calls, Finish(c), UNCHANGED file
       PROVE  armed' \subseteq Scheduled /\ \A t \in armed' : file'[t] = "on"
  <2>1. CASE Arm(file)
    BY <1>0, <1>11, <2>1, ArmFacts
  <2>2. CASE Disarm
    BY <2>2 DEF Disarm
  <2>3. CASE UNCHANGED <<armed, age>>
    BY <1>0, <1>11, <2>3
  <2> QED BY <1>11, <2>1, <2>2, <2>3 DEF Finish
<1>12. ASSUME NEW c \in Calls, Reuse(c) PROVE TriggerInv'
  <2>1. /\ UNCHANGED <<session, file, loaded, target, owner, alive, backing, rows>>
        /\ Finish(c) /\ Returns(c)
    BY <1>12 DEF Reuse, Finish
  <2>2. CallsOK'
    BY <1>7, <2>1
  <2> QED BY <1>0, <1>00, <1>11, <2>1, <2>2
<1>13. ASSUME NEW c \in Calls, SpawnForTrigger(c) PROVE TriggerInv'
  <2> DEFINE t == call[c].on
  <2>1. /\ UNCHANGED <<session, file, loaded, backing>> /\ Finish(c) /\ Returns(c)
        /\ owner' = Append(owner, t) /\ alive' = alive \cup {Len(owner')}
        /\ rows' \subseteq rows \cup {Len(owner')} /\ target' = Recorded(t)
        /\ call[c].op \in {"fire", "provision"}
    BY <1>13 DEF SpawnForTrigger, Finish
  <2>2. CallsOK'
    BY <1>7, <2>1
  <2>3. t \in TriggerIds /\ file[t] # "unmade"
    BY <1>0, <2>1
  <2>4. /\ owner' \in Seq(TriggerIds) /\ Len(owner') = Len(owner) + 1 /\ owner'[Len(owner')] = t
        /\ \A w \in 1 .. Len(owner) : owner'[w] = owner[w]
        /\ Len(owner) \in Nat
    BY <1>0, <2>1, <2>3
  <2>5. target' \in [TriggerIds -> Nat]
    BY <1>0, <2>1, <2>3, <2>4 DEF Recorded
  <2>6. \A w \in 1 .. Len(owner') : file'[owner'[w]] # "unmade"
    <3> TAKE w \in 1 .. Len(owner')
    <3>1. w = Len(owner') \/ w \in 1 .. Len(owner)
      BY <2>4
    <3> QED BY <1>0, <2>1, <2>3, <2>4, <3>1
  <2>7. alive' \cup backing' \cup rows' \subseteq 1 .. Len(owner')
    BY <1>0, <2>1, <2>4
  <2> QED BY <1>0, <1>00, <1>11, <2>1, <2>2, <2>4, <2>5, <2>6, <2>7
<1>14. ASSUME NEW c \in Calls, SpawnFails(c) PROVE TriggerInv'
  <2>1. CallsOK'
    BY <1>7, <1>14 DEF SpawnFails
  <2>2. UNCHANGED <<file, target, armed, owner, alive, backing, rows>>
    BY <1>14 DEF SpawnFails
  <2> QED BY <1>0, <1>00, <2>1, <2>2
<1>15. ASSUME NEW w, WorkerEnds(w) \/ WorkerDies(w) \/ \E ok \in BOOLEAN : Respawn(w, ok)
       PROVE  TriggerInv'
  <2>1. /\ UNCHANGED <<session, file, loaded, target, armed, owner, call>>
        /\ alive' \cup backing' \cup rows' \subseteq alive \cup backing \cup rows
    BY <1>15 DEF WorkerEnds, WorkerDies, Respawn
  <2> QED BY <1>0, <1>00, <2>1
<1>16. ASSUME NEW c \in Calls, JoinChat(c) PROVE TriggerInv'
  <2>1. /\ call' = [call EXCEPT ![c] = [op |-> "join", on |-> call[c].on, at |-> "ensuring"]]
        /\ UNCHANGED <<session, file, loaded, target, armed, owner, alive, backing, rows>>
    BY <1>16 DEF JoinChat, Starts
  <2>2. CallsOK'
    BY <1>5, <2>1
  <2> QED BY <1>0, <1>00, <2>1, <2>2
<1>17. ASSUME NEW c \in Calls, Sync(c) PROVE TriggerInv'
  <2>1. /\ UNCHANGED <<session, file, target, owner, backing, rows>> /\ loaded' = TRUE
        /\ Arm(file) /\ Returns(c) /\ alive' \subseteq alive \cup rows
    BY <1>17 DEF Sync
  <2>2. CallsOK'
    BY <1>7, <2>1
  <2>3. armed' \subseteq Scheduled /\ \A t \in armed' : file[t] = "on"
    BY <1>0, <2>1, ArmFacts
  <2> QED BY <1>0, <1>00, <2>1, <2>2, <2>3
<1>18. CASE DeleteSession
  BY <1>0, <1>00, <1>18 DEF DeleteSession, Disarm
<1>19. CASE Boot
  <2>1. /\ UNCHANGED <<session, file, target, owner, rows>> /\ alive' = {} /\ armed' = {}
        /\ backing' = {}
        /\ call' = [c \in Calls |-> NoCall]
    BY <1>19 DEF Boot, Disarm
  <2>2. CallsOK'
    BY <2>1, NoCallIsNoOp
  <2> QED BY <1>0, <1>00, <2>1, <2>2
<1>20. CASE UNCHANGED triggerVars
  BY <1>0, <1>00, <1>20 DEF triggerVars
<1>21. ASSUME NEW t \in TriggerIds, NEW flag \in {"on", "off"}, UpdateTrigger(t, flag) PROVE TriggerInv'
  BY <1>2, <1>21 DEF UpdateTrigger
<1>22. ASSUME NEW t \in TriggerIds, RemoveTrigger(t) PROVE TriggerInv'
  BY <1>2, <1>22 DEF RemoveTrigger
<1> QED BY <1>1, <1>3, <1>4, <1>8, <1>9, <1>10, <1>12, <1>13, <1>14, <1>15, <1>16, <1>17,
           <1>18, <1>19, <1>20, <1>21, <1>22 DEF TriggerNext, Events, Continue

(* Only a spawn for a trigger writes a worker's number. *)
LEMMA TargetKept ==
  ASSUME TriggerInv, TargetInv, [TriggerNext]_triggerVars
  PROVE  TargetInv'
<1>1. CASE UNCHANGED <<owner, target>>
  BY <1>1 DEF TargetInv
<1>2. ASSUME NEW c \in Calls, SpawnForTrigger(c) PROVE TargetInv'
  <2> DEFINE u == call[c].on
  <2>1. owner' = Append(owner, u) /\ target' = Recorded(u) /\ u \in TriggerIds
    BY <1>2 DEF SpawnForTrigger, TriggerInv
  <2>2. /\ Len(owner') = Len(owner) + 1 /\ owner'[Len(owner) + 1] = u /\ Len(owner) \in Nat
        /\ \A w \in 1 .. Len(owner) : owner'[w] = owner[w] /\ w \in 1 .. Len(owner')
    BY <2>1 DEF TriggerInv
  <2>3. ASSUME NEW t \in TriggerIds, target'[t] # 0
        PROVE  target'[t] \in 1 .. Len(owner') /\ owner'[target'[t]] = t
    <3>1. target'[t] = target[t] \/ (t = u /\ target'[t] = Len(owner) + 1)
      BY <2>1 DEF Recorded, TriggerInv
    <3> QED BY <2>2, <2>3, <3>1 DEF TargetInv
  <2> QED BY <2>3 DEF TargetInv
<1>3. (\E c \in Calls : SpawnForTrigger(c)) \/ UNCHANGED <<owner, target>>
  BY DEF TriggerNext, Events, Continue, CreateTrigger, UpdateTrigger, RemoveTrigger, Tick, Elapse,
         Callback, HandlerAnswers, PrimeUp, WorkerEnds, WorkerDies, Respawn, JoinChat, Ensured,
         DeleteSession, Boot, EnsurePrime, Reuse, SpawnFails, Sync, triggerVars
<1> QED BY <1>1, <1>2, <1>3

(* A live session never comes back from its deletion, no trigger from its removal: only
   a spawn, a revive and the making of a trigger bear on the workers of those that
   stand. *)
LEMMA WorkerInvKept ==
  ASSUME TriggerInv, TargetInv, WorkerInv, [TriggerNext]_triggerVars
  PROVE  WorkerInv'
<1> SUFFICES ASSUME session' = "live" PROVE WorkerInv'
  BY DEF WorkerInv
<1>1. session = "live"
  BY DEF TriggerNext, Events, Continue, CreateTrigger, UpdateTrigger, RemoveTrigger, Tick, Elapse,
         Callback, HandlerAnswers, PrimeUp, WorkerEnds, WorkerDies, Respawn, JoinChat, Ensured,
         DeleteSession, Boot, EnsurePrime, Reuse, SpawnForTrigger, SpawnFails, Sync, triggerVars
<1>2. /\ \A w \in 1 .. Len(owner) : OnFile(owner[w]) => w <= target[owner[w]]
      /\ \A w \in alive \ revived : OnFile(owner[w]) => w = target[owner[w]]
      /\ alive \subseteq 1 .. Len(owner)
      /\ \A w \in 1 .. Len(owner) : owner[w] \in TriggerIds
  BY <1>1 DEF WorkerInv, TriggerInv
<1>3. ASSUME UNCHANGED <<owner, target>>, alive' \ revived' \subseteq alive \ revived,
             \A w \in 1 .. Len(owner) : OnFile(owner[w])' => OnFile(owner[w])
      PROVE  WorkerInv'
  BY <1>2, <1>3 DEF WorkerInv
<1>4. ASSUME NEW c \in Calls, NEW t \in TriggerIds, NEW flag \in {"on", "off"}, CreateTrigger(c, t, flag)
      PROVE  WorkerInv'
  <2>1. file[t] = "unmade" /\ file' = [file EXCEPT ![t] = flag]
        /\ UNCHANGED <<owner, target, alive, revived>>
    BY <1>4 DEF CreateTrigger
  <2>2. ASSUME NEW w \in 1 .. Len(owner), OnFile(owner[w])' PROVE OnFile(owner[w])
    <3>1. owner[w] # t /\ owner[w] \in TriggerIds
      BY <1>2, <2>1 DEF TriggerInv
    <3> QED BY <2>1, <2>2, <3>1 DEF OnFile, TriggerInv
  <2> QED BY <1>3, <2>1, <2>2
<1>5. ASSUME NEW t \in TriggerIds, NEW flag \in {"on", "off", "removed"},
             OnFile(t), file' = [file EXCEPT ![t] = flag],
             UNCHANGED <<owner, target, alive, revived>>
      PROVE  WorkerInv'
  <2>1. ASSUME NEW w \in 1 .. Len(owner), OnFile(owner[w])' PROVE OnFile(owner[w])
    BY <1>2, <1>5, <2>1 DEF OnFile, TriggerInv
  <2> QED BY <1>3, <1>5, <2>1
<1>6. ASSUME UNCHANGED <<file, owner, target>>, alive' \ revived' \subseteq alive \ revived
      PROVE  WorkerInv'
  BY <1>3, <1>6 DEF OnFile
<1>7. ASSUME NEW c \in Calls, SpawnForTrigger(c) PROVE WorkerInv'
  <2> DEFINE t == call[c].on
             n == Len(owner) + 1
  <2>1. /\ UNCHANGED <<session, file, loaded, revived>>
        /\ owner' = Append(owner, t) /\ alive' = alive \cup {Len(owner')}
        /\ target' = Recorded(t) /\ target[t] \notin alive
        /\ call[c].op \in {"fire", "provision"}
    BY <1>7 DEF SpawnForTrigger
  <2>2. t \in TriggerIds /\ loaded
    BY <1>1, <2>1 DEF TriggerInv
  <2>3. /\ Len(owner') = n /\ owner'[n] = t /\ Len(owner) \in Nat
        /\ \A w \in 1 .. Len(owner) : owner'[w] = owner[w]
    BY <2>1, <2>2 DEF TriggerInv
  <2>4. \A w \in 1 .. n : w = n \/ w \in 1 .. Len(owner)
    BY <2>3
  <2>5. target \in [TriggerIds -> Nat] /\ owner \in Seq(TriggerIds)
    BY DEF TriggerInv
  <2>6. CASE OnFile(t)
    <3>1. target' = [target EXCEPT ![t] = n]
      BY <2>1, <2>2, <2>6 DEF Recorded
    <3>2. ASSUME NEW w \in 1 .. n, OnFile(owner'[w]) PROVE w <= target'[owner'[w]]
      <4>1. CASE owner'[w] = t
        BY <2>2, <2>3, <2>5, <3>1, <4>1
      <4>2. CASE owner'[w] # t
        <5>1. w \in 1 .. Len(owner) /\ owner'[w] = owner[w] /\ owner[w] \in TriggerIds
          BY <1>2, <2>3, <2>4, <4>2
        <5>2. target'[owner[w]] = target[owner[w]]
          BY <2>5, <3>1, <4>2, <5>1
        <5> QED BY <1>2, <3>2, <5>1, <5>2
      <4> QED BY <4>1, <4>2
    <3>3. ASSUME NEW w \in alive' \ revived', OnFile(owner'[w]) PROVE w = target'[owner'[w]]
      <4>1. CASE w = n
        BY <2>2, <2>3, <2>5, <3>1, <4>1
      <4>2. CASE w # n
        <5>1. w \in alive \ revived /\ w \in 1 .. Len(owner) /\ owner'[w] = owner[w]
              /\ owner[w] \in TriggerIds
          BY <1>2, <2>1, <2>3, <4>2, <3>3
        <5>2. w = target[owner[w]]
          BY <1>2, <3>3, <5>1
        <5>3. owner[w] # t
          BY <2>1, <5>1, <5>2
        <5> QED BY <2>5, <3>1, <5>1, <5>2, <5>3
      <4> QED BY <4>1, <4>2
    <3> QED BY <2>1, <2>3, <3>2, <3>3 DEF WorkerInv, OnFile
  <2>7. CASE ~OnFile(t)
    <3>1. target' = target
      BY <2>1, <2>7 DEF Recorded
    <3>2. ASSUME NEW w \in 1 .. n, OnFile(owner'[w]) PROVE w <= target'[owner'[w]]
      <4>1. w \in 1 .. Len(owner) /\ owner'[w] = owner[w]
        BY <2>3, <2>4, <2>7, <3>2
      <4> QED BY <1>2, <3>1, <3>2, <4>1
    <3>3. ASSUME NEW w \in alive' \ revived', OnFile(owner'[w]) PROVE w = target'[owner'[w]]
      <4>1. w # n
        BY <2>3, <2>7, <3>3
      <4>2. w \in alive \ revived /\ w \in 1 .. Len(owner) /\ owner'[w] = owner[w]
        BY <1>2, <2>1, <2>3, <3>3, <4>1
      <4> QED BY <1>2, <3>1, <3>3, <4>2
    <3> QED BY <2>1, <2>3, <3>2, <3>3 DEF WorkerInv, OnFile
  <2> QED BY <2>6, <2>7
<1>22. ASSUME UNCHANGED <<file, owner, target>>, alive' \subseteq 1 .. Len(owner),
              revived' = revived \cup Replaced(alive')
       PROVE  WorkerInv'
  <2>1. ASSUME NEW w \in alive' \ revived', OnFile(owner[w]) PROVE w = target[owner[w]]
    <3>1. CASE w \in alive
      BY <1>2, <1>22, <2>1, <3>1
    <3>2. CASE w \notin alive
      <4>1. w \in 1 .. Len(owner) /\ owner \in Seq(TriggerIds)
        BY <1>22 DEF TriggerInv
      <4>2. \A x \in 1 .. Len(owner) : owner[x] = owner[w] => ~(w < x)
        BY <1>22, <2>1, <3>2, <4>1 DEF Replaced
      <4> DEFINE t == owner[w]
                 m == target[t]
      <4>3. t \in TriggerIds /\ m \in Nat /\ w <= m
        BY <1>2, <2>1, <4>1 DEF TriggerInv
      <4>4. m \in 1 .. Len(owner) /\ owner[m] = t
        BY <4>1, <4>3 DEF TargetInv
      <4> QED BY <4>1, <4>2, <4>3, <4>4
    <3> QED BY <3>1, <3>2
  <2> QED BY <1>2, <1>22, <2>1 DEF WorkerInv, OnFile
<1>8. ASSUME NEW c \in Calls, Sync(c) PROVE WorkerInv'
  <2>1. /\ UNCHANGED <<file, owner, target>> /\ alive' \subseteq alive \cup rows
        /\ revived' = revived \cup Replaced(alive')
    BY <1>8 DEF Sync
  <2> QED BY <1>22, <2>1 DEF TriggerInv
<1>9. CASE Boot
  <2>1. UNCHANGED <<file, owner, target, revived>> /\ alive' = {}
    BY <1>9 DEF Boot
  <2> QED BY <1>6, <2>1
<1>10. ASSUME NEW w, WorkerEnds(w) \/ WorkerDies(w) PROVE WorkerInv'
  BY <1>6, <1>10 DEF WorkerEnds, WorkerDies
<1>23. ASSUME NEW w, NEW ok \in BOOLEAN, Respawn(w, ok) PROVE WorkerInv'
  <2>1. /\ UNCHANGED <<file, owner, target>> /\ alive' \subseteq alive \cup backing
        /\ revived' = revived \cup Replaced(alive')
    BY <1>23 DEF Respawn
  <2> QED BY <1>22, <2>1 DEF TriggerInv
<1>11. CASE UNCHANGED <<file, owner, target, alive, revived>>
  <2>1. alive' \ revived' \subseteq alive \ revived
    BY <1>11
  <2> QED BY <1>6, <1>11, <2>1
<1>12. ASSUME NEW c \in Calls, EnsurePrime(c) \/ Reuse(c) \/ SpawnFails(c)
       PROVE  UNCHANGED <<file, owner, target, alive, revived>>
  BY <1>12 DEF EnsurePrime, Reuse, SpawnFails
<1>13. ASSUME NEW c \in Calls, NEW t \in TriggerIds, Elapse(c, t) \/ Callback(c, t)
       PROVE  UNCHANGED <<file, owner, target, alive, revived>>
  BY <1>13 DEF Elapse, Callback
<1>14. ASSUME NEW c \in Calls, JoinChat(c) \/ Ensured(c) \/ \E ok \in BOOLEAN : HandlerAnswers(c, ok)
       PROVE  UNCHANGED <<file, owner, target, alive, revived>>
  BY <1>14 DEF JoinChat, Ensured, HandlerAnswers
<1>15. ASSUME Tick \/ PrimeUp \/ UNCHANGED triggerVars
       PROVE  UNCHANGED <<file, owner, target, alive, revived>>
  BY <1>15 DEF Tick, PrimeUp, triggerVars
<1>16. ASSUME NEW t \in TriggerIds, RemoveTrigger(t) PROVE WorkerInv'
  BY <1>5, <1>16 DEF RemoveTrigger
<1>19. ASSUME NEW t \in TriggerIds, NEW flag \in {"on", "off"}, UpdateTrigger(t, flag) PROVE WorkerInv'
  BY <1>5, <1>19 DEF UpdateTrigger
<1>17. ~DeleteSession
  BY DEF DeleteSession
<1>20. CASE Events
  BY <1>4, <1>9, <1>10, <1>11, <1>13, <1>14, <1>15, <1>16, <1>17, <1>19, <1>20, <1>23 DEF Events
<1>21. ASSUME NEW c \in Calls, Continue(c) PROVE WorkerInv'
  BY <1>7, <1>8, <1>11, <1>12, <1>21 DEF Continue
<1> QED BY <1>11, <1>15, <1>20, <1>21 DEF TriggerNext

(* While the session lives, two workers of a trigger that stands run together only if the
   older one was gone when the newer was spawned for it and came back all the same, by the
   supervisor's respawn or by a join, however firings, provisions, restarts and the deaths
   of workers overlap. *)
THEOREM OneWorkerEachAlways == TriggerSpec => []OneWorkerEach
<1>1. TriggerInv /\ TargetInv /\ WorkerInv /\ [TriggerNext]_triggerVars
        => (TriggerInv /\ TargetInv /\ WorkerInv)'
  BY TriggerInvKept, TargetKept, WorkerInvKept
<1>2. TriggerInv /\ WorkerInv => OneWorkerEach
  <2> SUFFICES ASSUME TriggerInv, WorkerInv, session = "live", NEW v \in alive, NEW w \in alive,
                      v < w, owner[v] = owner[w], OnFile(owner[v]), v \notin revived
               PROVE  FALSE
    BY DEF OneWorkerEach
  <2>1. v = target[owner[v]] /\ w <= target[owner[w]]
    BY DEF TriggerInv, WorkerInv
  <2>2. v \in Nat /\ w \in Nat
    BY DEF TriggerInv
  <2> QED BY <2>1, <2>2
<1> QED BY <1>1, <1>2, TriggerInitInv, PTL DEF TriggerSpec

(* No timer is armed for a trigger that is off, removed or not made yet: an update, a
   removal and a boot each disarm what they must. *)
THEOREM ArmedIsAlwaysEnabled == TriggerSpec => []ArmedIsEnabled
<1>1. TriggerInv /\ [TriggerNext]_triggerVars => TriggerInv'
  BY TriggerInvKept
<1>2. TriggerInv => ArmedIsEnabled
  BY DEF TriggerInv
<1> QED BY <1>1, <1>2, TriggerInitInv, PTL DEF TriggerSpec

-----------------------------------------------------------------------------
(* Provisioning *)

\* The memory: nothing that is kept of it exceeds what was there at the creation,
\* and nothing is kept before.
MemoryInv ==
  /\ row = "none" <=> creation = "idle"
  /\ row = "none" => /\ mounting = {} /\ ensuring = {} /\ record = {} /\ primes = {}
                     /\ callers = 0
  /\ creation \in {"idle", "installing", "seeding"} => offered = {}
  /\ binding \subseteq offered
  /\ \A e \in ensuring : e.leaves \subseteq offered
  /\ MemoryIsSettled

\* The configuration: as long as nobody was early, nothing is spawned before the
\* bundle is there, and nothing else than the bundle is captured afterwards.
ConfigInv ==
  /\ creation \in {"seeding", "done"} => tree = "whole"
  /\ ~early /\ tree # "whole" => ensuring = {} /\ record = {} /\ primes = {}
  /\ ~early => /\ record \subseteq {"bundle"}
               /\ \A e \in ensuring : e.config \in {"none", "bundle"}
               /\ \A p \in primes : p.config = "bundle"

\* The end: whoever has Prime ensured of a deleted session is late.
DeletedInv == DeletedHasNoPrime

\* The invariant.
ProvisionInv == MemoryInv /\ ConfigInv /\ DeletedInv

(* Nothing was created at the start. *)
LEMMA ProvisionInvInitially == ProvisionInit => ProvisionInv
BY DEF ProvisionInit, ProvisionInv, MemoryInv, ConfigInv, DeletedInv, MemoryIsSettled,
       DeletedHasNoPrime

(* Prime is spawned with what its caller, its record or the disk gives. *)
LEMMA SpawnKeepsInv ==
  ASSUME ProvisionInv, SpawnPrime
  PROVE  ProvisionInv'
<1>1. PICK e \in ensuring : \E found \in Effective(e.config) :
        \E kept \in (IF Captured = {} THEN {found} ELSE Captured) :
          /\ record' = {kept}
          /\ primes' = {[config |-> IF kept = "none" THEN "default" ELSE kept,
                         memory |-> {f \in e.leaves : Available(f)}]}
  BY DEF SpawnPrime
<1>2. PICK found \in Effective(e.config) :
        \E kept \in (IF Captured = {} THEN {found} ELSE Captured) :
          /\ record' = {kept}
          /\ primes' = {[config |-> IF kept = "none" THEN "default" ELSE kept,
                         memory |-> {f \in e.leaves : Available(f)}]}
  BY <1>1
<1>3. PICK kept \in (IF Captured = {} THEN {found} ELSE Captured) :
          /\ record' = {kept}
          /\ primes' = {[config |-> IF kept = "none" THEN "default" ELSE kept,
                         memory |-> {f \in e.leaves : Available(f)}]}
  BY <1>2
<1>4. ensuring' = {} /\ UNCHANGED <<row, creation, diskAndRows, offered, callers, early, late>>
  BY DEF SpawnPrime
<1>5. MemoryInv'
  BY <1>3, <1>4 DEF ProvisionInv, MemoryInv, MemoryIsSettled, diskAndRows
<1>6. ~early => kept = "bundle"
  <2> SUFFICES ASSUME ~early PROVE kept = "bundle"
    OBVIOUS
  <2>1. tree = "whole" /\ record \subseteq {"bundle"} /\ e.config \in {"none", "bundle"}
    BY DEF ProvisionInv, ConfigInv
  <2>2. Captured \subseteq {"bundle"}
    BY <2>1 DEF Captured
  <2>3. Effective(e.config) \subseteq {"bundle"}
    BY <2>1, <2>2 DEF Effective, Installed
  <2> QED BY <2>2, <2>3
<1>7. ConfigInv'
  BY <1>3, <1>4, <1>6 DEF ProvisionInv, ConfigInv, diskAndRows
<1>8. DeletedInv'
  BY <1>4 DEF ProvisionInv, DeletedInv, DeletedHasNoPrime
<1> QED BY <1>5, <1>7, <1>8 DEF ProvisionInv

(* Somebody has Prime ensured, or it is gone. *)
LEMMA JoinKeepsInv ==
  ASSUME ProvisionInv, CallFinds \/ CallEnsures \/ PrimeGone
  PROVE  ProvisionInv'
<1>1. CASE CallEnsures
  <2>1. /\ EnsureAgent("none", binding) /\ callers > 0
        /\ early' = (early \/ tree # "whole") /\ late' = (late \/ row # "live")
        /\ UNCHANGED <<row, creation, tree, seeds, mounting, entry, mounted, binding, record,
                       primes, offered>>
    BY <1>1 DEF CallEnsures, diskAndRows
  <2>2. row # "none"
    BY <2>1 DEF ProvisionInv, MemoryInv
  <2>3. \A e \in ensuring' : e \in ensuring \/ (e.config = "none" /\ e.leaves = binding)
    BY <2>1 DEF EnsureAgent
  <2>4. MemoryInv'
    BY <2>1, <2>2, <2>3 DEF ProvisionInv, MemoryInv, MemoryIsSettled
  <2>5. ConfigInv'
    BY <2>1, <2>3 DEF ProvisionInv, ConfigInv
  <2>6. DeletedInv'
    BY <2>1 DEF DeletedInv, DeletedHasNoPrime
  <2> QED BY <2>4, <2>5, <2>6 DEF ProvisionInv
<1>2. CASE CallFinds \/ PrimeGone
  BY <1>2 DEF CallFinds, PrimeGone, ProvisionInv, MemoryInv, MemoryIsSettled, ConfigInv, DeletedInv,
              DeletedHasNoPrime, diskAndRows
<1> QED BY <1>1, <1>2

(* The creation goes on, or fails. *)
LEMMA CreationKeepsInv ==
  ASSUME ProvisionInv, CreateSession \/ InstallSome \/ InstallRest \/ InstallFails
  PROVE  ProvisionInv'
<1> USE DEF ProvisionInv, MemoryInv, MemoryIsSettled, ConfigInv, DeletedInv, DeletedHasNoPrime
<1>1. CASE CreateSession
  BY <1>1 DEF CreateSession, diskAndRows
<1>2. CASE InstallSome
  BY <1>2 DEF InstallSome
<1>3. CASE InstallRest
  BY <1>3 DEF InstallRest
<1>4. CASE InstallFails
  BY <1>4 DEF InstallFails, Withdraw
<1> QED BY <1>1, <1>2, <1>3, <1>4

(* Each step of the creation keeps the three parts. *)
LEMMA ProvisionKeepsInv ==
  ASSUME ProvisionInv, Provision
  PROVE  ProvisionInv'
<1> DEFINE kept == IF row = "live" THEN SettledLeaves ELSE {}
<1>1. /\ creation = "seeding" /\ creation' = "done"
      /\ binding' = kept /\ EnsureAgent("bundle", kept) /\ offered' = SettledLeaves
      /\ late' = (late \/ row # "live")
      /\ UNCHANGED <<row, tree, seeds, record, primes, callers, early>>
  BY DEF Provision, SettledLeaves
<1>2. kept \subseteq offered'
  BY <1>1
<1> HIDE DEF kept
<1>3. \A e \in ensuring' : e \in ensuring \/ (e.config = "bundle" /\ e.leaves = kept)
  BY <1>1 DEF EnsureAgent
<1>4. offered = {} /\ tree = "whole" /\ row # "none"
  BY <1>1 DEF ProvisionInv, MemoryInv, ConfigInv
<1>5. MemoryInv'
  BY <1>1, <1>2, <1>3, <1>4 DEF ProvisionInv, MemoryInv, MemoryIsSettled
<1>6. ConfigInv'
  BY <1>1, <1>3, <1>4 DEF ProvisionInv, ConfigInv
<1>7. DeletedInv'
  BY <1>1 DEF DeletedInv, DeletedHasNoPrime
<1> QED BY <1>5, <1>6, <1>7 DEF ProvisionInv

(* Mounts change neither what is bound nor what runs, but a refused one of the
   creation withdraws it. *)
LEMMA MountKeepsInv ==
  ASSUME ProvisionInv,
         \/ \E f \in Folders : \/ Unmount(f)
                               \/ \E by \in {"creation", "request"} : MountLooks(by, f)
                               \/ \E what \in {"none", "link", "own"} : AgentTidies(f, what)
         \/ \E m \in mounting : MountLinks(m) \/ MountRow(m)
  PROVE  ProvisionInv'
<1>1. UNCHANGED <<tree, ensuring, record, primes, offered, callers, early, late>>
  BY DEF Unmount, MountLooks, AgentTidies, MountLinks, MountRow
<1>2. ASSUME row # "none", UNCHANGED <<creation, row, binding>> PROVE ProvisionInv'
  BY <1>1, <1>2 DEF ProvisionInv, MemoryInv, MemoryIsSettled, ConfigInv, DeletedInv,
                    DeletedHasNoPrime
<1>3. ASSUME NEW m, row # "none", Refuse(m) PROVE ProvisionInv'
  <2>1. CASE m.by = "creation"
    BY <1>1, <1>3, <2>1 DEF Refuse, Withdraw, ProvisionInv, MemoryInv, MemoryIsSettled, ConfigInv,
                                DeletedInv, DeletedHasNoPrime
  <2>2. CASE m.by # "creation"
    BY <1>2, <1>3, <2>2 DEF Refuse
  <2> QED BY <2>1, <2>2
<1>4. ASSUME NEW f \in Folders, Unmount(f) PROVE ProvisionInv'
  <2>1. row # "none"
    BY <1>4 DEF Unmount
  <2> QED BY <1>2, <1>4, <2>1 DEF Unmount
<1>5. ASSUME NEW f \in Folders, NEW by \in {"creation", "request"}, MountLooks(by, f)
      PROVE  ProvisionInv'
  <2>1. row # "none"
    BY <1>5 DEF MountLooks, ProvisionInv, MemoryInv
  <2> QED BY <1>2, <1>3, <1>5, <2>1 DEF MountLooks
<1>6. ASSUME NEW f \in Folders, NEW what \in {"none", "link", "own"}, AgentTidies(f, what)
      PROVE  ProvisionInv'
  <2>1. row # "none"
    BY <1>6 DEF AgentTidies, ProvisionInv, MemoryInv
  <2> QED BY <1>2, <1>6, <2>1 DEF AgentTidies
<1>7. ASSUME NEW m \in mounting, MountLinks(m) \/ MountRow(m) PROVE ProvisionInv'
  <2>1. row # "none"
    BY <1>7 DEF ProvisionInv, MemoryInv
  <2>2. CASE MountLinks(m)
    BY <1>2, <1>3, <2>1, <2>2 DEF MountLinks
  <2>3. CASE MountRow(m)
    BY <1>2, <1>3, <2>1, <2>3 DEF MountRow
  <2> QED BY <1>7, <2>2, <2>3
<1> QED BY <1>4, <1>5, <1>6, <1>7

(* A deletion keeps them, whether the creation was over or not. *)
LEMMA EndKeepsInv ==
  ASSUME ProvisionInv, RemoveSession \/ ServerCrashes
  PROVE  ProvisionInv'
<1> USE DEF ProvisionInv, MemoryInv, MemoryIsSettled, ConfigInv, DeletedInv,
            DeletedHasNoPrime, Dispose
<1>1. CASE RemoveSession
  BY <1>1 DEF RemoveSession
<1>2. CASE ServerCrashes
  BY <1>2 DEF ServerCrashes, UnderWay
<1> QED BY <1>1, <1>2

(* Every step keeps them. *)
LEMMA ProvisionInvIsInductive == ProvisionInv /\ [ProvisionNext]_provisionVars => ProvisionInv'
<1> SUFFICES ASSUME ProvisionInv, [ProvisionNext]_provisionVars PROVE ProvisionInv'
  OBVIOUS
<1>1. CASE UNCHANGED provisionVars
  BY <1>1 DEF provisionVars, ProvisionInv, MemoryInv, MemoryIsSettled, ConfigInv, DeletedInv,
              DeletedHasNoPrime
<1> QED BY <1>1, SpawnKeepsInv, JoinKeepsInv, CreationKeepsInv, ProvisionKeepsInv, MountKeepsInv,
           EndKeepsInv DEF ProvisionNext

(* So they always hold. *)
LEMMA ProvisionInvHolds == ProvisionSpec => []ProvisionInv
BY ProvisionInvInitially, ProvisionInvIsInductive, PTL DEF ProvisionSpec

(* However the creation, the first spawns, the mounts, crashes and restarts interleave,
   Prime runs the session's bundle unless someone had it spawned before the bundle was
   there, and its memory is no more than what was there at the creation. *)
THEOREM PrimeIsAlwaysAsCreated == ProvisionSpec => []PrimeIsAsCreated
<1>1. ProvisionInv => PrimeIsAsCreated
  BY DEF ProvisionInv, MemoryInv, ConfigInv, PrimeIsAsCreated, RunsTheBundle
<1> QED BY <1>1, ProvisionInvHolds, PTL

(* A deleted session has no Prime and no spawn of one, though a spawn was awaiting its
   memory when it was deleted, until someone who had found it asks for Prime after. *)
THEOREM DeletedNeverHasPrime == ProvisionSpec => []DeletedHasNoPrime
<1>1. ProvisionInv => DeletedHasNoPrime
  BY DEF ProvisionInv, DeletedInv
<1> QED BY <1>1, ProvisionInvHolds, PTL

-----------------------------------------------------------------------------
(* Resources *)

\* Whoever removed the bytes of a file has yet to drop its row, or it was in somebody's
\* hand, or lost otherwise; what a write or a listing has in hand is there, or was.
GoneInv ==
  /\ kind \in [Files -> Kinds]
  /\ puts \in [HostFiles -> {"idle", "written"}]
  /\ removals \subseteq [uri : Files \ Artifacts, at : {"unlinking", "unlinked"}]
  /\ scans \subseteq [unread : SUBSET Dirs, found : SUBSET Files]
  /\ \A u \in Files \ Artifacts :
       /\ kind[u] = "file" /\ u \notin bytes =>
            u \in raced \cup lost \/ \E r \in removals : r.uri = u /\ r.at = "unlinked"
       /\ u \in HostFiles /\ puts[u] = "written" => u \in bytes \cup raced \cup lost
       /\ \A s \in scans : u \in s.found => u \in bytes \cup raced \cup lost

(* No file was touched at the start. *)
LEMMA GoneInvInitially == ResourceInit => GoneInv
BY DEF ResourceInit, GoneInv, Kinds

(* The DELETE of a file under uploads/: the bytes, then the row. *)
LEMMA RemovalKeepsGone ==
  ASSUME GoneInv,
         \/ \E u \in Files : RemovalStarts(u)
         \/ \E r \in removals : Unlink(r) \/ UnlinkFails(r) \/ RemovalEnds(r)
  PROVE  GoneInv'
<1>1. ASSUME NEW u \in Files, RemovalStarts(u) PROVE GoneInv'
  <2>1. CASE Managed(u)
    BY <1>1, <2>1 DEF RemovalStarts, Managed, GoneInv
  <2>2. CASE ~Managed(u)
    BY <1>1, <2>2 DEF RemovalStarts, Drop, GoneInv, Kinds
  <2> QED BY <2>1, <2>2
<1>2. ASSUME NEW r \in removals, Unlink(r) PROVE GoneInv'
  <2>1. /\ r.uri \in Files \ Artifacts
        /\ [r EXCEPT !.at = "unlinked"] \in [uri : Files \ Artifacts, at : {"unlinking", "unlinked"}]
        /\ [r EXCEPT !.at = "unlinked"].uri = r.uri
        /\ [r EXCEPT !.at = "unlinked"].at = "unlinked"
    BY DEF GoneInv
  <2>2. r.at = "unlinking"
    BY <1>2 DEF Unlink
  <2>3. \A q \in removals : q.at = "unlinked" => q \in removals'
    BY <1>2, <2>2 DEF Unlink
  <2>4. \E q \in removals' : q.uri = r.uri /\ q.at = "unlinked"
    BY <1>2, <2>1 DEF Unlink
  <2>5. removals' \subseteq [uri : Files \ Artifacts, at : {"unlinking", "unlinked"}]
    BY <1>2, <2>1 DEF Unlink, GoneInv
  <2>6. /\ bytes' = bytes \ {r.uri} /\ raced \subseteq raced'
        /\ (\E s \in scans : r.uri \in s.found) => r.uri \in raced' \cup lost
        /\ r.uri \in HostFiles /\ puts[r.uri] = "written" => r.uri \in raced' \cup lost
        /\ UNCHANGED <<kind, puts, attached, scans, lost>>
    BY <1>2, <2>1 DEF Unlink, InHand, GoneInv
  <2> QED BY <2>1, <2>3, <2>4, <2>5, <2>6 DEF GoneInv
<1>3. ASSUME NEW r \in removals, RemovalEnds(r) PROVE GoneInv'
  <2>1. /\ removals' = removals \ {r}
        /\ kind' = [kind EXCEPT ![r.uri] = "none"]
        /\ UNCHANGED <<bytes, puts, attached, scans, raced, lost>>
    BY <1>3 DEF RemovalEnds, Drop
  <2>2. \A u \in Files : kind'[u] = "file" => kind[u] = "file" /\ u # r.uri
    BY <2>1 DEF GoneInv
  <2> QED BY <2>1, <2>2 DEF GoneInv, Kinds
<1>4. ASSUME NEW r \in removals, UnlinkFails(r) PROVE GoneInv'
  BY <1>4 DEF UnlinkFails, GoneInv
<1> QED BY <1>1, <1>2, <1>3, <1>4

(* A listing adds rows for what it found. *)
LEMMA ListingKeepsGone ==
  ASSUME GoneInv, ScanStarts \/ \E s \in scans : ScanEnds(s) \/ \E dir \in Dirs : ScanReads(s, dir)
  PROVE  GoneInv'
<1>1. CASE ScanStarts
  BY <1>1 DEF ScanStarts, GoneInv
<1>2. ASSUME NEW s \in scans, ScanEnds(s) PROVE GoneInv'
  <2>1. kind' = Catalogued(s.found) /\ scans' = {} /\ UNCHANGED <<bytes, puts, removals, attached, raced, lost>>
    BY <1>2 DEF ScanEnds
  <2>2. \A u \in Files : kind'[u] = "file" => kind[u] = "file" \/ u \in s.found
    BY <2>1 DEF Catalogued, GoneInv
  <2>3. kind' \in [Files -> Kinds]
    BY <2>1 DEF Catalogued, GoneInv, Kinds
  <2> QED BY <2>1, <2>2, <2>3 DEF GoneInv
<1>3. ASSUME NEW s \in scans, NEW dir \in Dirs, ScanReads(s, dir) PROVE GoneInv'
  <2>1. FilesIn(dir) \subseteq Files
    BY DEF FilesIn, Files
  <2> QED BY <1>3, <2>1 DEF ScanReads, GoneInv
<1> QED BY <1>1, <1>2, <1>3

(* A write brings bytes, then a row. *)
LEMMA WriteKeepsGone ==
  ASSUME GoneInv,
         \/ \E u \in HostFiles : PutWrites(u) \/ PutCatalogs(u)
         \/ \E u \in Attachments : Upload(u) \/ PostCatalogs(u)
         \/ \E u \in Files : AgentWrites(u) \/ AgentDeletes(u)
         \/ \E u \in Artifacts : Pin(u) \/ Unpin(u)
  PROVE  GoneInv'
<1>1. ASSUME NEW u \in HostFiles, PutWrites(u) PROVE GoneInv'
  BY <1>1 DEF PutWrites, Written, GoneInv
<1>2. ASSUME NEW u \in HostFiles, PutCatalogs(u) PROVE GoneInv'
  BY <1>2 DEF PutCatalogs, GoneInv, Kinds
<1>3. ASSUME NEW u \in Attachments, Upload(u) PROVE GoneInv'
  BY <1>3 DEF Upload, GoneInv
<1>4. ASSUME NEW u \in Attachments, PostCatalogs(u) PROVE GoneInv'
  BY <1>4 DEF PostCatalogs, GoneInv, Kinds
<1>5. ASSUME NEW u \in Files, AgentWrites(u) \/ AgentDeletes(u) PROVE GoneInv'
  <2>1. CASE AgentWrites(u)
    BY <2>1 DEF AgentWrites, Written, GoneInv
  <2>2. CASE AgentDeletes(u)
    BY <2>2 DEF AgentDeletes, GoneInv
  <2> QED BY <1>5, <2>1, <2>2
<1>6. ASSUME NEW u \in Artifacts, Pin(u) \/ Unpin(u) PROVE GoneInv'
  BY <1>6 DEF Pin, Unpin, GoneInv, Kinds
<1> QED BY <1>1, <1>2, <1>3, <1>4, <1>5, <1>6

(* A restart loses what was in anybody's hand, and counts the files whose removal it cuts as lost. *)
LEMMA ServerRestartKeepsGone ==
  ASSUME GoneInv, ServerRestarts
  PROVE  GoneInv'
<1>1. /\ puts' = [u \in HostFiles |-> "idle"] /\ removals' = {} /\ scans' = {}
      /\ lost' = lost \cup ({r.uri : r \in {q \in removals : q.at = "unlinked"}}
                           \ (bytes \cup raced))
      /\ UNCHANGED <<bytes, kind, raced>>
  BY DEF ServerRestarts
<1> QED BY <1>1 DEF GoneInv

(* Every operation on the files keeps the invariant. *)
LEMMA GoneInvIsInductive == GoneInv /\ [ResourceNext]_resourceVars => GoneInv'
<1> SUFFICES ASSUME GoneInv, [ResourceNext]_resourceVars PROVE GoneInv'
  OBVIOUS
<1>1. CASE UNCHANGED resourceVars
  BY <1>1 DEF resourceVars, GoneInv
<1> QED BY <1>1, RemovalKeepsGone, ListingKeepsGone, WriteKeepsGone, ServerRestartKeepsGone
        DEF ResourceNext

(* A file under uploads/ that was removed has no row of kind file once its removal is
   over, whatever uploads, pins, listings and failed removals come between, but for a
   listing or a write that had it in hand then, for the agent and for a restart. *)
THEOREM RemovedIsAlwaysGone == ResourceSpec => []RemovedIsGone
<1>1. GoneInv => RemovedIsGone
  BY DEF GoneInv, RemovedIsGone, Removing
<1> QED BY <1>1, GoneInvInitially, GoneInvIsInductive, PTL DEF ResourceSpec

-----------------------------------------------------------------------------
(* AgentHost *)

\* The types the argument needs.
HostTypes ==
  /\ IsFiniteSet(hosted) /\ hosted \subseteq Spawned
  /\ pi = [a \in Spawned |-> pi[a]]
  /\ statuses = [a \in Spawned |-> statuses[a]]
  /\ commands \in Seq([cmd : {"spawn", "message", "kill"}, id : Spawned])
  /\ updates \in Seq([id : Spawned, status : {"active"} \cup Terminal])

\* At most one spawn of each sub-agent is on its way.
SpawnsOnce ==
  \A i, j \in 1 .. Len(commands) :
    commands[i].cmd = "spawn" /\ commands[j] = commands[i] => i = j

\* A sub-agent has neither process nor launch until its spawn arrives, and that comes
\* once.
SpawnInv ==
  /\ SpawnsOnce
  /\ \A a \in Spawned : statuses[a] = "none" => ~SpawnComing(a)
  /\ \A a \in Spawned : statuses[a] = "none" \/ SpawnComing(a) => pi[a] = "none"

\* A process that was not told to stop, or a launch that waits, is of a sub-agent the
\* host lists or was stopped while it waited.
ListedInv ==
  /\ \A a \in Spawned : Launching(a) => a \in hosted \cup cut
  /\ ProcessesAreListed

\* The end of the sub-agent that update i names comes behind it.
EndBehind(i) ==
  \E j \in 1 .. Len(updates) : i < j /\ updates[j].id = updates[i].id /\ updates[j].status \in Terminal

\* The two ends of the socket: only an open one carries commands or signs of life, and
\* the gateway has no sub-agent as active on a connection it does not have.
LinkInv ==
  /\ link # "up" => commands = <<>> /\ \A i \in 1 .. Len(updates) : updates[i].status # "active"
  /\ link = "up" => connected
  /\ ~connected => \A a \in Spawned : statuses[a] # "active"
  /\ link = "closed" => updates = <<>>

\* A sub-agent that is active for the Shell, or is about to be declared so, is listed,
\* not spawned yet, missed, or its end is on its way; and so for one that lives on, and
\* might speak, unless the Shell is done with it.
ShellInv ==
  /\ \A a \in Spawned : statuses[a] = "active" /\ link # "closed" =>
       a \in hosted \cup missed \/ EndOnItsWay(a) \/ SpawnComing(a)
  /\ \A i \in 1 .. Len(updates) : updates[i].status = "active" =>
       updates[i].id \in hosted \cup missed \/ EndBehind(i)
  /\ \A a \in Spawned : Lives(a) =>
       a \in hosted \cup missed \/ EndOnItsWay(a) \/ statuses[a] = "gone" \/ link = "closed"

\* The invariant.
HostInv == HostTypes /\ SpawnInv /\ ListedInv /\ LinkInv /\ ShellInv

(* What a queue is after its first entry was taken. *)
LEMMA HeadTail ==
  ASSUME NEW S, NEW s \in Seq(S), s # <<>>
  PROVE  /\ Head(s) = s[1] /\ Head(s) \in S /\ 1 \in 1 .. Len(s)
         /\ Tail(s) \in Seq(S) /\ Len(Tail(s)) = Len(s) - 1 /\ Len(s) \in Nat
         /\ \A i \in 1 .. Len(Tail(s)) : Tail(s)[i] = s[i + 1] /\ i + 1 \in 1 .. Len(s)
         /\ \A i \in 1 .. Len(s) : i # 1 => i - 1 \in 1 .. Len(Tail(s)) /\ Tail(s)[i - 1] = s[i]
OBVIOUS

(* What a queue is after an entry was put behind it. *)
LEMMA Appended ==
  ASSUME NEW S, NEW s \in Seq(S), NEW e \in S
  PROVE  /\ Append(s, e) \in Seq(S) /\ Len(Append(s, e)) = Len(s) + 1 /\ Len(s) \in Nat
         /\ \A i \in 1 .. Len(s) : Append(s, e)[i] = s[i] /\ i \in 1 .. Len(Append(s, e))
         /\ Append(s, e)[Len(s) + 1] = e
         /\ \A i \in 1 .. Len(Append(s, e)) : i = Len(s) + 1 \/ i \in 1 .. Len(s)
OBVIOUS

(* SetToSeq lists elements of a finite set, as many as it has. *)
LEMMA SetListed ==
  ASSUME NEW S, IsFiniteSet(S)
  PROVE  SetToSeq(S) \in [1 .. Cardinality(S) -> S] /\ Cardinality(S) \in Nat
<1>1. Cardinality(S) \in Nat /\ ExistsBijection(1 .. Cardinality(S), S)
  BY FS_CardinalityType
<1>2. \E f \in [1 .. Cardinality(S) -> S] : IsInjective(f)
  BY <1>1 DEF ExistsBijection, Bijection, Injection, IsInjective
<1> QED BY <1>1, <1>2 DEF SetToSeq

(* What is said of some sub-agents goes behind the updates that are on their way. *)
LEMMA ToldUpdates ==
  ASSUME updates \in Seq([id : Spawned, status : {"active"} \cup Terminal]),
         NEW as, IsFiniteSet(as), as \subseteq Spawned,
         NEW status \in {"active"} \cup Terminal, Tells(as, status), link # "closed"
  PROVE  /\ updates' \in Seq([id : Spawned, status : {"active"} \cup Terminal])
         /\ Len(updates') = Len(updates) + Cardinality(as)
         /\ Len(updates) \in Nat /\ Cardinality(as) \in Nat
         /\ \A i \in 1 .. Len(updates) : updates'[i] = updates[i] /\ i \in 1 .. Len(updates')
         /\ \A i \in 1 .. Len(updates') : i \in 1 .. Len(updates)
              \/ (updates'[i].id \in as /\ updates'[i].status = status)
         /\ \A i \in 1 .. Cardinality(as) :
              /\ Len(updates) + i \in 1 .. Len(updates')
              /\ updates'[Len(updates) + i].id \in as /\ updates'[Len(updates) + i].status = status
<1> DEFINE order == SetToSeq(as)
           U == [id : Spawned, status : {"active"} \cup Terminal]
           said == [i \in DOMAIN order |-> [id |-> order[i], status |-> status]]
<1>1. order \in [1 .. Cardinality(as) -> as] /\ Cardinality(as) \in Nat
  BY SetListed
<1>2. updates' = updates \o said
  BY DEF Tells
<1> DEFINE n == Cardinality(as)
<1> HIDE DEF order, n
<1>3. /\ n \in Nat /\ said = [i \in 1 .. n |-> [id |-> order[i], status |-> status]]
      /\ \A i \in 1 .. n : order[i] \in as
  BY <1>1 DEF n
<1>4. /\ said \in [1 .. n -> U]
      /\ \A i \in 1 .. n : said[i].id \in as /\ said[i].status = status
  BY <1>3
<1> HIDE DEF said
<1>5. said \in Seq(U) /\ Len(said) = n
  BY <1>3, <1>4
<1>6. updates \in Seq(U) /\ Len(updates) \in Nat
  OBVIOUS
<1>7. /\ updates' \in Seq(U) /\ Len(updates') = Len(updates) + n
      /\ \A i \in 1 .. Len(updates) : updates'[i] = updates[i]
      /\ \A i \in 1 .. n : updates'[Len(updates) + i] = said[i]
  <2> HIDE DEF U
  <2> QED BY <1>2, <1>3, <1>5, <1>6
<1>8. \A i \in 1 .. Len(updates') : i \in 1 .. Len(updates) \/ i - Len(updates) \in 1 .. n
  BY <1>3, <1>6, <1>7
<1>9. \A i \in 1 .. Len(updates') : i \in 1 .. Len(updates)
        \/ (updates'[i].id \in as /\ updates'[i].status = status)
  <2> TAKE i \in 1 .. Len(updates')
  <2>1. CASE i - Len(updates) \in 1 .. n
    <3>1. i = Len(updates) + (i - Len(updates))
      BY <1>6, <1>7
    <3> QED BY <1>4, <1>7, <2>1, <3>1
  <2> QED BY <1>8, <2>1
<1>10. \A i \in 1 .. n : /\ Len(updates) + i \in 1 .. Len(updates')
                         /\ updates'[Len(updates) + i].id \in as
                         /\ updates'[Len(updates) + i].status = status
  <2> TAKE i \in 1 .. n
  <2>1. Len(updates) + i \in 1 .. Len(updates')
    BY <1>3, <1>6, <1>7
  <2>2. updates'[Len(updates) + i] = said[i]
    BY <1>7
  <2> QED BY <1>4, <2>1, <2>2
<1>11. \A i \in 1 .. Len(updates) : i \in 1 .. Len(updates')
  BY <1>3, <1>6, <1>7
<1> USE DEF n
<1> HIDE DEF U
<1>12. updates' \in Seq([id : Spawned, status : {"active"} \cup Terminal])
  BY <1>7 DEF U
<1> QED BY <1>3, <1>6, <1>7, <1>9, <1>10, <1>11, <1>12

(* Hearing, telling and stopping keep what is on its way about ends. *)
LEMMA EndStays ==
  ASSUME updates \in Seq([id : Spawned, status : {"active"} \cup Terminal]),
         updates' \in Seq([id : Spawned, status : {"active"} \cup Terminal]),
         \A i \in 1 .. Len(updates) : updates'[i] = updates[i] /\ i \in 1 .. Len(updates'),
         NEW a, EndOnItsWay(a)
  PROVE  EndOnItsWay(a)'
BY DEF EndOnItsWay

(* The bridge takes the command at the head of the socket. *)
LEMMA CommandTaken ==
  ASSUME HostTypes, SpawnsOnce, NEW cmd, NEW a, Received(cmd, a)
  PROVE  /\ commands # <<>> /\ a \in Spawned
         /\ commands' \in Seq([cmd : {"spawn", "message", "kill"}, id : Spawned])
         /\ SpawnsOnce'
         /\ \A b : SpawnComing(b)' => SpawnComing(b)
         /\ \A b : SpawnComing(b) => SpawnComing(b)' \/ (cmd = "spawn" /\ b = a)
         /\ cmd = "spawn" => SpawnComing(a) /\ ~SpawnComing(a)'
<1> DEFINE C == [cmd : {"spawn", "message", "kill"}, id : Spawned]
<1>1. commands \in Seq(C) /\ commands # <<>> /\ Head(commands) = [cmd |-> cmd, id |-> a]
      /\ commands' = Tail(commands)
  BY DEF HostTypes, Received
<1>2. /\ commands[1] = [cmd |-> cmd, id |-> a] /\ commands[1] \in C /\ 1 \in 1 .. Len(commands)
      /\ commands' \in Seq(C) /\ Len(commands) \in Nat /\ Len(commands') = Len(commands) - 1
      /\ \A i \in 1 .. Len(commands') : commands'[i] = commands[i + 1] /\ i + 1 \in 1 .. Len(commands)
      /\ \A i \in 1 .. Len(commands) : i # 1 => i - 1 \in 1 .. Len(commands') /\ commands'[i - 1] = commands[i]
  <2> HIDE DEF C
  <2> QED BY <1>1, HeadTail
<1>3. a \in Spawned
  BY <1>2
<1>4. SpawnsOnce'
  <2> SUFFICES ASSUME NEW i \in 1 .. Len(commands'), NEW j \in 1 .. Len(commands'),
                      commands'[i].cmd = "spawn", commands'[j] = commands'[i]
               PROVE  i = j
    BY DEF SpawnsOnce
  <2>1. i + 1 = j + 1
    BY <1>2 DEF SpawnsOnce
  <2> QED BY <2>1
<1>5. \A b : SpawnComing(b)' => SpawnComing(b)
  BY <1>2 DEF SpawnComing
<1>6. ASSUME NEW b, SpawnComing(b) PROVE SpawnComing(b)' \/ (cmd = "spawn" /\ b = a)
  <2>1. PICK i \in 1 .. Len(commands) : commands[i] = [cmd |-> "spawn", id |-> b]
    BY <1>6 DEF SpawnComing
  <2>2. CASE i = 1
    BY <1>2, <2>1, <2>2
  <2>3. CASE i # 1
    BY <1>2, <2>1, <2>3 DEF SpawnComing
  <2> QED BY <2>2, <2>3
<1>7. ASSUME cmd = "spawn" PROVE SpawnComing(a) /\ ~SpawnComing(a)'
  <2>1. SpawnComing(a)
    BY <1>2, <1>7 DEF SpawnComing
  <2>2. ASSUME SpawnComing(a)' PROVE FALSE
    <3>1. PICK i \in 1 .. Len(commands') : commands'[i] = [cmd |-> "spawn", id |-> a]
      BY <2>2 DEF SpawnComing
    <3>2. i + 1 \in 1 .. Len(commands) /\ commands[i + 1] = commands[1] /\ commands[1].cmd = "spawn"
      BY <1>2, <1>7, <3>1
    <3>3. i + 1 = 1
      BY <1>2, <3>2 DEF SpawnsOnce
    <3> QED BY <3>1, <3>3
  <2> QED BY <2>1, <2>2
<1> QED BY <1>1, <1>2, <1>3, <1>4, <1>5, <1>6, <1>7

(* The Shell puts a command behind those on their way. *)
LEMMA CommandEmitted ==
  ASSUME HostTypes, SpawnsOnce, NEW cmd \in {"spawn", "message", "kill"}, NEW a \in Spawned,
         link = "up", Emit(cmd, a), cmd = "spawn" => ~SpawnComing(a)
  PROVE  /\ commands' \in Seq([cmd : {"spawn", "message", "kill"}, id : Spawned])
         /\ SpawnsOnce'
         /\ \A b : SpawnComing(b)' <=> SpawnComing(b) \/ (cmd = "spawn" /\ b = a)
<1> DEFINE C == [cmd : {"spawn", "message", "kill"}, id : Spawned]
           c == [cmd |-> cmd, id |-> a]
<1>1. commands \in Seq(C) /\ c \in C /\ commands' = Append(commands, c)
  BY DEF HostTypes, Emit
<1>2. /\ commands' \in Seq(C) /\ Len(commands') = Len(commands) + 1 /\ Len(commands) \in Nat
      /\ \A i \in 1 .. Len(commands) : commands'[i] = commands[i] /\ i \in 1 .. Len(commands')
      /\ commands'[Len(commands) + 1] = c
      /\ \A i \in 1 .. Len(commands') : i = Len(commands) + 1 \/ i \in 1 .. Len(commands)
  <2> HIDE DEF C, c
  <2> QED BY <1>1, Appended
<1>3. c.cmd = cmd /\ \A b : c = [cmd |-> "spawn", id |-> b] <=> cmd = "spawn" /\ b = a
  OBVIOUS
<1>4. cmd = "spawn" => \A i \in 1 .. Len(commands) : commands[i] # c
  BY DEF SpawnComing
<1> HIDE DEF c, C
<1>5. SpawnsOnce'
  BY <1>2, <1>3, <1>4 DEF SpawnsOnce
<1>6. \A b : SpawnComing(b)' <=> SpawnComing(b) \/ (cmd = "spawn" /\ b = a)
  <2> TAKE b
  <2>1. SpawnComing(b)' => SpawnComing(b) \/ (cmd = "spawn" /\ b = a)
    BY <1>2, <1>3 DEF SpawnComing
  <2>2. SpawnComing(b) => SpawnComing(b)'
    BY <1>2 DEF SpawnComing
  <2>3. cmd = "spawn" /\ b = a => SpawnComing(b)'
    BY <1>2, <1>3 DEF SpawnComing
  <2> QED BY <2>1, <2>2, <2>3
<1> QED BY <1>2, <1>5, <1>6 DEF C

(* A sub-agent leaves the host's list, and its end is on its way while there is a
   client. *)
LEMMA EndTold ==
  ASSUME HostTypes, LinkInv, ShellInv, NEW a \in Spawned, NEW st \in Terminal,
         hosted' = hosted \ {a}, Tells({a}, st), UNCHANGED <<statuses, link, connected, missed>>,
         link # "up" => commands' = commands, \A b : SpawnComing(b) => SpawnComing(b)',
         \A b \in Spawned : Lives(b)' => Lives(b)
  PROVE  /\ LinkInv' /\ ShellInv' /\ IsFiniteSet(hosted') /\ hosted' \subseteq Spawned
         /\ updates' \in Seq([id : Spawned, status : {"active"} \cup Terminal])
<1>1. IsFiniteSet(hosted') /\ hosted' \subseteq Spawned
  BY FS_RemoveElement DEF HostTypes
<1>2. CASE link = "closed"
  <2>1. updates' = updates /\ updates = <<>> /\ Len(updates) = 0
    BY <1>2 DEF Tells, LinkInv
  <2>2. updates' = <<>> /\ commands' = <<>>
    BY <1>2, <2>1 DEF LinkInv
  <2>3. LinkInv'
    BY <1>2, <2>1, <2>2 DEF LinkInv
  <2>4. ShellInv'
    BY <1>2, <2>1, <2>2 DEF ShellInv
  <2> QED BY <1>1, <2>1, <2>3, <2>4 DEF HostTypes
<1>3. CASE link # "closed"
  <2>1. /\ IsFiniteSet({a}) /\ Cardinality({a}) = 1 /\ {a} \subseteq Spawned
        /\ st \in {"active"} \cup Terminal /\ st # "active"
    BY FS_Singleton DEF Terminal
  <2>2. /\ updates' \in Seq([id : Spawned, status : {"active"} \cup Terminal])
        /\ Len(updates) \in Nat
        /\ \A i \in 1 .. Len(updates) : updates'[i] = updates[i] /\ i \in 1 .. Len(updates')
        /\ \A i \in 1 .. Len(updates') : i \in 1 .. Len(updates)
             \/ (updates'[i].id \in {a} /\ updates'[i].status = st)
        /\ \A i \in 1 .. Cardinality({a}) :
             /\ Len(updates) + i \in 1 .. Len(updates')
             /\ updates'[Len(updates) + i].id \in {a} /\ updates'[Len(updates) + i].status = st
    BY <1>3, <2>1, ToldUpdates DEF HostTypes
  <2> DEFINE k == Len(updates) + 1
  <2>8. /\ k \in 1 .. Len(updates') /\ updates'[k].id = a /\ updates'[k].status = st
        /\ \A i \in 1 .. Len(updates) : i < k
    <3>1. 1 \in 1 .. Cardinality({a})
      BY <2>1
    <3>2. /\ k \in 1 .. Len(updates')
          /\ updates'[k].id \in {a} /\ updates'[k].status = st
      BY <2>2, <3>1
    <3>3. \A i \in 1 .. Len(updates) : i < k
      BY <2>2
    <3> QED BY <3>2, <3>3
  <2> HIDE DEF k
  <2>3. EndOnItsWay(a)'
    BY <2>8 DEF EndOnItsWay
  <2>4. \A b : EndOnItsWay(b) => EndOnItsWay(b)'
    BY <2>2, EndStays DEF HostTypes
  <2>5. /\ \A b \in Spawned : statuses'[b] = "active" /\ link' # "closed" =>
             b \in hosted' \cup missed' \/ EndOnItsWay(b)' \/ SpawnComing(b)'
        /\ \A b \in Spawned : Lives(b)' =>
             b \in hosted' \cup missed' \/ EndOnItsWay(b)' \/ statuses'[b] = "gone" \/ link' = "closed"
    BY <2>3, <2>4 DEF ShellInv
  <2>6. \A i \in 1 .. Len(updates') : updates'[i].status = "active" =>
          updates'[i].id \in hosted' \cup missed' \/ EndBehind(i)'
    <3> TAKE i \in 1 .. Len(updates')
    <3> HAVE updates'[i].status = "active"
    <3>1. i \in 1 .. Len(updates) /\ updates'[i] = updates[i]
      BY <2>1, <2>2
    <3>2. updates[i].id \in hosted \cup missed \/ EndBehind(i)
      BY <3>1 DEF ShellInv
    <3>3. CASE updates[i].id = a
      BY <2>8, <3>1, <3>3 DEF EndBehind
    <3>4. CASE EndBehind(i)
      BY <2>2, <3>1, <3>4 DEF EndBehind
    <3> QED BY <3>1, <3>2, <3>3, <3>4
  <2>7. LinkInv'
    <3>1. link' # "up" => \A i \in 1 .. Len(updates') : updates'[i].status # "active"
      BY <2>1, <2>2 DEF LinkInv
    <3> QED BY <1>3, <3>1 DEF LinkInv
  <2>9. ShellInv'
    BY <2>5, <2>6 DEF ShellInv
  <2> QED BY <1>1, <2>2, <2>7, <2>9
<1> QED BY <1>2, <1>3

(* A kill and a stop at the host end a sub-agent the same way: it leaves the host's
   list, and its end is on its way or its launch is cut. *)
LEMMA StopKeeps ==
  ASSUME HostInv, NEW a \in Spawned, Stop(a), UNCHANGED <<statuses, link, connected, missed>>,
         commands' \in Seq([cmd : {"spawn", "message", "kill"}, id : Spawned]), SpawnsOnce',
         link # "up" => commands' = commands,
         \A b : SpawnComing(b)' <=> SpawnComing(b)
  PROVE  HostInv'
<1>1. /\ hosted' = hosted \ {a} /\ cut' = IF Launching(a) THEN cut \cup {a} ELSE cut
      /\ Tells({a}, "killed")
      /\ pi' = [b \in Spawned |-> IF b \in {a} /\ pi[b] = "running" THEN "signalled" ELSE pi[b]]
  BY DEF Stop, Signalled
<1>3. \A b \in Spawned : /\ pi'[b] = "running" => b # a /\ pi[b] = "running"
                         /\ pi[b] = "none" => pi'[b] = "none"
                         /\ Lives(b)' => Lives(b)
                         /\ Launching(b)' <=> Launching(b)
  BY <1>1 DEF Lives, Launching
<1>2. /\ LinkInv' /\ ShellInv' /\ IsFiniteSet(hosted') /\ hosted' \subseteq Spawned
      /\ updates' \in Seq([id : Spawned, status : {"active"} \cup Terminal])
  BY <1>1, <1>3, EndTold DEF HostInv, Terminal
<1>4. HostTypes'
  BY <1>1, <1>2 DEF HostInv, HostTypes
<1>5. SpawnInv'
  BY <1>3 DEF HostInv, SpawnInv, HostTypes
<1>6. ListedInv'
  BY <1>1, <1>3 DEF HostInv, ListedInv, ProcessesAreListed
<1> QED BY <1>2, <1>4, <1>5, <1>6 DEF HostInv

(* The Shell's own steps leave the bridge alone. *)
LEMMA ShellKeeps ==
  ASSUME HostInv, NEW a \in Spawned, ShellSpawns(a) \/ ShellSends(a) \/ ShellKills(a)
  PROVE  HostInv'
<1>1. UNCHANGED <<link, connected, updates, hosted, pi, cut>>
  BY DEF ShellSpawns, ShellSends, ShellKills, bridgeSide
<1>2. ListedInv' /\ \A b : (Lives(b)' <=> Lives(b))
  BY <1>1 DEF HostInv, ListedInv, ProcessesAreListed, Launching, Lives
<1>3. /\ \A b : EndOnItsWay(b)' <=> EndOnItsWay(b)
      /\ \A i : EndBehind(i)' <=> EndBehind(i)
  BY <1>1 DEF EndOnItsWay, EndBehind
<1>4. ASSUME commands' = commands
      PROVE  /\ commands' \in Seq([cmd : {"spawn", "message", "kill"}, id : Spawned])
             /\ SpawnsOnce' /\ \A b : SpawnComing(b)' <=> SpawnComing(b)
  BY <1>4 DEF HostInv, HostTypes, SpawnInv, SpawnsOnce, SpawnComing
<1>5. CASE ShellSpawns(a)
  <2>1. /\ connected /\ statuses[a] = "none" /\ statuses' = [statuses EXCEPT ![a] = "active"]
        /\ Emit("spawn", a) /\ ~SpawnComing(a)
        /\ missed' = IF link = "up" THEN missed ELSE missed \cup {a}
    BY <1>5 DEF ShellSpawns, HostInv, SpawnInv
  <2>2. /\ commands' \in Seq([cmd : {"spawn", "message", "kill"}, id : Spawned])
        /\ SpawnsOnce' /\ (link # "up" => commands' = commands)
        /\ \A b : SpawnComing(b)' <=> SpawnComing(b) \/ (link = "up" /\ b = a)
    <3>1. CASE link = "up"
      BY <2>1, <3>1, CommandEmitted DEF HostInv, SpawnInv
    <3>2. CASE link # "up"
      BY <1>4, <2>1, <3>2 DEF Emit
    <3> QED BY <3>1, <3>2
  <2>3. /\ statuses' = [b \in Spawned |-> statuses'[b]] /\ statuses'[a] = "active"
        /\ \A b \in Spawned : b # a => statuses'[b] = statuses[b]
    BY <2>1 DEF HostInv, HostTypes
  <2>4. HostTypes'
    BY <1>1, <2>2, <2>3 DEF HostInv, HostTypes
  <2>5. SpawnInv'
    BY <1>1, <2>1, <2>2, <2>3 DEF HostInv, SpawnInv
  <2>6. LinkInv'
    BY <1>1, <2>1, <2>2 DEF HostInv, LinkInv
  <2>7. ~Lives(a)
    BY <2>1 DEF HostInv, SpawnInv, Lives, Launching
  <2>8. ShellInv'
    BY <1>1, <1>2, <1>3, <2>1, <2>2, <2>3, <2>7 DEF HostInv, ShellInv
  <2> QED BY <1>2, <2>4, <2>5, <2>6, <2>8 DEF HostInv
<1>6. CASE ShellSends(a) \/ ShellKills(a)
  <2>1. /\ statuses' = [b \in Spawned |-> statuses'[b]] /\ missed' = missed
        /\ \A b \in Spawned : statuses'[b] = statuses[b] \/ statuses'[b] = "gone"
        /\ \E cmd \in {"message", "kill"} : Emit(cmd, a)
    BY <1>6 DEF ShellSends, ShellKills, HostInv, HostTypes
  <2>2. /\ commands' \in Seq([cmd : {"spawn", "message", "kill"}, id : Spawned])
        /\ SpawnsOnce' /\ (link # "up" => commands' = commands)
        /\ \A b : SpawnComing(b)' <=> SpawnComing(b)
    <3>1. CASE link = "up"
      BY <2>1, <3>1, CommandEmitted DEF HostInv, SpawnInv
    <3>2. CASE link # "up"
      BY <1>4, <2>1, <3>2 DEF Emit
    <3> QED BY <3>1, <3>2
  <2>3. HostTypes' /\ SpawnInv'
    BY <1>1, <2>1, <2>2 DEF HostInv, HostTypes, SpawnInv
  <2>4. LinkInv'
    BY <1>1, <2>1, <2>2 DEF HostInv, LinkInv
  <2>5. ShellInv'
    BY <1>1, <1>2, <1>3, <2>1, <2>2 DEF HostInv, ShellInv
  <2> QED BY <1>2, <2>3, <2>4, <2>5 DEF HostInv
<1> QED BY <1>5, <1>6

(* The Shell hears an update: an end it hears of ends its being active as well. *)
LEMMA HearsKeeps ==
  ASSUME HostInv, ShellHears
  PROVE  HostInv'
<1> DEFINE u == Head(updates)
           U == [id : Spawned, status : {"active"} \cup Terminal]
<1>1. /\ link = "up" /\ updates # <<>> /\ updates' = Tail(updates) /\ updates \in Seq(U)
      /\ statuses' = [statuses EXCEPT ![u.id] = IF @ \in {"none", "gone"} THEN @
                        ELSE IF u.status \in Terminal THEN "gone" ELSE "active"]
      /\ UNCHANGED <<link, connected, commands, hosted, missed, pi, cut>>
  BY DEF ShellHears, HostInv, HostTypes
<1>2. /\ u = updates[1] /\ u \in U /\ 1 \in 1 .. Len(updates) /\ Len(updates) \in Nat
      /\ updates' \in Seq(U)
      /\ \A i \in 1 .. Len(updates') : updates'[i] = updates[i + 1] /\ i + 1 \in 1 .. Len(updates)
      /\ \A i \in 1 .. Len(updates) : i # 1 => i - 1 \in 1 .. Len(updates') /\ updates'[i - 1] = updates[i]
  <2> HIDE DEF U
  <2> QED BY <1>1, HeadTail
<1>3. u.id \in Spawned /\ (u.status \in Terminal \/ u.status = "active") /\ "active" \notin Terminal
  BY <1>2 DEF Terminal
<1>4. /\ statuses' = [b \in Spawned |-> statuses'[b]]
      /\ \A b \in Spawned : b # u.id => statuses'[b] = statuses[b]
      /\ statuses'[u.id] = IF statuses[u.id] \in {"none", "gone"} THEN statuses[u.id]
                           ELSE IF u.status \in Terminal THEN "gone" ELSE "active"
  BY <1>1, <1>3 DEF HostInv, HostTypes
<1>5. ASSUME NEW b, EndOnItsWay(b), ~(u.id = b /\ u.status \in Terminal) PROVE EndOnItsWay(b)'
  <2>1. PICK i \in 1 .. Len(updates) : updates[i].id = b /\ updates[i].status \in Terminal
    BY <1>5 DEF EndOnItsWay
  <2>2. i # 1
    BY <1>2, <1>5, <2>1
  <2> QED BY <1>2, <2>1, <2>2 DEF EndOnItsWay
<1>6. /\ SpawnsOnce' <=> SpawnsOnce
      /\ \A b : SpawnComing(b)' <=> SpawnComing(b)
  BY <1>1 DEF SpawnsOnce, SpawnComing
<1>7. HostTypes'
  BY <1>1, <1>2, <1>4 DEF HostInv, HostTypes
<1>8. SpawnInv'
  BY <1>1, <1>3, <1>4, <1>6 DEF HostInv, SpawnInv
<1>9. ListedInv' /\ \A b : (Lives(b)' <=> Lives(b))
  BY <1>1 DEF HostInv, ListedInv, ProcessesAreListed, Launching, Lives
<1>10. \A b \in Spawned : statuses'[b] = "active" =>
         b \in hosted \cup missed \/ EndOnItsWay(b)' \/ SpawnComing(b)
  <2> TAKE b \in Spawned
  <2> HAVE statuses'[b] = "active"
  <2>1. CASE u.status \in Terminal
    <3>1. b # u.id /\ statuses[b] = "active"
      BY <1>3, <1>4, <2>1
    <3> QED BY <1>1, <1>5, <3>1 DEF HostInv, ShellInv
  <2>2. CASE u.status = "active"
    <3>1. b \in hosted \cup missed \/ EndOnItsWay(b) \/ SpawnComing(b)
      <4>1. CASE b = u.id
        <5>1. u.id \in hosted \cup missed \/ EndBehind(1)
          BY <1>2, <2>2 DEF HostInv, ShellInv
        <5>2. EndBehind(1) => EndOnItsWay(u.id)
          BY <1>2 DEF EndBehind, EndOnItsWay
        <5> QED BY <4>1, <5>1, <5>2
      <4>2. CASE b # u.id
        BY <1>1, <1>4, <4>2 DEF HostInv, ShellInv
      <4> QED BY <4>1, <4>2
    <3> QED BY <1>3, <1>5, <2>2, <3>1
  <2> QED BY <1>3, <2>1, <2>2
<1>11. ASSUME NEW i \in 1 .. Len(updates'), updates'[i].status = "active"
       PROVE  updates'[i].id \in hosted \cup missed \/ EndBehind(i)'
  <2>1. updates[i + 1] = updates'[i] /\ i + 1 \in 1 .. Len(updates)
    BY <1>2
  <2>2. updates[i + 1].id \in hosted \cup missed \/ EndBehind(i + 1)
    BY <1>11, <2>1 DEF HostInv, ShellInv
  <2>3. CASE EndBehind(i + 1)
    <3>1. PICK j \in 1 .. Len(updates) : /\ i + 1 < j /\ updates[j].id = updates[i + 1].id
                                         /\ updates[j].status \in Terminal
      BY <2>3 DEF EndBehind
    <3>2. j # 1 /\ i < j - 1
      BY <2>1, <3>1
    <3>3. j - 1 \in 1 .. Len(updates') /\ updates'[j - 1] = updates[j]
      BY <1>2, <3>2
    <3> QED BY <2>1, <3>1, <3>2, <3>3 DEF EndBehind
  <2> QED BY <2>1, <2>2, <2>3
<1>12. \A b \in Spawned : Lives(b) => b \in hosted \cup missed \/ EndOnItsWay(b)' \/ statuses'[b] = "gone"
  <2> TAKE b \in Spawned
  <2> HAVE Lives(b)
  <2>1. statuses[b] # "none"
    BY DEF HostInv, SpawnInv, Lives, Launching
  <2>2. b \in hosted \cup missed \/ EndOnItsWay(b) \/ statuses[b] = "gone"
    BY <1>1 DEF HostInv, ShellInv
  <2>3. CASE u.id = b /\ u.status \in Terminal
    BY <1>4, <2>1, <2>3
  <2>4. statuses[b] = "gone" => statuses'[b] = "gone"
    BY <1>4
  <2> QED BY <1>5, <2>2, <2>3, <2>4
<1>13. ShellInv'
  BY <1>1, <1>6, <1>9, <1>10, <1>11, <1>12 DEF ShellInv
<1>14. LinkInv'
  BY <1>1 DEF HostInv, LinkInv
<1> QED BY <1>7, <1>8, <1>9, <1>13, <1>14 DEF HostInv

(* A socket that is gone leaves nothing on its way: whose spawn or end it carried is
   missed. *)
LEMMA BrokenKeeps ==
  ASSUME HostInv, Broken, link # "closed"
  PROVE  HostInv'
<1>1. /\ link' = "down" /\ commands' = <<>> /\ updates' = <<>>
      /\ UNCHANGED <<statuses, connected, hosted, pi, cut>>
      /\ \A b \in Spawned : b \in missed' <=>
           b \in missed \/ ((connected \/ Lives(b)) /\ (SpawnComing(b) \/ EndOnItsWay(b)))
  BY DEF Broken
<1>2. /\ \A b : ~SpawnComing(b)' /\ ~EndOnItsWay(b)' /\ (Lives(b)' <=> Lives(b)) /\ (Launching(b)' <=> Launching(b))
      /\ SpawnsOnce' /\ Len(updates') = 0
  BY <1>1 DEF SpawnComing, EndOnItsWay, Lives, Launching, SpawnsOnce
<1>3. /\ commands' \in Seq([cmd : {"spawn", "message", "kill"}, id : Spawned])
      /\ updates' \in Seq([id : Spawned, status : {"active"} \cup Terminal])
  BY <1>1
<1>4. HostTypes' /\ SpawnInv' /\ ListedInv'
  BY <1>1, <1>2, <1>3 DEF HostInv, HostTypes, SpawnInv, ListedInv, ProcessesAreListed
<1>5. LinkInv'
  BY <1>1, <1>2 DEF HostInv, LinkInv
<1>6. \A b \in Spawned : statuses[b] = "active" => connected
  BY DEF HostInv, LinkInv
<1>7. ShellInv'
  BY <1>1, <1>2, <1>6 DEF HostInv, ShellInv
<1> QED BY <1>4, <1>5, <1>7 DEF HostInv

(* The gateway notices the close: nothing of the host is active for it any more. *)
LEMMA NoticedKeeps ==
  ASSUME HostInv, CloseNoticed
  PROVE  HostInv'
<1>1. /\ link # "up" /\ missed' = {b \in missed : Lives(b)}
      /\ UNCHANGED <<link, commands, updates, hosted, pi, cut>>
      /\ statuses' = [b \in Spawned |-> IF statuses[b] = "active" THEN "detached" ELSE statuses[b]]
      /\ connected' = FALSE
  BY DEF CloseNoticed, bridgeSide
<1>2. /\ \A b : (SpawnComing(b)' <=> SpawnComing(b)) /\ (EndOnItsWay(b)' <=> EndOnItsWay(b))
      /\ \A b : (Lives(b)' <=> Lives(b)) /\ (Launching(b)' <=> Launching(b))
      /\ (SpawnsOnce' <=> SpawnsOnce)
  BY <1>1 DEF SpawnComing, EndOnItsWay, Lives, Launching, SpawnsOnce
<1>3. \A b \in Spawned : /\ statuses'[b] # "active" /\ (statuses'[b] = "none" <=> statuses[b] = "none")
                         /\ (statuses'[b] = "gone" <=> statuses[b] = "gone")
  BY <1>1
<1>4. HostTypes' /\ SpawnInv' /\ ListedInv'
  BY <1>1, <1>2, <1>3 DEF HostInv, HostTypes, SpawnInv, ListedInv, ProcessesAreListed
<1>5. LinkInv'
  BY <1>1, <1>3 DEF HostInv, LinkInv
<1>6. \A i \in 1 .. Len(updates) : updates[i].status # "active"
  BY <1>1 DEF HostInv, LinkInv
<1>7. ShellInv'
  BY <1>1, <1>2, <1>3, <1>6 DEF HostInv, ShellInv
<1> QED BY <1>4, <1>5, <1>7 DEF HostInv

(* dispose() stops what is listed, and no launch or process is left unaccounted for. *)
LEMMA DisposeKeeps ==
  ASSUME HostInv, DisposeHost
  PROVE  HostInv'
<1>1. /\ link' = "closed" /\ commands' = <<>> /\ updates' = <<>> /\ hosted' = {}
      /\ cut' = cut \cup {b \in hosted : Launching(b)}
      /\ pi' = [b \in Spawned |-> IF b \in hosted /\ pi[b] = "running" THEN "signalled" ELSE pi[b]]
      /\ UNCHANGED <<statuses, connected, missed>>
  BY DEF DisposeHost, Signalled
<1>2. /\ \A b : ~SpawnComing(b)'
      /\ SpawnsOnce' /\ Len(updates') = 0 /\ IsFiniteSet(hosted')
  BY <1>1, FS_EmptySet DEF SpawnComing, SpawnsOnce
<1>3. /\ commands' \in Seq([cmd : {"spawn", "message", "kill"}, id : Spawned])
      /\ updates' \in Seq([id : Spawned, status : {"active"} \cup Terminal])
  BY <1>1
<1>4. \A b \in Spawned : /\ (Launching(b)' <=> Launching(b)) /\ (pi[b] = "none" => pi'[b] = "none")
                         /\ pi'[b] = "running" => pi[b] = "running" /\ b \notin hosted
  BY <1>1 DEF Launching
<1>5. HostTypes' /\ SpawnInv'
  BY <1>1, <1>2, <1>3, <1>4 DEF HostInv, HostTypes, SpawnInv
<1>6. ListedInv'
  BY <1>1, <1>4 DEF HostInv, ListedInv, ProcessesAreListed
<1>7. LinkInv' /\ ShellInv'
  BY <1>1, <1>2 DEF HostInv, LinkInv, ShellInv
<1> QED BY <1>5, <1>6, <1>7 DEF HostInv

(* A reconnecting host declares exactly what it lists active. *)
LEMMA ReconnectKeeps ==
  ASSUME HostInv, Reconnect
  PROVE  HostInv'
<1>1. /\ link = "down" /\ link' = "up" /\ connected' = TRUE /\ Tells(hosted, "active")
      /\ UNCHANGED <<statuses, commands, hosted, missed, pi, cut>>
  BY DEF Reconnect
<1>2. /\ updates' \in Seq([id : Spawned, status : {"active"} \cup Terminal])
      /\ \A i \in 1 .. Len(updates) : updates'[i] = updates[i] /\ i \in 1 .. Len(updates')
      /\ \A i \in 1 .. Len(updates') : i \in 1 .. Len(updates)
           \/ (updates'[i].id \in hosted /\ updates'[i].status = "active")
  <2>1. link # "closed" /\ IsFiniteSet(hosted) /\ hosted \subseteq Spawned
        /\ "active" \in {"active"} \cup Terminal
    BY <1>1 DEF HostInv, HostTypes
  <2> QED BY <1>1, <2>1, ToldUpdates DEF HostInv, HostTypes
<1>3. /\ \A b : SpawnComing(b)' <=> SpawnComing(b)
      /\ \A b : (Lives(b)' <=> Lives(b)) /\ (Launching(b)' <=> Launching(b))
      /\ \A b : EndOnItsWay(b) => EndOnItsWay(b)'
  <2>1. \A b : EndOnItsWay(b) => EndOnItsWay(b)'
    BY <1>2, EndStays DEF HostInv, HostTypes
  <2> QED BY <1>1, <2>1 DEF SpawnComing, Lives, Launching
<1>4. HostTypes'
  BY <1>1, <1>2 DEF HostInv, HostTypes
<1>5. SpawnInv'
  BY <1>1, <1>3 DEF HostInv, SpawnInv, SpawnsOnce
<1>6. ListedInv' /\ LinkInv'
  BY <1>1, <1>3 DEF HostInv, ListedInv, ProcessesAreListed, LinkInv
<1>7. ASSUME NEW i \in 1 .. Len(updates'), updates'[i].status = "active"
      PROVE  updates'[i].id \in hosted \cup missed \/ EndBehind(i)'
  <2>1. CASE i \in 1 .. Len(updates)
    <3>1. updates'[i] = updates[i] /\ (updates[i].id \in hosted \cup missed \/ EndBehind(i))
      BY <1>2, <1>7, <2>1 DEF HostInv, ShellInv
    <3> QED BY <1>2, <3>1 DEF EndBehind
  <2> QED BY <1>2, <2>1
<1>8. ShellInv'
  BY <1>1, <1>3, <1>7 DEF HostInv, ShellInv
<1> QED BY <1>4, <1>5, <1>6, <1>8 DEF HostInv

(* A spawn that arrives lists its sub-agent, whose launch begins. *)
LEMMA SpawnKeeps ==
  ASSUME HostInv, NEW a \in Spawned, OnSpawn(a)
  PROVE  HostInv'
<1>1. /\ hosted' = hosted \cup {a} /\ Received("spawn", a) /\ pi' = [pi EXCEPT ![a] = "options"]
      /\ UNCHANGED <<statuses, link, connected, missed, updates, cut>>
  BY DEF OnSpawn
<1>2. /\ commands # <<>> /\ commands' \in Seq([cmd : {"spawn", "message", "kill"}, id : Spawned])
      /\ SpawnsOnce' /\ SpawnComing(a) /\ ~SpawnComing(a)'
      /\ \A b : SpawnComing(b)' => SpawnComing(b)
      /\ \A b : SpawnComing(b) => SpawnComing(b)' \/ b = a
  BY <1>1, CommandTaken DEF HostInv, SpawnInv
<1>3. statuses[a] # "none" /\ link = "up"
  BY <1>2 DEF HostInv, SpawnInv, LinkInv
<1>4. /\ pi' = [b \in Spawned |-> pi'[b]] /\ pi'[a] = "options"
      /\ \A b \in Spawned : b # a => pi'[b] = pi[b]
      /\ \A b \in Spawned : b # a => (Lives(b)' <=> Lives(b)) /\ (Launching(b)' <=> Launching(b))
  BY <1>1 DEF HostInv, HostTypes, Lives, Launching
<1>5. HostTypes'
  BY <1>1, <1>2, <1>4, FS_AddElement DEF HostInv, HostTypes
<1>6. SpawnInv'
  BY <1>1, <1>2, <1>3, <1>4 DEF HostInv, SpawnInv
<1>7. ListedInv' /\ LinkInv'
  BY <1>1, <1>3, <1>4 DEF HostInv, ListedInv, ProcessesAreListed, LinkInv
<1>8. /\ \A b : EndOnItsWay(b)' <=> EndOnItsWay(b)
      /\ \A i : EndBehind(i)' <=> EndBehind(i)
  BY <1>1 DEF EndOnItsWay, EndBehind
<1>9. ShellInv'
  BY <1>1, <1>2, <1>4, <1>8 DEF HostInv, ShellInv
<1> QED BY <1>5, <1>6, <1>7, <1>9 DEF HostInv

(* A launch goes on, to its process or to nothing. *)
LEMMA LaunchKeeps ==
  ASSUME HostInv, UNCHANGED <<statuses, link, connected, missed, commands, updates, hosted, cut>>,
         pi' = [b \in Spawned |-> pi'[b]],
         \A b \in Spawned : pi'[b] = pi[b] \/ (Launching(b) /\ pi'[b] \in {"none", "api", "running"})
  PROVE  HostInv'
<1>1. /\ \A b : (SpawnComing(b)' <=> SpawnComing(b)) /\ (EndOnItsWay(b)' <=> EndOnItsWay(b))
      /\ \A i : EndBehind(i)' <=> EndBehind(i)
      /\ (SpawnsOnce' <=> SpawnsOnce)
  BY DEF SpawnComing, EndOnItsWay, EndBehind, SpawnsOnce
<1>2. \A b \in Spawned : /\ (Lives(b)' => Lives(b)) /\ (pi[b] = "none" => pi'[b] = "none")
                         /\ Launching(b)' => Launching(b)
                         /\ pi'[b] = "running" => pi[b] = "running" \/ Launching(b)
  BY DEF Lives, Launching
<1>3. HostTypes' /\ SpawnInv'
  BY <1>1, <1>2 DEF HostInv, HostTypes, SpawnInv
<1>4. ListedInv'
  BY <1>2 DEF HostInv, ListedInv, ProcessesAreListed
<1>5. LinkInv' /\ ShellInv'
  BY <1>1, <1>2 DEF HostInv, LinkInv, ShellInv
<1> QED BY <1>3, <1>4, <1>5 DEF HostInv

(* A launch that found no folder, or a process that exits unasked, fails its sub-agent:
   the Shell is told. *)
LEMMA FailKeeps ==
  ASSUME HostInv, NEW a \in Spawned, NEW stage \in {"none", "exited"}, Lives(a),
         pi' = [pi EXCEPT ![a] = stage], hosted' = hosted \ {a}, Tells({a}, "error"),
         UNCHANGED <<statuses, link, connected, missed, commands, cut>>
  PROVE  HostInv'
<1>1. /\ \A b : SpawnComing(b)' <=> SpawnComing(b)
      /\ (SpawnsOnce' <=> SpawnsOnce)
  BY DEF SpawnComing, SpawnsOnce
<1>2. /\ pi' = [b \in Spawned |-> pi'[b]] /\ ~Lives(a)' /\ pi'[a] # "running" /\ ~Launching(a)'
      /\ \A b \in Spawned : b # a => pi'[b] = pi[b]
      /\ \A b \in Spawned : b # a => (Lives(b)' <=> Lives(b)) /\ (Launching(b)' <=> Launching(b))
  BY DEF HostInv, HostTypes, Lives, Launching
<1>3. /\ LinkInv' /\ ShellInv' /\ IsFiniteSet(hosted') /\ hosted' \subseteq Spawned
      /\ updates' \in Seq([id : Spawned, status : {"active"} \cup Terminal])
  BY <1>1, <1>2, EndTold DEF HostInv, Terminal
<1>4. statuses[a] # "none" /\ ~SpawnComing(a)
  BY DEF HostInv, SpawnInv, Lives, Launching
<1>5. HostTypes' /\ SpawnInv'
  BY <1>1, <1>2, <1>3, <1>4 DEF HostInv, HostTypes, SpawnInv
<1>6. ListedInv'
  BY <1>2 DEF HostInv, ListedInv, ProcessesAreListed
<1> QED BY <1>3, <1>5, <1>6 DEF HostInv

(* A process speaks of a sub-agent the Shell has as detached: it is listed, or missed. *)
LEMMA StreamsKeeps ==
  ASSUME HostInv, NEW a \in Spawned, Streams(a)
  PROVE  HostInv'
<1> DEFINE U == [id : Spawned, status : {"active"} \cup Terminal]
           u == [id |-> a, status |-> "active"]
<1>1. /\ link = "up" /\ pi[a] \in {"running", "signalled"} /\ statuses[a] = "detached"
      /\ updates' = Append(updates, u) /\ updates \in Seq(U) /\ u \in U
      /\ \A i \in 1 .. Len(updates) : updates[i].id # a
      /\ UNCHANGED <<statuses, link, connected, missed, commands, hosted, pi, cut>>
  BY DEF Streams, shellSide, HostInv, HostTypes
<1>2. /\ updates' \in Seq(U) /\ Len(updates') = Len(updates) + 1 /\ Len(updates) \in Nat
      /\ \A i \in 1 .. Len(updates) : updates'[i] = updates[i] /\ i \in 1 .. Len(updates')
      /\ updates'[Len(updates) + 1] = u
      /\ \A i \in 1 .. Len(updates') : i = Len(updates) + 1 \/ i \in 1 .. Len(updates)
  <2> HIDE DEF U, u
  <2> QED BY <1>1, Appended
<1>3. u.id = a /\ u.status = "active"
  OBVIOUS
<1>4. a \in hosted \cup missed
  <2>1. ~EndOnItsWay(a) /\ Lives(a)
    BY <1>1 DEF EndOnItsWay, Lives
  <2> QED BY <1>1, <2>1 DEF HostInv, ShellInv
<1>5. /\ \A b : SpawnComing(b)' <=> SpawnComing(b)
      /\ (SpawnsOnce' <=> SpawnsOnce)
      /\ \A b : (Lives(b)' <=> Lives(b)) /\ (Launching(b)' <=> Launching(b))
  BY <1>1 DEF SpawnComing, SpawnsOnce, Lives, Launching
<1> HIDE DEF u
<1>6. \A b : EndOnItsWay(b) => EndOnItsWay(b)'
  BY <1>2 DEF EndOnItsWay
<1>7. \A i \in 1 .. Len(updates) : EndBehind(i) => EndBehind(i)'
  BY <1>2 DEF EndBehind
<1>8. \A i \in 1 .. Len(updates') : updates'[i].status = "active" =>
        updates'[i].id \in hosted \cup missed \/ EndBehind(i)'
  BY <1>2, <1>3, <1>4, <1>7 DEF HostInv, ShellInv
<1>9. HostTypes' /\ SpawnInv' /\ ListedInv'
  BY <1>1, <1>2, <1>5 DEF HostInv, HostTypes, SpawnInv, ListedInv, ProcessesAreListed
<1>10. LinkInv'
  BY <1>1 DEF HostInv, LinkInv
<1>11. ShellInv'
  BY <1>1, <1>5, <1>6, <1>8 DEF HostInv, ShellInv
<1> QED BY <1>9, <1>10, <1>11 DEF HostInv

(* Steps that only take a command that is no spawn, or nothing. *)
LEMMA NothingMoves ==
  ASSUME HostInv, UNCHANGED <<statuses, link, connected, updates, hosted, missed, pi, cut>>,
         commands' \in Seq([cmd : {"spawn", "message", "kill"}, id : Spawned]), SpawnsOnce',
         link # "up" => commands' = commands,
         \A b : SpawnComing(b)' <=> SpawnComing(b)
  PROVE  HostInv'
<1>1. /\ \A b : EndOnItsWay(b)' <=> EndOnItsWay(b)
      /\ \A i : EndBehind(i)' <=> EndBehind(i)
      /\ \A b : (Lives(b)' <=> Lives(b)) /\ (Launching(b)' <=> Launching(b))
  BY DEF EndOnItsWay, EndBehind, Lives, Launching
<1>2. HostTypes' /\ SpawnInv'
  BY DEF HostInv, HostTypes, SpawnInv
<1>3. ListedInv' /\ LinkInv' /\ ShellInv'
  BY <1>1 DEF HostInv, ListedInv, ProcessesAreListed, LinkInv, ShellInv
<1> QED BY <1>2, <1>3 DEF HostInv

(* Every step of the Shell, the host, a launch or a process keeps the invariant. *)
LEMMA HostInvKept ==
  ASSUME HostInv, [HostNext]_hostVars
  PROVE  HostInv'
<1>0. ASSUME commands' = commands
      PROVE  /\ commands' \in Seq([cmd : {"spawn", "message", "kill"}, id : Spawned])
             /\ SpawnsOnce' /\ \A b : SpawnComing(b)' <=> SpawnComing(b)
  BY <1>0 DEF HostInv, HostTypes, SpawnInv, SpawnsOnce, SpawnComing
<1>1. ASSUME NEW a \in Spawned, NEW cmd, cmd # "spawn", Received(cmd, a)
      PROVE  /\ commands' \in Seq([cmd : {"spawn", "message", "kill"}, id : Spawned])
             /\ SpawnsOnce' /\ link = "up"
             /\ \A b : SpawnComing(b)' <=> SpawnComing(b)
  <2>1. /\ commands # <<>> /\ commands' \in Seq([cmd : {"spawn", "message", "kill"}, id : Spawned])
        /\ SpawnsOnce'
        /\ \A b : SpawnComing(b)' => SpawnComing(b)
        /\ \A b : SpawnComing(b) => SpawnComing(b)'
    BY <1>1, CommandTaken DEF HostInv, SpawnInv
  <2>2. link = "up"
    BY <2>1 DEF HostInv, LinkInv
  <2>3. \A b : SpawnComing(b)' <=> SpawnComing(b)
    BY <2>1
  <2> QED BY <2>1, <2>2, <2>3
<1>2. ASSUME NEW a \in Spawned, OnMessage(a) PROVE HostInv'
  <2>1. /\ Received("message", a)
        /\ UNCHANGED <<statuses, link, connected, updates, hosted, missed, pi, cut>>
    BY <1>2 DEF OnMessage
  <2>2. /\ commands' \in Seq([cmd : {"spawn", "message", "kill"}, id : Spawned])
        /\ SpawnsOnce' /\ link = "up"
        /\ \A b : SpawnComing(b)' <=> SpawnComing(b)
    BY <1>1, <2>1
  <2> QED BY <2>1, <2>2, NothingMoves
<1>3. ASSUME NEW a \in Spawned, OnKill(a) PROVE HostInv'
  <2>1. Received("kill", a) /\ UNCHANGED <<statuses, link, connected, missed>>
    BY <1>3 DEF OnKill
  <2>2. /\ commands' \in Seq([cmd : {"spawn", "message", "kill"}, id : Spawned])
        /\ SpawnsOnce' /\ link = "up"
        /\ \A b : SpawnComing(b)' <=> SpawnComing(b)
    BY <1>1, <2>1
  <2>3. CASE Stop(a)
    BY <2>1, <2>2, <2>3, StopKeeps
  <2>4. CASE UNCHANGED <<stopping, pi, hosted, cut, updates>>
    BY <2>1, <2>2, <2>4, NothingMoves
  <2> QED BY <1>3, <2>3, <2>4 DEF OnKill
<1>4. ASSUME NEW a \in Spawned, StopAgent(a) PROVE HostInv'
  <2>1. Stop(a) /\ UNCHANGED <<statuses, link, connected, missed, commands>>
    BY <1>4 DEF StopAgent, shellSide
  <2> QED BY <1>0, <2>1, StopKeeps
<1>5. ASSUME NEW a \in Spawned, OnAgentExit(a) PROVE HostInv'
  <2>1. /\ pi' = [pi EXCEPT ![a] = "exited"] /\ pi[a] \in {"running", "signalled"}
        /\ UNCHANGED <<statuses, link, connected, missed, commands, cut>>
        /\ \/ UNCHANGED <<hosted, updates>>
           \/ hosted' = hosted \ {a} /\ Tells({a}, "error")
    BY <1>5 DEF OnAgentExit, shellSide
  <2>2. CASE hosted' = hosted \ {a} /\ Tells({a}, "error")
    BY <2>1, <2>2, FailKeeps DEF Lives
  <2>3. CASE UNCHANGED <<hosted, updates>>
    <3>1. /\ pi' = [b \in Spawned |-> pi'[b]] /\ pi'[a] = "exited" /\ statuses[a] # "none" /\ ~SpawnComing(a)
          /\ \A b \in Spawned : b # a => pi'[b] = pi[b]
          /\ \A b \in Spawned : (Lives(b)' => Lives(b)) /\ (Launching(b)' => Launching(b))
      BY <2>1 DEF HostInv, HostTypes, SpawnInv, Lives, Launching
    <3>2. /\ \A b : EndOnItsWay(b)' <=> EndOnItsWay(b)
          /\ \A i : EndBehind(i)' <=> EndBehind(i)
      BY <2>3 DEF EndOnItsWay, EndBehind
    <3>3. HostTypes' /\ SpawnInv'
      BY <1>0, <2>1, <2>3, <3>1 DEF HostInv, HostTypes, SpawnInv
    <3>4. ListedInv'
      BY <2>1, <2>3, <3>1 DEF HostInv, ListedInv, ProcessesAreListed
    <3>5. LinkInv' /\ ShellInv'
      BY <1>0, <2>1, <2>3, <3>1, <3>2 DEF HostInv, LinkInv, ShellInv
    <3> QED BY <3>3, <3>4, <3>5 DEF HostInv
  <2> QED BY <2>1, <2>2, <2>3
<1>6. ASSUME NEW a \in Spawned, OptionsCome(a) PROVE HostInv'
  <2>1. /\ UNCHANGED <<statuses, link, connected, missed, commands, updates, hosted, cut>>
        /\ Launching(a) /\ \E stage \in {"none", "api", "running"} : pi' = [pi EXCEPT ![a] = stage]
    BY <1>6 DEF OptionsCome, shellSide, Launching
  <2>2. /\ pi' = [b \in Spawned |-> pi'[b]]
        /\ \A b \in Spawned : pi'[b] = pi[b] \/ (Launching(b) /\ pi'[b] \in {"none", "api", "running"})
    BY <2>1 DEF HostInv, HostTypes
  <2> QED BY <2>1, <2>2, LaunchKeeps
<1>7. ASSUME NEW a \in Spawned, NoFolder(a) PROVE HostInv'
  BY <1>7, FailKeeps DEF NoFolder, shellSide, Lives, Launching
<1>8. CASE ApiListens \/ ApiFails
  <2>1. /\ UNCHANGED <<statuses, link, connected, missed, commands, updates, hosted, cut>>
        /\ \E stage \in {"none", "running"} :
             pi' = [b \in Spawned |-> IF pi[b] = "api" THEN stage ELSE pi[b]]
    BY <1>8 DEF ApiListens, ApiFails, shellSide
  <2>2. /\ pi' = [b \in Spawned |-> pi'[b]]
        /\ \A b \in Spawned : pi'[b] = pi[b] \/ (Launching(b) /\ pi'[b] \in {"none", "api", "running"})
    BY <2>1 DEF Launching
  <2> QED BY <2>1, <2>2, LaunchKeeps
<1>9. CASE LinkDrops \/ RefreshToken
  BY <1>9, BrokenKeeps DEF LinkDrops, RefreshToken
<1>10. CASE UNCHANGED hostVars
  BY <1>0, <1>10, NothingMoves DEF hostVars
<1> QED BY <1>2, <1>3, <1>4, <1>5, <1>6, <1>7, <1>8, <1>9, <1>10, ShellKeeps, HearsKeeps, NoticedKeeps,
           DisposeKeeps, ReconnectKeeps, SpawnKeeps, StreamsKeeps DEF HostNext

(* Through lost and replaced sockets, discarded updates, slow launches and exits, a
   process that was not told to stop is one its host lists or one stopped while it
   launched; and when nothing is on its way the Shell has as active only what the host
   lists, but for those whose spawn or end went down unnoticed. *)
THEOREM HostAlwaysKeepsTrack == HostSpec => []HostKeepsTrack
<1>1. HostInit => HostInv
  <2> SUFFICES ASSUME HostInit PROVE HostInv
    OBVIOUS
  <2>1. /\ HostTypes /\ Len(commands) = 0 /\ Len(updates) = 0
    BY FS_EmptySet DEF HostInit, HostTypes
  <2> QED BY <2>1 DEF HostInit, HostInv, SpawnInv, SpawnsOnce, SpawnComing, ListedInv,
                      ProcessesAreListed, LinkInv, ShellInv, Launching, Lives
<1>2. HostInv /\ [HostNext]_hostVars => HostInv'
  BY HostInvKept
<1>3. HostInv => HostKeepsTrack
  <2> SUFFICES ASSUME HostInv, link = "up", commands = <<>>, updates = <<>>,
                      NEW a \in Spawned, statuses[a] = "active"
               PROVE  a \in hosted \cup missed
    BY DEF HostKeepsTrack, ShellIsRight, HostInv, ListedInv
  <2>1. ~EndOnItsWay(a) /\ ~SpawnComing(a)
    BY DEF EndOnItsWay, SpawnComing
  <2> QED BY <2>1 DEF HostInv, ShellInv
<1> QED BY <1>1, <1>2, <1>3, PTL DEF HostSpec

-----------------------------------------------------------------------------
(* Types: memberships *)

\* No member has two rows.
OneEach(those) == \A r, s \in those : r.who = s.who => r = s

SinglesInv ==
  /\ roster \subseteq Workers /\ relaying \subseteq roster
  /\ \A c \in Threads : OneEach(stored[c])

(* An upsert and a removal leave no two rows of one member, nor do the derived rows. *)
LEMMA OneEachStays ==
  ASSUME NEW those, OneEach(those), NEW who, NEW one
  PROVE  OneEach(PutRow(those, one)) /\ OneEach(Dropped(those, who)) /\ OneEach({})
BY DEF OneEach, PutRow, Dropped

LEMMA OneEachDerived ==
  ASSUME NEW c \in Threads PROVE OneEach(Derived(c))
<1>1. CASE c = HomeThread
  BY <1>1 DEF Derived, OneEach
<1>2. CASE c # HomeThread
  <2>1. PICK v \in Workers : ThreadOf[v] = c
    BY <1>2 DEF Threads
  <2> DEFINE w == CHOOSE w \in Workers : ThreadOf[w] = c
  <2>2. w \in Workers
    BY <2>1
  <2>3. Derived(c) = {Row(w, "addressable"),
            Row(Orchestrator, IF w \in relaying THEN "atRunEnd" ELSE "mentionsMe")}
    BY <1>2 DEF Derived
  <2>4. w # Orchestrator
    BY <2>2, MembershipAssumption
  <2> HIDE DEF w
  <2>5. \A a, b : Row(w, a).who # Row(Orchestrator, b).who
    BY <2>4 DEF Row
  <2> QED BY <2>3, <2>5 DEF OneEach
<1> QED BY <1>1, <1>2

(* What is kept of a Conversation and what is added to it. *)
LEMMA OneEachKept ==
  ASSUME RowsInv, SinglesInv, NEW c \in Threads, NEW one
  PROVE  OneEach(Kept(c)) /\ OneEach(Added(c, one))
<1>1. OneEach(Kept(c))
  BY KeptRows, OneEachDerived DEF SinglesInv
<1> QED BY <1>1, OneEachStays DEF Added

(* Only one Conversation is changed by most operations. *)
LEMMA OneEachOfOne ==
  ASSUME RowsInv, SinglesInv, NEW c \in Threads, NEW those, OneEach(those),
         stored' = [stored EXCEPT ![c] = those]
  PROVE  \A d \in Threads : OneEach(stored'[d])
<1> SUFFICES ASSUME NEW d \in Threads PROVE OneEach(stored'[d])
  OBVIOUS
<1>1. stored'[d] = IF d = c THEN those ELSE stored[d]
  BY DEF RowsInv
<1> QED BY <1>1 DEF SinglesInv

(* Every operation keeps one row of a member in a Conversation. *)
LEMMA SinglesKept == RowsInv /\ SinglesInv /\ [MemberNext]_memberVars => SinglesInv'
<1> SUFFICES ASSUME RowsInv, SinglesInv, [MemberNext]_memberVars PROVE SinglesInv'
  OBVIOUS
<1>1. HomeThread \in Threads
  BY DEF Threads
<1>2. ASSUME UNCHANGED <<stored, roster, relaying>> PROVE SinglesInv'
  BY <1>2 DEF SinglesInv
<1>3. ASSUME NEW c \in Threads, NEW those, OneEach(those), UNCHANGED <<roster, relaying>>,
             stored' = [stored EXCEPT ![c] = those]
      PROVE  SinglesInv'
  BY <1>3, OneEachOfOne DEF SinglesInv
<1>4. CASE \E w \in Workers, relays \in BOOLEAN : SpawnWorker(w, relays)
  BY <1>4 DEF SinglesInv, SpawnWorker
<1>5. ASSUME NEW c \in Threads, ReadMembers(c) PROVE SinglesInv'
  BY <1>1, <1>3, <1>5, OneEachKept DEF ReadMembers
<1>6. ASSUME NEW c \in Threads, CloseThread(c) PROVE SinglesInv'
  BY <1>1, <1>3, <1>6, OneEachStays DEF CloseThread, OneEach
<1>7. ASSUME NEW p \in People, NEW granted \in SUBSET Threads, Invite(p, granted) PROVE SinglesInv'
  <2>1. /\ UNCHANGED <<roster, relaying>>
        /\ \A c \in Threads :
             stored'[c] = IF c \in granted THEN Added(c, Row(p, "inert")) ELSE stored[c]
    BY <1>7 DEF Invite
  <2> QED BY <2>1, OneEachKept DEF SinglesInv
<1>8. ASSUME NEW p \in People, Revoke(p) PROVE SinglesInv'
  <2>1. /\ UNCHANGED <<roster, relaying>>
        /\ \A c \in Threads : stored'[c] = Dropped(stored[c], p)
    BY <1>8 DEF Revoke
  <2> QED BY <2>1, OneEachStays DEF SinglesInv
<1>9. ASSUME NEW who \in Members, NEW c \in Threads, Leave(who, c) PROVE SinglesInv'
  <2>1. OneEach(Dropped(stored[c], who))
    BY <1>1, OneEachStays DEF SinglesInv
  <2> QED BY <1>1, <1>3, <1>9, <2>1 DEF Leave
<1>10. ASSUME NEW who \in Members, NEW c \in Threads, NEW b \in BOOLEAN, JoinConversation(who, c, b)
       PROVE  SinglesInv'
  <2>1. \E one : stored' = [stored EXCEPT ![c] = Added(c, one)]
    BY <1>10 DEF JoinConversation
  <2> QED BY <1>1, <1>3, <1>10, <2>1, OneEachKept DEF JoinConversation
<1>11. ASSUME NEW who \in Members, NEW c \in Threads, NEW b \in BOOLEAN, Mute(who, c, b)
       PROVE  SinglesInv'
  <2>1. PICK one : stored' = [stored EXCEPT ![c] = PutRow(stored[c], one)]
    BY <1>11 DEF Mute
  <2>2. OneEach(PutRow(stored[c], one))
    BY <1>1, OneEachStays DEF SinglesInv
  <2> QED BY <1>1, <1>3, <1>11, <2>1, <2>2 DEF Mute
<1>12. CASE EnsureAutomation
  BY <1>1, <1>3, <1>12, OneEachKept DEF EnsureAutomation
<1>13. CASE (\E p \in People, t \in Tabs : Arrive(p, t)) \/ (\E t \in Tabs : Depart(t))
            \/ RestartServer \/ UNCHANGED memberVars
  BY <1>2, <1>13 DEF Arrive, Depart, RestartServer, memberVars
<1> QED BY <1>4, <1>5, <1>6, <1>7, <1>8, <1>9, <1>10, <1>11, <1>12, <1>13 DEF MemberNext

(* Rosters, rows, presence and the counts of tabs keep their types, a member has one row
   in a Conversation, and nobody relays who is not on the roster. *)
THEOREM MemberTypesAlwaysOK == MemberSpec => []MemberTypeOK
<1>1. MemberInit => SinglesInv
  BY DEF MemberInit, SinglesInv, OneEach
<1>2. RowsInv /\ SinglesInv /\ PresenceInv => MemberTypeOK
  <2> SUFFICES ASSUME RowsInv, SinglesInv, PresenceInv PROVE MemberTypeOK
    OBVIOUS
  <2>1. \A p \in People : counted[p] \in 0 .. Cardinality(Tabs)
    <3> SUFFICES ASSUME NEW p \in People PROVE counted[p] \in 0 .. Cardinality(Tabs)
      OBVIOUS
    <3>1. TabsOf(p) \subseteq Tabs /\ counted[p] = Cardinality(TabsOf(p)) /\ counted[p] \in Nat
      BY DEF TabsOf, PresenceInv
    <3>2. Cardinality(TabsOf(p)) <= Cardinality(Tabs) /\ Cardinality(Tabs) \in Nat
      BY <3>1, MembershipAssumption, FS_Subset, FS_CardinalityType
    <3> QED BY <3>1, <3>2
  <2>2. counted \in [People -> 0 .. Cardinality(Tabs)]
    BY <2>1 DEF PresenceInv
  <2> QED BY <2>2 DEF MemberTypeOK, RowsInv, SinglesInv, PresenceInv, OneEach
<1>3. MemberSpec => []PresenceInv
  BY PresenceInvInitially, PresenceInvIsInductive, PTL DEF MemberSpec
<1> QED BY <1>1, <1>2, <1>3, RowsInvHolds, SinglesKept, PTL DEF MemberSpec

-----------------------------------------------------------------------------
(* Types: triggers *)

\* The rest of the types: the bounds, the calls under way, and that a firing due is
\* taken before its interval grows further.
TriggerTypes ==
  /\ session \in {"live", "deleted"} /\ loaded \in BOOLEAN
  /\ target \in [TriggerIds -> 0 .. MaxWorkers]
  /\ age \in [TriggerIds -> 0 .. Period]
  /\ prime \in {"down", "starting", "up"}
  /\ Len(owner) <= MaxWorkers /\ revived \subseteq 1 .. Len(owner)
  /\ call \in [Calls -> CallRecords] /\ boots \in 0 .. MaxBoots

(* What the helpers of the engine leave of the intervals and of the calls. *)
LEMMA IntervalFacts ==
  ASSUME TriggerTypes
  PROVE  /\ \A f : Arm(f) => age' \in [TriggerIds -> 0 .. Period]
         /\ Disarm => age' \in [TriggerIds -> 0 .. Period]
         /\ \A c \in Calls : Finish(c) => /\ age' \in [TriggerIds -> 0 .. Period]
                                          /\ call' \in [Calls -> CallRecords]
<1>1. 0 \in 0 .. Period
  BY TriggerAssumption
<1>2. NoCall \in CallRecords
  BY DEF NoCall, CallRecords
<1>3. \A f : Arm(f) => age' \in [TriggerIds -> 0 .. Period]
  BY <1>1 DEF Arm
<1>4. Disarm => age' \in [TriggerIds -> 0 .. Period]
  BY <1>1 DEF Disarm
<1>5. ASSUME NEW c \in Calls, Finish(c)
      PROVE  age' \in [TriggerIds -> 0 .. Period] /\ call' \in [Calls -> CallRecords]
  <2>1. call' = [call EXCEPT ![c] = NoCall]
    BY <1>5 DEF Finish, Returns
  <2>2. Arm(file) \/ Disarm \/ age' = age
    BY <1>5 DEF Finish
  <2> QED BY <1>2, <1>3, <1>4, <2>1, <2>2 DEF TriggerTypes
<1> QED BY <1>3, <1>4, <1>5

LEMMA CallFacts ==
  ASSUME TriggerTypes, NEW c \in Calls
  PROVE  /\ \A place \in {"ensuring", "awaiting", "ready"} :
              Goes(c, place) => call' \in [Calls -> CallRecords]
         /\ Returns(c) => call' \in [Calls -> CallRecords]
         /\ \A t \in TriggerIds, op \in {"fire", "provision"}, place \in {"resolving", "ensuring"} :
              Starts(c, op, t, place) => call' \in [Calls -> CallRecords]
         /\ \A t \in TriggerIds : Begin(c, t) => call' \in [Calls -> CallRecords]
         /\ Starts(c, "join", call[c].on, "ensuring") => call' \in [Calls -> CallRecords]
<1>1. NoCall \in CallRecords /\ call[c] \in CallRecords /\ call \in [Calls -> CallRecords]
  BY DEF NoCall, CallRecords, TriggerTypes
<1>2. \A k \in CallRecords : call' = [call EXCEPT ![c] = k] => call' \in [Calls -> CallRecords]
  BY <1>1
<1>3. ASSUME NEW place \in {"ensuring", "awaiting", "ready"}, Goes(c, place)
      PROVE  call' \in [Calls -> CallRecords]
  <2>1. [call[c] EXCEPT !.at = place] \in CallRecords
    BY <1>1 DEF CallRecords
  <2>2. call' = [call EXCEPT ![c] = [call[c] EXCEPT !.at = place]]
    BY <1>3 DEF Goes
  <2> QED BY <1>2, <2>1, <2>2
<1>4. Returns(c) => call' \in [Calls -> CallRecords]
  BY <1>1, <1>2 DEF Returns
<1>5. ASSUME NEW t \in TriggerIds, NEW op \in {"fire", "provision"},
             NEW place \in {"resolving", "ensuring"}, Starts(c, op, t, place)
      PROVE  call' \in [Calls -> CallRecords]
  <2>1. [op |-> op, on |-> t, at |-> place] \in CallRecords
    BY DEF CallRecords
  <2> QED BY <1>2, <1>5, <2>1 DEF Starts
<1>6. \A t \in TriggerIds : Begin(c, t) => call' \in [Calls -> CallRecords]
  BY <1>5 DEF Begin
<1>7. Starts(c, "join", call[c].on, "ensuring") => call' \in [Calls -> CallRecords]
  <2>1. [op |-> "join", on |-> call[c].on, at |-> "ensuring"] \in CallRecords
    BY <1>1 DEF CallRecords
  <2> QED BY <1>2, <2>1 DEF Starts
<1> QED BY <1>3, <1>4, <1>5, <1>6, <1>7

(* Every event and every continuation of a call keeps the types. *)
LEMMA TriggerTypesKept ==
  ASSUME TriggerInv, TriggerTypes, [TriggerNext]_triggerVars
  PROVE  TriggerTypes'
<1>1. /\ session \in {"live", "deleted"} /\ loaded \in BOOLEAN
      /\ target \in [TriggerIds -> 0 .. MaxWorkers] /\ age \in [TriggerIds -> 0 .. Period]
      /\ prime \in {"down", "starting", "up"} /\ owner \in Seq(TriggerIds)
      /\ Len(owner) <= MaxWorkers /\ revived \subseteq 1 .. Len(owner)
      /\ alive \cup backing \cup rows \subseteq 1 .. Len(owner)
      /\ call \in [Calls -> CallRecords] /\ boots \in 0 .. MaxBoots
  BY DEF TriggerInv, TriggerTypes
<1>2. ASSUME NEW c \in Calls, NEW t \in TriggerIds, NEW flag \in {"on", "off"},
             CreateTrigger(c, t, flag)
      PROVE  TriggerTypes'
  <2>1. CASE t \in Dedicated
    <3>1. call' \in [Calls -> CallRecords] /\ age' = age
      BY <1>2, <2>1, CallFacts DEF CreateTrigger
    <3> QED BY <1>1, <1>2, <3>1 DEF CreateTrigger, TriggerTypes
  <2>2. CASE t \notin Dedicated
    <3>1. call' = call /\ age' \in [TriggerIds -> 0 .. Period]
      BY <1>2, <2>2, IntervalFacts DEF CreateTrigger
    <3> QED BY <1>1, <1>2, <3>1 DEF CreateTrigger, TriggerTypes
  <2> QED BY <2>1, <2>2
<1>3. ASSUME NEW t \in TriggerIds,
             RemoveTrigger(t) \/ \E flag \in {"on", "off"} : UpdateTrigger(t, flag)
      PROVE  TriggerTypes'
  <2>1. Arm(file') /\ loaded' = TRUE
        /\ UNCHANGED <<session, target, prime, owner, revived, call, boots>>
    BY <1>3 DEF RemoveTrigger, UpdateTrigger
  <2>2. age' \in [TriggerIds -> 0 .. Period]
    BY <2>1, IntervalFacts
  <2> QED BY <1>1, <2>1, <2>2 DEF TriggerTypes
<1>4. CASE Tick
  <2>1. \A t \in TriggerIds : t \in armed => age[t] + 1 \in 0 .. Period
    BY <1>1, <1>4, TriggerAssumption DEF Tick
  <2>2. age' \in [TriggerIds -> 0 .. Period]
    BY <1>1, <1>4, <2>1 DEF Tick
  <2> QED BY <1>1, <1>4, <2>2 DEF Tick, TriggerTypes
<1>5. ASSUME NEW c \in Calls, NEW t \in TriggerIds, Elapse(c, t) \/ Callback(c, t)
      PROVE  TriggerTypes'
  <2>0. 0 \in 0 .. Period /\ (age' = age \/ age' = [age EXCEPT ![t] = 0])
    BY <1>5, TriggerAssumption DEF Elapse, Callback
  <2>1. age' \in [TriggerIds -> 0 .. Period]
    BY <1>1, <2>0
  <2>2. call' = call \/ Begin(c, t)
    BY <1>5 DEF Elapse, Callback
  <2>3. call' \in [Calls -> CallRecords]
    BY <1>1, <2>2, CallFacts
  <2> QED BY <1>1, <1>5, <2>1, <2>3 DEF Elapse, Callback, TriggerTypes
<1>6. ASSUME NEW c \in Calls, (\E ok \in BOOLEAN : HandlerAnswers(c, ok)) \/ Ensured(c) \/ JoinChat(c)
      PROVE  TriggerTypes'
  <2>1. call' \in [Calls -> CallRecords]
    BY <1>6, CallFacts DEF HandlerAnswers, Ensured, JoinChat
  <2> QED BY <1>1, <1>6, <2>1 DEF HandlerAnswers, Ensured, JoinChat, TriggerTypes
<1>7. CASE PrimeUp
  <2>1. \A c \in Calls : [call[c] EXCEPT !.at = "ready"] \in CallRecords
    BY <1>1 DEF CallRecords
  <2>2. call' \in [Calls -> CallRecords]
    BY <1>1, <1>7, <2>1 DEF PrimeUp
  <2> QED BY <1>1, <1>7, <2>2 DEF PrimeUp, TriggerTypes
<1>8. ASSUME NEW w, WorkerEnds(w) \/ WorkerDies(w) PROVE TriggerTypes'
  BY <1>1, <1>8 DEF WorkerEnds, WorkerDies, TriggerTypes
<1>17. ASSUME NEW w, NEW ok \in BOOLEAN, Respawn(w, ok) PROVE TriggerTypes'
  <2>1. revived' \subseteq 1 .. Len(owner') /\ owner' = owner
    BY <1>1, <1>17 DEF Respawn, Replaced
  <2> QED BY <1>1, <1>17, <2>1 DEF Respawn, TriggerTypes
<1>9. CASE DeleteSession
  BY <1>1, <1>9, IntervalFacts DEF DeleteSession, TriggerTypes
<1>10. CASE Boot
  <2>1. call' \in [Calls -> CallRecords]
    BY <1>10 DEF Boot, NoCall, CallRecords
  <2>2. boots' \in 0 .. MaxBoots
    BY <1>1, <1>10, TriggerAssumption DEF Boot
  <2> QED BY <1>1, <1>10, <2>1, <2>2, IntervalFacts DEF Boot, TriggerTypes
<1>11. ASSUME NEW c \in Calls, EnsurePrime(c) PROVE TriggerTypes'
  <2>1. call' \in [Calls -> CallRecords]
    BY <1>11, CallFacts DEF EnsurePrime
  <2> QED BY <1>1, <1>11, <2>1 DEF EnsurePrime, TriggerTypes
<1>12. ASSUME NEW c \in Calls, Reuse(c) PROVE TriggerTypes'
  <2>1. age' \in [TriggerIds -> 0 .. Period] /\ call' \in [Calls -> CallRecords]
    BY <1>12, IntervalFacts DEF Reuse
  <2> QED BY <1>1, <1>12, <2>1 DEF Reuse, TriggerTypes
<1>13. ASSUME NEW c \in Calls, SpawnForTrigger(c) PROVE TriggerTypes'
  <2> DEFINE t == call[c].on
  <2>1. /\ owner' = Append(owner, t) /\ Len(owner) < MaxWorkers /\ target' = Recorded(t)
        /\ Finish(c) /\ t \in Dedicated
        /\ UNCHANGED <<session, loaded, prime, revived, boots>>
    BY <1>13 DEF SpawnForTrigger
  <2> HIDE DEF t
  <2>2. t \in TriggerIds
    BY <2>1, TriggerAssumption
  <2>3. Len(owner') = Len(owner) + 1 /\ Len(owner) \in Nat
    BY <1>1, <2>1, <2>2
  <2>4. target' \in [TriggerIds -> 0 .. MaxWorkers]
    BY <1>1, <2>1, <2>3, TriggerAssumption DEF Recorded
  <2>5. Len(owner') <= MaxWorkers /\ revived' \subseteq 1 .. Len(owner')
    BY <1>1, <2>1, <2>3, TriggerAssumption
  <2>6. age' \in [TriggerIds -> 0 .. Period] /\ call' \in [Calls -> CallRecords]
    BY <2>1, IntervalFacts
  <2> QED BY <1>1, <2>1, <2>4, <2>5, <2>6 DEF TriggerTypes
<1>14. ASSUME NEW c \in Calls, SpawnFails(c) PROVE TriggerTypes'
  <2>1. call' \in [Calls -> CallRecords]
    BY <1>14, CallFacts DEF SpawnFails
  <2> QED BY <1>1, <1>14, <2>1 DEF SpawnFails, TriggerTypes
<1>15. ASSUME NEW c \in Calls, Sync(c) PROVE TriggerTypes'
  <2>1. call' \in [Calls -> CallRecords] /\ age' \in [TriggerIds -> 0 .. Period]
    BY <1>15, CallFacts, IntervalFacts DEF Sync
  <2>2. revived' \subseteq 1 .. Len(owner') /\ owner' = owner
    BY <1>1, <1>15 DEF Sync, Replaced
  <2> QED BY <1>1, <1>15, <2>1, <2>2 DEF Sync, TriggerTypes
<1>16. CASE UNCHANGED triggerVars
  BY <1>1, <1>16 DEF triggerVars, TriggerTypes
<1> QED BY <1>2, <1>3, <1>4, <1>5, <1>6, <1>7, <1>8, <1>9, <1>10, <1>11, <1>12, <1>13, <1>14,
           <1>15, <1>16, <1>17 DEF TriggerNext, Events, Continue

(* The triggers, their timers and workers and the calls under way keep their types; a
   schedule's interval is never exceeded, and whatever is armed is enabled. *)
THEOREM TriggerTypesAlwaysOK == TriggerSpec => []TriggerTypeOK
<1>1. TriggerInit => TriggerTypes
  <2> SUFFICES ASSUME TriggerInit PROVE TriggerTypes
    OBVIOUS
  <2>1. NoCall \in CallRecords
    BY DEF NoCall, CallRecords
  <2>2. 0 \in 0 .. Period /\ 0 \in 0 .. MaxWorkers /\ 0 \in 0 .. MaxBoots
    BY TriggerAssumption
  <2> QED BY <2>1, <2>2 DEF TriggerInit, TriggerTypes
<1>2. TriggerInv /\ TriggerTypes => TriggerTypeOK
  BY DEF TriggerInv, TriggerTypes, TriggerTypeOK
<1>3. TriggerSpec => [](TriggerInv /\ TriggerTypes)
  <2>1. TriggerInv /\ TriggerTypes /\ [TriggerNext]_triggerVars => TriggerInv' /\ TriggerTypes'
    BY TriggerInvKept, TriggerTypesKept
  <2> QED BY <1>1, <2>1, TriggerInitInv, PTL DEF TriggerSpec
<1> QED BY <1>2, <1>3, PTL

-----------------------------------------------------------------------------
(* Types: the host *)

(* Every step of the Shell, the socket and the bridge keeps the types. *)
LEMMA HostTypeOKKept == HostTypeOK /\ [HostNext]_hostVars => HostTypeOK'
<1> SUFFICES ASSUME HostTypeOK, [HostNext]_hostVars PROVE HostTypeOK'
  OBVIOUS
<1> USE DEF HostTypeOK, shellSide, bridgeSide
<1>1. CASE \E a \in Spawned : ShellSpawns(a)
  BY <1>1 DEF ShellSpawns
<1>2. CASE \E a \in Spawned : ShellSends(a)
  BY <1>2, HostAssumption DEF ShellSends
<1>3. CASE \E a \in Spawned : ShellKills(a)
  BY <1>3 DEF ShellKills
<1>4. CASE \E a \in Spawned : OnSpawn(a)
  BY <1>4 DEF OnSpawn, Received
<1>5. CASE \E a \in Spawned : OnMessage(a)
  BY <1>5 DEF OnMessage, Received
<1>6. CASE \E a \in Spawned : OnKill(a) \/ StopAgent(a)
  BY <1>6 DEF OnKill, StopAgent, Stop, Signalled, Received
<1>7. CASE \E a \in Spawned : OnAgentExit(a)
  BY <1>7 DEF OnAgentExit
<1>8. CASE ShellHears
  BY <1>8 DEF ShellHears
<1>9. CASE LinkDrops \/ RefreshToken
  BY <1>9, HostAssumption DEF LinkDrops, RefreshToken, Broken
<1>10. CASE Reconnect
  BY <1>10 DEF Reconnect
<1>11. CASE ApiListens \/ ApiFails
  BY <1>11 DEF ApiListens, ApiFails
<1>12. CASE DisposeHost
  BY <1>12 DEF DisposeHost, Signalled
<1>13. CASE \E a \in Spawned : OptionsCome(a) \/ NoFolder(a)
  BY <1>13 DEF OptionsCome, NoFolder
<1>14. CASE CloseNoticed \/ \E a \in Spawned : Streams(a)
  BY <1>14 DEF CloseNoticed, Streams
<1>15. CASE UNCHANGED hostVars
  BY <1>15 DEF hostVars
<1> QED BY <1>1, <1>2, <1>3, <1>4, <1>5, <1>6, <1>7, <1>8, <1>9, <1>10, <1>11, <1>12, <1>13,
           <1>14, <1>15 DEF HostNext

(* The statuses, the socket, the host's lists and its processes keep their types. *)
THEOREM HostTypesAlwaysOK == HostSpec => []HostTypeOK
<1>1. HostInit => HostTypeOK
  BY HostAssumption DEF HostInit, HostTypeOK
<1> QED BY <1>1, HostTypeOKKept, PTL DEF HostSpec

-----------------------------------------------------------------------------
(* Types: creation and end *)

\* One at most: of the spawns, of the records, of the Primes.
AtMostOne(those) == \A a, b \in those : a = b

Mounting == [by : {"creation", "request"}, of : Folders, at : {"looked", "linked"}]
Ensures == [config : Configs, leaves : SUBSET BoundTo]
PrimeRecords == [config : Configs, memory : SUBSET BoundTo]

\* The row, the disk and the catalog, and what runs.
CatalogTypes ==
  /\ row \in {"none", "live", "deleted", "withdrawn"}
  /\ creation \in {"idle", "installing", "seeding", "done", "failed", "lost"}
  /\ tree \in {"none", "part", "whole"} /\ seeds \subseteq SeedMounts
  /\ mounting \subseteq Mounting
  /\ entry \in [Folders -> {"none", "link", "own"}]
  /\ mounted \subseteq Folders /\ binding \subseteq BoundTo /\ offered \subseteq BoundTo
  /\ row # "live" => mounted = {} /\ binding = {}
SpawnTypes ==
  /\ AtMostOne(ensuring) /\ ensuring \subseteq Ensures
  /\ AtMostOne(record) /\ record \subseteq Configs
  /\ AtMostOne(primes) /\ primes \subseteq PrimeRecords
  /\ callers \in 0..MaxCallers /\ early \in BOOLEAN /\ late \in BOOLEAN
  /\ crashes \in 0..MaxCrashes
ProvisionTypes == CatalogTypes /\ SpawnTypes

(* A set of which any two members are the same has one at most. *)
LEMMA AtMostOneCounts ==
  ASSUME NEW those, AtMostOne(those) PROVE Cardinality(those) <= 1
<1>1. CASE those = {}
  BY <1>1, FS_EmptySet
<1>2. CASE those # {}
  <2>1. PICK a \in those : TRUE
    BY <1>2
  <2>2. those = {a}
    BY <2>1 DEF AtMostOne
  <2>3. Cardinality({a}) = 1
    BY FS_Singleton
  <2> QED BY <2>2, <2>3
<1> QED BY <1>1, <1>2

(* A spawn that is ensured is one, with leaves of the binding. *)
LEMMA EnsureTypes ==
  ASSUME SpawnTypes, NEW config \in Configs, NEW leaves \in SUBSET BoundTo,
         EnsureAgent(config, leaves)
  PROVE  AtMostOne(ensuring') /\ ensuring' \subseteq Ensures
<1>1. CASE primes # {} \/ ensuring # {}
  BY <1>1 DEF EnsureAgent, SpawnTypes
<1>2. CASE ~(primes # {} \/ ensuring # {})
  <2>1. ensuring' = {[config |-> config, leaves |-> leaves]}
    BY <1>2 DEF EnsureAgent
  <2>2. [config |-> config, leaves |-> leaves] \in Ensures
    BY DEF Ensures
  <2> HIDE DEF Ensures
  <2> QED BY <2>1, <2>2 DEF AtMostOne
<1> QED BY <1>1, <1>2

(* A spawn captures a configuration and resolves a memory of the binding. *)
LEMMA SpawnKeepsTypes ==
  ASSUME ProvisionTypes, SpawnPrime PROVE ProvisionTypes'
<1>1. /\ ensuring' = {}
      /\ UNCHANGED <<row, creation, diskAndRows, offered, callers, early, late, crashes>>
  BY DEF SpawnPrime
<1>2. PICK e \in ensuring : \E found \in Effective(e.config) :
        \E kept \in (IF Captured = {} THEN {found} ELSE Captured) :
          /\ record' = {kept}
          /\ primes' = {[config |-> IF kept = "none" THEN "default" ELSE kept,
                         memory |-> {f \in e.leaves : Available(f)}]}
  BY DEF SpawnPrime
<1>3. PICK found \in Effective(e.config) :
        \E kept \in (IF Captured = {} THEN {found} ELSE Captured) :
          /\ record' = {kept}
          /\ primes' = {[config |-> IF kept = "none" THEN "default" ELSE kept,
                         memory |-> {f \in e.leaves : Available(f)}]}
  BY <1>2
<1>4. PICK kept \in (IF Captured = {} THEN {found} ELSE Captured) :
          /\ record' = {kept}
          /\ primes' = {[config |-> IF kept = "none" THEN "default" ELSE kept,
                         memory |-> {f \in e.leaves : Available(f)}]}
  BY <1>3
<1>5. e.config \in Configs /\ e.leaves \subseteq BoundTo
  BY DEF ProvisionTypes, SpawnTypes, Ensures
<1>6. Captured \subseteq Configs /\ Installed \subseteq Configs
  BY DEF Captured, Installed, ProvisionTypes, SpawnTypes, CatalogTypes, Configs
<1>7. found \in Configs
  BY <1>5, <1>6 DEF Effective, Configs
<1>8. kept \in Configs
  BY <1>6, <1>7
<1> DEFINE configured == IF kept = "none" THEN "default" ELSE kept
           remembered == {f \in e.leaves : Available(f)}
<1>9. configured \in Configs /\ remembered \subseteq BoundTo
  BY <1>5, <1>8 DEF Configs
<1>10. primes' = {[config |-> configured, memory |-> remembered]}
  BY <1>4
<1> HIDE DEF configured, remembered
<1>11. AtMostOne(primes') /\ primes' \subseteq PrimeRecords
  BY <1>9, <1>10 DEF AtMostOne, PrimeRecords
<1>12. AtMostOne(record') /\ record' \subseteq Configs
  BY <1>4, <1>8 DEF AtMostOne
<1>13. AtMostOne(ensuring') /\ ensuring' \subseteq Ensures
  BY <1>1 DEF AtMostOne
<1>14. SpawnTypes'
  BY <1>1, <1>11, <1>12, <1>13 DEF ProvisionTypes, SpawnTypes
<1>15. CatalogTypes'
  BY <1>1 DEF ProvisionTypes, CatalogTypes, diskAndRows
<1> QED BY <1>14, <1>15 DEF ProvisionTypes

(* The creation, and who has Prime ensured meanwhile. *)
LEMMA CreationKeepsTypes ==
  ASSUME ProvisionTypes,
         CreateSession \/ InstallSome \/ InstallRest \/ InstallFails \/ Provision
         \/ CallFinds \/ CallEnsures
  PROVE  ProvisionTypes'
<1>1. CASE CreateSession \/ InstallSome \/ InstallRest \/ InstallFails
  <2>1. SpawnTypes'
    BY <1>1 DEF CreateSession, InstallSome, InstallRest, InstallFails, ProvisionTypes, SpawnTypes
  <2>2. CatalogTypes'
    BY <1>1 DEF CreateSession, InstallSome, InstallRest, InstallFails, Withdraw, diskAndRows,
                ProvisionTypes, CatalogTypes
  <2> QED BY <2>1, <2>2 DEF ProvisionTypes
<1>2. CASE Provision
  <2>1. PICK kept \in SUBSET BoundTo :
          /\ binding' = kept /\ EnsureAgent("bundle", kept) /\ (row # "live" => kept = {})
    BY <1>2 DEF Provision, SettledLeaves
  <2>2. AtMostOne(ensuring') /\ ensuring' \subseteq Ensures
    BY <2>1, EnsureTypes DEF Configs, ProvisionTypes
  <2>3. SpawnTypes'
    BY <1>2, <2>2 DEF Provision, ProvisionTypes, SpawnTypes
  <2>4. CatalogTypes'
    BY <1>2, <2>1 DEF Provision, ProvisionTypes, CatalogTypes
  <2> QED BY <2>3, <2>4 DEF ProvisionTypes
<1>3. CASE CallEnsures
  <2>1. AtMostOne(ensuring') /\ ensuring' \subseteq Ensures
    BY <1>3, EnsureTypes DEF CallEnsures, Configs, ProvisionTypes, CatalogTypes
  <2>2. SpawnTypes'
    BY <1>3, <2>1, ProvisionAssumption DEF CallEnsures, ProvisionTypes, SpawnTypes
  <2>3. CatalogTypes'
    BY <1>3 DEF CallEnsures, diskAndRows, ProvisionTypes, CatalogTypes
  <2> QED BY <2>2, <2>3 DEF ProvisionTypes
<1>4. CASE CallFinds
  BY <1>4, ProvisionAssumption DEF CallFinds, diskAndRows, ProvisionTypes, CatalogTypes, SpawnTypes
<1> QED BY <1>1, <1>2, <1>3, <1>4

(* The mounts, and what the agent does to their names. *)
LEMMA MountsKeepTypes ==
  ASSUME ProvisionTypes,
         \/ \E f \in Folders : \/ Unmount(f)
                               \/ \E by \in {"creation", "request"} : MountLooks(by, f)
                               \/ \E what \in {"none", "link", "own"} : AgentTidies(f, what)
         \/ \E m \in mounting : MountLinks(m) \/ MountRow(m)
  PROVE  ProvisionTypes'
<1>1. SpawnTypes' /\ UNCHANGED <<tree, offered>>
  BY DEF Unmount, MountLooks, AgentTidies, MountLinks, MountRow, ProvisionTypes, SpawnTypes
<1> SUFFICES CatalogTypes'
  BY <1>1 DEF ProvisionTypes
<1>2. CatalogTypes
  BY DEF ProvisionTypes
<1>3. ASSUME NEW m, Refuse(m)
      PROVE  /\ row' \in {"none", "live", "deleted", "withdrawn"}
             /\ creation' \in {"idle", "installing", "seeding", "done", "failed", "lost"}
             /\ seeds' \subseteq SeedMounts /\ mounted' \subseteq Folders
             /\ binding' \subseteq BoundTo /\ (row' # "live" => mounted' = {} /\ binding' = {})
  BY <1>2, <1>3 DEF Refuse, Withdraw, CatalogTypes
<1>4. CASE \E f \in Folders : \/ Unmount(f)
                              \/ \E what \in {"none", "link", "own"} : AgentTidies(f, what)
  BY <1>2, <1>4 DEF Unmount, AgentTidies, CatalogTypes
<1>5. ASSUME NEW f \in Folders, NEW by \in {"creation", "request"}, MountLooks(by, f)
      PROVE  CatalogTypes'
  <2>1. entry' = entry
    BY <1>5 DEF MountLooks
  <2>2. CASE entry[f] = "own"
    <3>1. Refuse([by |-> by]) /\ UNCHANGED mounting
      BY <1>5, <2>2 DEF MountLooks
    <3> QED BY <1>1, <1>2, <1>3, <2>1, <3>1 DEF CatalogTypes
  <2>3. CASE entry[f] # "own"
    <3> DEFINE seen == [by |-> by, of |-> f, at |-> IF entry[f] = "link" THEN "linked" ELSE "looked"]
    <3>1. mounting' = mounting \cup {seen} /\ UNCHANGED <<creation, seeds, row, mounted, binding>>
      BY <1>5, <2>3 DEF MountLooks
    <3>2. seen \in Mounting
      BY DEF Mounting
    <3> HIDE DEF seen
    <3> QED BY <1>1, <1>2, <2>1, <3>1, <3>2 DEF CatalogTypes
  <2> QED BY <2>2, <2>3
<1>6. ASSUME NEW m \in mounting, MountLinks(m) PROVE CatalogTypes'
  <2>1. m \in Mounting
    BY <1>2 DEF CatalogTypes
  <2>2. CASE entry[m.of] = "none"
    <3> DEFINE made == [m EXCEPT !.at = "linked"]
    <3>1. /\ entry' = [entry EXCEPT ![m.of] = "link"]
          /\ mounting' = (mounting \ {m}) \cup {made}
          /\ UNCHANGED <<creation, seeds, row, mounted, binding>>
      BY <1>6, <2>2 DEF MountLinks
    <3>2. made \in Mounting
      BY <2>1 DEF Mounting
    <3> HIDE DEF made
    <3> QED BY <1>1, <1>2, <3>1, <3>2 DEF CatalogTypes
  <2>3. CASE entry[m.of] # "none"
    <3>1. Refuse(m) /\ mounting' = mounting \ {m} /\ UNCHANGED entry
      BY <1>6, <2>3 DEF MountLinks
    <3> QED BY <1>1, <1>2, <1>3, <3>1 DEF CatalogTypes
  <2> QED BY <2>2, <2>3
<1>7. ASSUME NEW m \in mounting, MountRow(m) PROVE CatalogTypes'
  <2>1. m \in Mounting /\ mounting' = mounting \ {m} /\ entry' = entry
    BY <1>2, <1>7 DEF CatalogTypes, MountRow
  <2>2. m.of \in Folders
    BY <2>1 DEF Mounting
  <2>3. CASE row # "live"
    BY <1>1, <1>2, <1>3, <1>7, <2>1, <2>3 DEF CatalogTypes, MountRow
  <2>4. CASE row = "live"
    BY <1>1, <1>2, <1>7, <2>1, <2>2, <2>4 DEF CatalogTypes, MountRow
  <2> QED BY <2>3, <2>4
<1> QED BY <1>4, <1>5, <1>6, <1>7

(* The end of Prime, of the session and of the server. *)
LEMMA EndKeepsTypes ==
  ASSUME ProvisionTypes, PrimeGone \/ RemoveSession \/ ServerCrashes PROVE ProvisionTypes'
<1> USE DEF ProvisionTypes
<1>1. SpawnTypes'
  <2>1. /\ primes' = {} /\ record' \in {record, {}} /\ ensuring' \in {ensuring, {}}
        /\ early' \in {early, FALSE} /\ late' \in {late, FALSE} /\ callers' \in {callers, 0}
    BY DEF PrimeGone, RemoveSession, ServerCrashes, Dispose
  <2>2. crashes' \in 0..MaxCrashes
    BY ProvisionAssumption DEF PrimeGone, RemoveSession, ServerCrashes, SpawnTypes
  <2>3. callers' \in 0..MaxCallers
    BY <2>1, ProvisionAssumption DEF SpawnTypes
  <2>4. early' \in BOOLEAN /\ late' \in BOOLEAN
    BY <2>1, Zenon DEF SpawnTypes
  <2> QED BY <2>1, <2>2, <2>3, <2>4 DEF SpawnTypes, AtMostOne
<1>2. CatalogTypes'
  BY DEF PrimeGone, RemoveSession, ServerCrashes, diskAndRows, UnderWay, ProvisionTypes,
         CatalogTypes
<1> QED BY <1>1, <1>2 DEF ProvisionTypes

(* Nothing that is under way breaks a type: there is one Prime and one spawn of it at
   most, and what is mounted or bound belongs to a session that is on file. *)
THEOREM ProvisionTypesAlwaysOK == ProvisionSpec => []ProvisionTypeOK
<1>1. ProvisionInit => ProvisionTypes
  <2> SUFFICES ASSUME ProvisionInit PROVE ProvisionTypes
    OBVIOUS
  <2>1. CatalogTypes
    BY DEF ProvisionInit, CatalogTypes
  <2>2. /\ AtMostOne(ensuring) /\ AtMostOne(record) /\ AtMostOne(primes) /\ crashes \in 0..MaxCrashes
        /\ callers \in 0..MaxCallers
    BY ProvisionAssumption DEF ProvisionInit, AtMostOne
  <2>3. SpawnTypes
    BY <2>2 DEF ProvisionInit, SpawnTypes
  <2> QED BY <2>1, <2>3 DEF ProvisionTypes
<1>2. ProvisionTypes /\ [ProvisionNext]_provisionVars => ProvisionTypes'
  <2>1. ProvisionTypes /\ UNCHANGED provisionVars => ProvisionTypes'
    BY DEF provisionVars, ProvisionTypes, CatalogTypes, SpawnTypes
  <2> QED BY <2>1, SpawnKeepsTypes, CreationKeepsTypes, MountsKeepTypes, EndKeepsTypes
          DEF ProvisionNext
<1>3. ProvisionTypes => ProvisionTypeOK
  <2>1. SpawnTypes => /\ Cardinality(ensuring) <= 1 /\ Cardinality(record) <= 1
                      /\ Cardinality(primes) <= 1
    BY AtMostOneCounts DEF SpawnTypes
  <2> QED BY <2>1 DEF ProvisionTypes, CatalogTypes, SpawnTypes, ProvisionTypeOK, Mounting, Ensures,
                      PrimeRecords
<1> QED BY <1>1, <1>2, <1>3, PTL DEF ProvisionSpec

-----------------------------------------------------------------------------
(* Types: files *)

\* The types that what is left behind does not rest on.
FileTypes ==
  /\ bytes \subseteq Files /\ raced \subseteq Files \ Artifacts /\ lost \subseteq Files \ Artifacts
  /\ AtMostOne(scans)
  /\ attached \in [Attachments -> {"none", "uploaded", "posted"}]

(* Every operation on the files keeps them. *)
LEMMA FileTypesKept == GoneInv /\ FileTypes /\ [ResourceNext]_resourceVars => FileTypes'
<1> SUFFICES ASSUME GoneInv, FileTypes, [ResourceNext]_resourceVars PROVE FileTypes'
  OBVIOUS
<1> USE DEF FileTypes
<1>1. HostFiles \subseteq Files /\ Attachments \subseteq Files /\ Artifacts \subseteq Files
  BY DEF Files
<1>2. CASE \E u \in HostFiles : PutWrites(u) \/ PutCatalogs(u)
  BY <1>1, <1>2 DEF PutWrites, PutCatalogs, Written
<1>3. CASE \E u \in Attachments : Upload(u) \/ PostCatalogs(u)
  BY <1>1, <1>3 DEF Upload, PostCatalogs
<1>4. CASE \/ \E u \in Files : AgentWrites(u) \/ AgentDeletes(u)
           \/ \E u \in Artifacts : Pin(u) \/ Unpin(u)
  BY <1>1, <1>4 DEF AgentWrites, AgentDeletes, Pin, Unpin, Written
<1>5. CASE \E u \in Files : RemovalStarts(u)
  BY <1>5 DEF RemovalStarts
<1>6. ASSUME NEW r \in removals, Unlink(r) \/ UnlinkFails(r) \/ RemovalEnds(r) PROVE FileTypes'
  <2>1. r.uri \in Files \ Artifacts
    BY DEF GoneInv
  <2>2. raced' \subseteq raced \cup {r.uri} /\ bytes' \subseteq bytes
        /\ UNCHANGED <<attached, scans, lost>>
    BY <1>6 DEF Unlink, UnlinkFails, RemovalEnds
  <2> QED BY <2>1, <2>2
<1>7. CASE ServerRestarts
  <2>1. lost' \subseteq Files \ Artifacts
    BY <1>7 DEF ServerRestarts, GoneInv
  <2>2. attached' \in [Attachments -> {"none", "uploaded", "posted"}]
    BY <1>7 DEF ServerRestarts
  <2> QED BY <1>7, <2>1, <2>2 DEF ServerRestarts, AtMostOne
<1>8. CASE ScanStarts \/ \E s \in scans : ScanEnds(s) \/ \E dir \in Dirs : ScanReads(s, dir)
  <2>1. UNCHANGED <<bytes, raced, lost, attached>> /\ \E s : scans' \in {{}, {s}}
    BY <1>8 DEF ScanStarts, ScanEnds, ScanReads
  <2> QED BY <2>1 DEF AtMostOne
<1>9. CASE UNCHANGED resourceVars
  BY <1>9 DEF resourceVars
<1> QED BY <1>2, <1>3, <1>4, <1>5, <1>6, <1>7, <1>8, <1>9 DEF ResourceNext

(* Files, rows, puts, removals and listings keep their types, and there is one listing at
   a time. *)
THEOREM ResourceTypesAlwaysOK == ResourceSpec => []ResourceTypeOK
<1>1. ResourceInit => FileTypes
  BY DEF ResourceInit, FileTypes, AtMostOne
<1>2. GoneInv /\ FileTypes => ResourceTypeOK
  BY AtMostOneCounts DEF GoneInv, FileTypes, ResourceTypeOK
<1> QED BY <1>1, <1>2, FileTypesKept, GoneInvInitially, GoneInvIsInductive, PTL DEF ResourceSpec

-----------------------------------------------------------------------------
(* A session and its parts *)

(* Each part of a session takes its own steps, or none. *)
LEMMA SessionStepIsOfParts ==
  ASSUME [SessionNext]_sessionVars
  PROVE  /\ [Next]_wakes /\ [ReactorNext]_reactorVars /\ [CorrelationNext]_correlationVars
         /\ [MemberNext]_memberVars /\ [TriggerNext]_triggerVars /\ [HostNext]_hostVars
         /\ [ProvisionNext]_provisionVars /\ [ResourceNext]_resourceVars
<1>1. CASE SessionNext
  BY <1>1 DEF SessionNext, ledgerVars
<1>2. CASE UNCHANGED sessionVars
  BY <1>2 DEF sessionVars
<1> QED BY <1>1, <1>2

(* A session is each of its parts at work beside the others: whatever holds of a part
   holds of it in the session. *)
THEOREM SessionIsItsParts ==
  SessionSpec => /\ Spec /\ ReactorSpec /\ CorrelationSpec /\ MemberSpec /\ TriggerSpec
                 /\ HostSpec /\ ProvisionSpec /\ ResourceSpec
<1>1. SessionInit => /\ Init /\ ReactorInit /\ CorrelationInit /\ MemberInit /\ TriggerInit
                     /\ HostInit /\ ProvisionInit /\ ResourceInit
  BY DEF SessionInit
<1> QED BY <1>1, SessionStepIsOfParts, PTL
        DEF SessionSpec, Spec, ReactorSpec, CorrelationSpec, MemberSpec, TriggerSpec, HostSpec,
            ProvisionSpec, ResourceSpec

(* The variables of every part keep their types in a session, and a trigger that is off,
   or gone, has no timer. *)
THEOREM SessionTypesAlwaysOK == SessionSpec => []TypesOK
<1>1. CorrelationSpec => []CorrelationTypeOK
  <2>1. CorrelationInv => CorrelationTypeOK
    BY DEF CorrelationInv
  <2> QED BY <2>1, CorrelationInvInitially, CorrelationInvIsInductive, PTL DEF CorrelationSpec
<1>2. TypesOK <=> /\ TypeOK /\ ReactorTypeOK /\ CorrelationTypeOK /\ MemberTypeOK
                  /\ TriggerTypeOK /\ HostTypeOK /\ ProvisionTypeOK /\ ResourceTypeOK
  BY DEF TypesOK
<1> QED BY <1>1, <1>2, SessionIsItsParts, LedgerTypeOK, ReactorTypesAlwaysOK, MemberTypesAlwaysOK,
           TriggerTypesAlwaysOK, HostTypesAlwaysOK, ProvisionTypesAlwaysOK, ResourceTypesAlwaysOK,
           PTL

(* What each part promises, the session keeps with all of them side by side: the answers
   to senders stay in order, reactors fold each report once, an ask has the clock that
   will settle it, the cache tells the store, triggers keep one worker each, the host
   keeps track of its agents, and what is deleted is gone. *)
THEOREM SessionKeepsItsPromises ==
  SessionSpec => [](/\ NoOvertaking /\ FoldedExactly /\ AskIsTracked /\ CacheTellsTheStore
                    /\ StartersStay /\ PresenceFollowsTabs /\ OneWorkerEach /\ HostKeepsTrack
                    /\ PrimeIsAsCreated /\ DeletedHasNoPrime /\ RemovedIsGone)
BY SessionIsItsParts, LedgerNoOvertaking, FoldsExactlyAlways, AskIsTrackedAlways,
   CacheAlwaysTellsTheStore, StartersAlwaysStay, PresenceAlwaysFollowsTabs, OneWorkerEachAlways,
   HostAlwaysKeepsTrack, PrimeIsAlwaysAsCreated, DeletedNeverHasPrime, RemovedIsAlwaysGone, PTL
=============================================================================
