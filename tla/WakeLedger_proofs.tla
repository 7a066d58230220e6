-------------------------- MODULE WakeLedger_proofs --------------------------
(***************************************************************************)
(* What WakeLedger promises, for any Conversations and any number of       *)
(* wakes.  The four invariants are inductive together: NoOvertaking needs  *)
(* OneHeldEach when a release hands several wakes over at once.            *)
(***************************************************************************)
EXTENDS WakeLedger, TLAPS

Promise == TypeOK /\ OneHeldEach /\ LatestIsKept /\ NoOvertaking

(* Stamping wakes changes their fates and nothing else. *)
LEMMA StampedFacts ==
  ASSUME TypeOK, NEW ids \in SUBSET Held, NEW f \in Fates
  PROVE  /\ Stamped(ids, f) \in Seq(Wakes)
         /\ Len(Stamped(ids, f)) = Len(wakes)
         /\ DOMAIN Stamped(ids, f) = DOMAIN wakes
         /\ \A i \in DOMAIN wakes :
              /\ Stamped(ids, f)[i].conv = wakes[i].conv
              /\ Stamped(ids, f)[i].fate = IF i \in ids THEN f ELSE wakes[i].fate
<1>1. \A i \in DOMAIN wakes : wakes[i] \in Wakes
  BY DEF TypeOK
<1>2. \A i \in DOMAIN wakes : [wakes[i] EXCEPT !.fate = f] \in Wakes
  BY <1>1 DEF Wakes
<1>3. DOMAIN Stamped(ids, f) = 1 .. Len(wakes) /\ Len(wakes) \in Nat
  BY DEF Stamped, TypeOK
<1>4. Stamped(ids, f) \in Seq(Wakes)
  BY <1>1, <1>2, <1>3 DEF Stamped
<1>5. Len(Stamped(ids, f)) = Len(wakes)
  BY <1>3, <1>4
<1>6. \A i \in DOMAIN wakes :
        /\ Stamped(ids, f)[i].conv = wakes[i].conv
        /\ Stamped(ids, f)[i].fate = IF i \in ids THEN f ELSE wakes[i].fate
  BY <1>1 DEF Stamped, Wakes
<1> QED BY <1>3, <1>4, <1>5, <1>6 DEF TypeOK

(* Posting a wake leaves the earlier ones as they are, and is the last. *)
LEMMA PostedFacts ==
  ASSUME NEW s \in Seq(Wakes), NEW w \in Wakes
  PROVE  /\ Append(s, w) \in Seq(Wakes)
         /\ DOMAIN Append(s, w) = 1 .. (Len(s) + 1)
         /\ DOMAIN s = 1 .. Len(s)
         /\ Len(s) \in Nat
         /\ \A i \in DOMAIN s : Append(s, w)[i] = s[i]
         /\ Append(s, w)[Len(s) + 1] = w
OBVIOUS

(* A release keeps the promise. *)
LEMMA ReleasedKeepsPromise ==
  ASSUME Promise, NEW ids \in SUBSET Held, NEW f \in {"sent", "lost"}, Released(ids, f)
  PROVE  Promise'
<1>1. wakes' = Stamped(ids, f) /\ f \in Fates
  BY DEF Released, Fates
<1>2. /\ wakes' \in Seq(Wakes)
      /\ DOMAIN wakes' = DOMAIN wakes
      /\ \A i \in DOMAIN wakes :
           /\ wakes'[i].conv = wakes[i].conv
           /\ wakes'[i].fate = IF i \in ids THEN f ELSE wakes[i].fate
  BY <1>1, StampedFacts DEF Promise
<1>3. TypeOK'
  BY <1>2 DEF TypeOK
<1>4. OneHeldEach'
  BY <1>2 DEF OneHeldEach, Held, Promise
<1>5. LatestIsKept'
  BY <1>2 DEF LatestIsKept, Held, Promise
<1>6. NoOvertaking'
  BY <1>2 DEF NoOvertaking, OneHeldEach, Held, Promise
<1> QED BY <1>3, <1>4, <1>5, <1>6 DEF Promise

(* So does putting a wake off: the one it replaces is covered by the new one. *)
LEMMA PutOffKeepsPromise ==
  ASSUME Promise, NEW c \in Conversations, PutOff(c)
  PROVE  Promise'
<1> DEFINE ids == Held \cap Of(c)
           s   == Stamped(ids, "merged")
           w   == [conv |-> c, fate |-> "held"]
<1>1. /\ s \in Seq(Wakes) /\ Len(s) = Len(wakes) /\ DOMAIN s = DOMAIN wakes
      /\ \A i \in DOMAIN wakes :
           /\ s[i].conv = wakes[i].conv
           /\ s[i].fate = IF i \in ids THEN "merged" ELSE wakes[i].fate
  BY StampedFacts DEF Fates, Promise
<1>2. w \in Wakes /\ wakes' = Append(s, w)
  BY DEF Wakes, Fates, PutOff
<1>3. /\ wakes' \in Seq(Wakes)
      /\ DOMAIN wakes' = 1 .. (Len(s) + 1) /\ DOMAIN s = 1 .. Len(s) /\ Len(s) \in Nat
      /\ \A i \in DOMAIN s : wakes'[i] = s[i]
      /\ wakes'[Len(s) + 1] = w
  BY <1>1, <1>2, PostedFacts
<1> DEFINE n == Len(s) + 1
<1> HIDE DEF s, ids
<1>4. /\ DOMAIN wakes' = DOMAIN wakes \cup {n}
      /\ n \in Nat
      /\ \A i \in DOMAIN wakes : i \in Nat /\ i < n
      /\ \A i \in DOMAIN wakes :
           /\ wakes'[i].conv = wakes[i].conv
           /\ wakes'[i].fate = IF i \in ids THEN "merged" ELSE wakes[i].fate
      /\ wakes'[n].conv = c /\ wakes'[n].fate = "held"
  BY <1>1, <1>3
<1> HIDE DEF w, n
<1>5. TypeOK'
  BY <1>3 DEF TypeOK
<1>6. \A i \in DOMAIN wakes :
        wakes'[i].fate = "held" => wakes[i].fate = "held" /\ wakes[i].conv # c
  BY <1>4 DEF Held, Of, ids
<1>7. OneHeldEach'
  BY <1>4, <1>6 DEF OneHeldEach, Held, Promise
<1>8. LatestIsKept'
  <2> SUFFICES ASSUME NEW i \in DOMAIN wakes', wakes'[i].fate = "merged"
               PROVE  \E j \in DOMAIN wakes' : /\ j > i
                                               /\ wakes'[j].conv = wakes'[i].conv
                                               /\ wakes'[j].fate \in {"held", "sent", "lost"}
    BY DEF LatestIsKept
  <2>1. i \in DOMAIN wakes
    BY <1>4
  <2>2. CASE wakes[i].conv = c
    BY <2>1, <2>2, <1>4
  <2>3. CASE wakes[i].conv # c
    <3>1. i \notin ids /\ wakes[i].fate = "merged"
      BY <2>1, <2>3, <1>4 DEF Of, ids
    <3>2. PICK j \in DOMAIN wakes : /\ j > i
                                    /\ wakes[j].conv = wakes[i].conv
                                    /\ wakes[j].fate \in {"held", "sent", "lost"}
      BY <3>1, <2>1 DEF LatestIsKept, Promise
    <3>3. j \notin ids
      BY <3>2, <2>3 DEF Of, ids
    <3> QED BY <3>2, <3>3, <2>1, <1>4
  <2> QED BY <2>2, <2>3
<1>9. NoOvertaking'
  <2> SUFFICES ASSUME NEW i \in DOMAIN wakes', NEW j \in DOMAIN wakes', i < j,
                      wakes'[i].conv = wakes'[j].conv, wakes'[i].fate = "held",
                      wakes'[j].fate = "sent"
               PROVE  FALSE
    BY DEF NoOvertaking
  <2>1. j \in DOMAIN wakes /\ i \in DOMAIN wakes
    BY <1>4
  <2>2. wakes[j].fate = "sent" /\ wakes[i].fate = "held" /\ wakes[i].conv = wakes[j].conv
    BY <2>1, <1>4, <1>6
  <2> QED BY <2>1, <2>2 DEF NoOvertaking, Promise
<1> QED BY <1>5, <1>7, <1>8, <1>9 DEF Promise

(* A refusal and a hand-over post a wake that does not wait. *)
LEMMA PassedKeepsPromise ==
  ASSUME Promise, NEW c \in Conversations, NEW ids \in SUBSET Held,
         NEW f \in {"sent", "refused"},
         f = "sent" => Held \cap Of(c) \subseteq ids,
         wakes' = Append(Stamped(ids, "sent"), [conv |-> c, fate |-> f])
  PROVE  Promise'
<1> DEFINE s == Stamped(ids, "sent")
           w == [conv |-> c, fate |-> f]
           n == Len(s) + 1
<1>1. /\ s \in Seq(Wakes) /\ Len(s) = Len(wakes) /\ DOMAIN s = DOMAIN wakes
      /\ \A i \in DOMAIN wakes :
           /\ s[i].conv = wakes[i].conv
           /\ s[i].fate = IF i \in ids THEN "sent" ELSE wakes[i].fate
  BY StampedFacts DEF Fates, Promise
<1>2. w \in Wakes
  BY DEF Wakes, Fates
<1>3. /\ wakes' \in Seq(Wakes)
      /\ DOMAIN wakes' = 1 .. (Len(s) + 1) /\ DOMAIN s = 1 .. Len(s) /\ Len(s) \in Nat
      /\ \A i \in DOMAIN s : wakes'[i] = s[i]
      /\ wakes'[Len(s) + 1] = w
  BY <1>1, <1>2, PostedFacts
<1>4. /\ DOMAIN wakes' = DOMAIN wakes \cup {n}
      /\ n \in Nat
      /\ \A i \in DOMAIN wakes : i \in Nat /\ i < n
      /\ \A i \in DOMAIN wakes :
           /\ wakes'[i].conv = wakes[i].conv
           /\ wakes'[i].fate = IF i \in ids THEN "sent" ELSE wakes[i].fate
      /\ wakes'[n].conv = c /\ wakes'[n].fate = f
  BY <1>1, <1>3
<1> HIDE DEF s, w, n
<1>5. TypeOK'
  BY <1>3 DEF TypeOK
<1>6. \A i \in DOMAIN wakes' :
        wakes'[i].fate = "held" => i \in DOMAIN wakes /\ i \in Held /\ i \notin ids
  BY <1>4 DEF Held
<1>7. OneHeldEach'
  BY <1>4, <1>6 DEF OneHeldEach, Held, Promise
<1>8. LatestIsKept'
  BY <1>4 DEF LatestIsKept, Held, Promise
<1>9. NoOvertaking'
  <2> SUFFICES ASSUME NEW i \in DOMAIN wakes', NEW j \in DOMAIN wakes', i < j,
                      wakes'[i].conv = wakes'[j].conv, wakes'[i].fate = "held",
                      wakes'[j].fate = "sent"
               PROVE  FALSE
    BY DEF NoOvertaking
  <2>1. i \in Held /\ i \notin ids /\ i \in DOMAIN wakes
    BY <1>6
  <2>2. CASE j = n
    BY <2>1, <2>2, <1>4 DEF Held, Of
  <2>3. CASE j \in ids
    BY <2>1, <2>3, <1>4 DEF Held, OneHeldEach, Promise
  <2>4. CASE j \in DOMAIN wakes \ ids
    BY <2>1, <2>4, <1>4 DEF Held, NoOvertaking, Promise
  <2> QED BY <2>2, <2>3, <2>4, <1>4
<1> QED BY <1>5, <1>7, <1>8, <1>9 DEF Promise

(* Refusing posts a wake and stamps none. *)
LEMMA StampedNone ==
  ASSUME TypeOK
  PROVE  Stamped({}, "sent") = wakes
BY DEF TypeOK, Stamped

(* The conjunction of the ledger's invariants is inductive. *)
LEMMA PromiseIsInductive == Promise /\ [Next]_wakes => Promise'
<1> SUFFICES ASSUME Promise, [Next]_wakes PROVE Promise'
  OBVIOUS
<1>1. CASE \E ids \in SUBSET Held, f \in {"sent", "lost"} : Released(ids, f)
  BY <1>1, ReleasedKeepsPromise
<1>2. ASSUME NEW c \in Conversations, PutOff(c)
      PROVE  Promise'
  BY <1>2, PutOffKeepsPromise
<1>3. ASSUME NEW c \in Conversations, Refused(c)
      PROVE  Promise'
  <2>1. wakes' = Append(Stamped({}, "sent"), [conv |-> c, fate |-> "refused"])
    BY <1>3, StampedNone DEF Refused, Promise
  <2> QED BY <2>1, PassedKeepsPromise
<1>4. ASSUME NEW c \in Conversations, NEW ids \in SUBSET Held, HandedOver(c, ids)
      PROVE  Promise'
  BY <1>4, PassedKeepsPromise DEF HandedOver
<1>5. CASE UNCHANGED wakes
  BY <1>5 DEF Promise, TypeOK, OneHeldEach, LatestIsKept, NoOvertaking, Held
<1> QED BY <1>1, <1>2, <1>3, <1>4, <1>5 DEF Next

(* The promise is an invariant of the ledger. *)
LEMMA PromiseHolds == Spec => []Promise
<1>1. Init => Promise
  BY DEF Init, Promise, TypeOK, OneHeldEach, LatestIsKept, NoOvertaking, Held
<1> QED BY <1>1, PromiseIsInductive, PTL DEF Spec

(* The ledger keeps to its type. *)
THEOREM LedgerTypeOK == Spec => []TypeOK
BY PromiseHolds, PTL DEF Promise

(* At most one wake per Conversation ever waits (AdmissionEngine.pending). *)
THEOREM LedgerOneHeldEach == Spec => []OneHeldEach
BY PromiseHolds, PTL DEF Promise

(* The latest of the coalesced wakes is the one that survives (hold). *)
THEOREM LedgerLatestIsKept == Spec => []LatestIsKept
BY PromiseHolds, PTL DEF Promise

(* No wake passes an older one of its Conversation that waits (admit, release). *)
THEOREM LedgerNoOvertaking == Spec => []NoOvertaking
BY PromiseHolds, PTL DEF Promise
=============================================================================
