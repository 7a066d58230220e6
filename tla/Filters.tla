-------------------------------- MODULE Filters ------------------------------
(***************************************************************************)
(* Array.prototype.filter, by which queues are drained and waiters         *)
(* forgotten: what is left keeps its order.  It is a recursive function    *)
(* and not SelectSeq, whose definition the provers cannot expand.          *)
(***************************************************************************)
EXTENDS Naturals, Sequences

\* The elements of s that are in S.
Only(s, S) ==
  LET kept[n \in 0 .. Len(s)] ==
        IF n = 0 THEN <<>>
        ELSE IF s[n] \in S THEN Append(kept[n - 1], s[n]) ELSE kept[n - 1]
  IN  kept[Len(s)]

\* And the others.
Without(s, S) == Only(s, {s[i] : i \in DOMAIN s} \ S)
=============================================================================
