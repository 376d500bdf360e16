----------------------------- MODULE Subsequences ---------------------------
(***************************************************************************)
(* Parts of a sequence, picked by their places, and the sum of a sequence. *)
(* A set of places takes the part of the predicate of SelectSeq: what is   *)
(* picked can then be stated and proved for every set.                     *)
(***************************************************************************)
EXTENDS Integers, Sequences

\* The members of I between 1 and n, in increasing order.
Places(n, I) ==
    LET p[k \in 0..n] ==
            IF k = 0 THEN <<>> ELSE IF k \in I THEN Append(p[k - 1], k) ELSE p[k - 1]
    IN  p[n]

\* What s has at the places in I, in its order.
Keep(s, I) ==
    LET p == Places(Len(s), I)
    IN  [j \in 1..Len(p) |-> s[p[j]]]

Total(s) ==
    LET sum[k \in 0..Len(s)] == IF k = 0 THEN 0 ELSE sum[k - 1] + s[k]
    IN  sum[Len(s)]
=============================================================================
