------------------------ MODULE RequestBuilderProofs ------------------------
(***************************************************************************)
(* What holds of a request for every set of header names, texts, ordered   *)
(* objects, cookies, bodies, fields, URLs and budgets and any number of    *)
(* calls.  From the bottom up: facts about sequences and ordered objects,  *)
(* the invariants of the builder and of the target, what follows from them *)
(* for a request that is sent, prepared or previewed, and the theorems.    *)
(***************************************************************************)
EXTENDS RequestTarget, WellFoundedInduction, TLAPS

-----------------------------------------------------------------------------
(* Sequences: induction, recursion, and the parts picked by their places.   *)

\* Induction on the naturals for a set in the place of a predicate: the
\* provers can apply it, because the set is a term.
LEMMA SetInduction ==
    ASSUME NEW S, 0 \in S, \A n \in Nat : n \in S => n + 1 \in S
    PROVE  \A n \in Nat : n \in S
<1> SUFFICES ASSUME Nat \ S # {} PROVE FALSE
  OBVIOUS
<1> DEFINE Below == OpToRel(<, Nat)
<1>1. PICK n \in Nat \ S : \A m \in Nat \ S : ~(<<m, n>> \in Below)
  BY NatLessThanWellFounded, WFMin
<1>2. \A a, b \in Nat : a < b => <<a, b>> \in Below
  BY DEF OpToRel
<1> HIDE DEF Below
<1>3. n \in Nat /\ n \notin S
  OBVIOUS
<1>4. n # 0
  BY <1>3
<1>5. n - 1 \in Nat /\ n - 1 < n /\ (n - 1) + 1 = n
  BY <1>3, <1>4
<1>6. n - 1 \in S
  <2> SUFFICES ASSUME n - 1 \in Nat \ S PROVE FALSE
    BY <1>5
  <2>1. <<n - 1, n>> \in Below
    BY <1>2, <1>3, <1>5
  <2> QED BY <1>1, <2>1
<1> QED BY <1>3, <1>5, <1>6

\* A set of naturals that is not empty has a least member.
LEMMA Least ==
    ASSUME NEW S \in SUBSET Nat, S # {}
    PROVE  \E n \in S : \A m \in S : n <= m
<1> DEFINE T == {n \in Nat : \A m \in S : m > n}
<1> SUFFICES ASSUME \A n \in S : \E m \in S : m < n PROVE FALSE
  OBVIOUS
<1> DEFINE U == {n \in Nat : \A m \in S : m >= n}
<1>1. 0 \in U
  OBVIOUS
<1>2. ASSUME NEW n \in Nat, n \in U PROVE n + 1 \in U
  <2> SUFFICES ASSUME NEW m \in S, m < n + 1 PROVE FALSE
    BY <1>2
  <2>1. m = n
    BY <1>2
  <2> QED BY <1>2, <2>1
<1>3. \A n \in Nat : n \in U
  <2> HIDE DEF U
  <2> QED BY <1>1, <1>2, SetInduction
<1>4. PICK m \in S : TRUE
  OBVIOUS
<1>5. m + 1 \in U
  BY <1>3, <1>4
<1> QED BY <1>4, <1>5

\* A function on 0..n may be defined by its value at 0 and a step; the step
\* is a function, so that the provers can apply the lemma.
IsStep(G, A) == G \in [Nat -> [A -> A]]
Runs(f, n, A, a, G) ==
    /\ f \in [0..n -> A]
    /\ f[0] = a
    /\ \A k \in 1..n : f[k] = G[k][f[k - 1]]

\* A function defined by recursion on 0..n exists, has the type of its steps,
\* and its values are what the recursion says.
LEMMA Recursion ==
    ASSUME NEW A, NEW a, a \in A, NEW G, IsStep(G, A), NEW n \in Nat
    PROVE  \E f : Runs(f, n, A, a, G)
<1> USE DEF IsStep, Runs
<1> DEFINE P(m) == \E f \in [0..m -> A] : f[0] = a /\ \A k \in 1..m : f[k] = G[k][f[k - 1]]
           S == {m \in Nat : P(m)}
<1>1. 0 \in S
  <2> DEFINE f == [k \in 0..0 |-> a]
  <2>1. f \in [0..0 -> A] /\ f[0] = a /\ \A k \in 1..0 : f[k] = G[k][f[k - 1]]
    OBVIOUS
  <2> QED BY <2>1
<1>2. ASSUME NEW m \in Nat, m \in S PROVE m + 1 \in S
  <2>1. PICK f \in [0..m -> A] : f[0] = a /\ \A k \in 1..m : f[k] = G[k][f[k - 1]]
    BY <1>2
  <2> DEFINE g == [k \in 0..(m + 1) |-> IF k = m + 1 THEN G[m + 1][f[m]] ELSE f[k]]
  <2>2. g \in [0..(m + 1) -> A]
    OBVIOUS
  <2>3. \A k \in 0..m : g[k] = f[k]
    OBVIOUS
  <2>4. g[m + 1] = G[m + 1][f[m]]
    OBVIOUS
  <2> HIDE DEF g
  <2>5. ASSUME NEW k \in 1..(m + 1) PROVE g[k] = G[k][g[k - 1]]
    <3>1. CASE k = m + 1
      <4>1. k - 1 = m /\ m \in 0..m
        BY <3>1
      <4> QED BY <2>3, <2>4, <3>1, <4>1
    <3>2. CASE k # m + 1
      <4>1. k \in 1..m /\ k \in 0..m /\ k - 1 \in 0..m
        BY <3>2
      <4> QED BY <2>1, <2>3, <4>1
    <3> QED BY <3>1, <3>2
  <2>6. g[0] = a
    BY <2>1, <2>3
  <2>7. P(m + 1)
    BY <2>2, <2>5, <2>6
  <2> QED BY <2>7
<1>3. \A m \in Nat : m \in S
  <2> HIDE DEF S
  <2> QED BY <1>1, <1>2, SetInduction
<1> QED BY <1>3

\* What every sequence is: its length, its domain and its members.
LEMMA SeqShape ==
    ASSUME NEW A, NEW s \in Seq(A)
    PROVE  /\ Len(s) \in Nat /\ DOMAIN s = 1..Len(s)
           /\ \A i \in 1..Len(s) : s[i] \in A
           /\ s = [i \in 1..Len(s) |-> s[i]]
           /\ s = <<>> <=> Len(s) = 0
  OBVIOUS

\* Sequences with the same members at the same places are equal.
LEMMA SeqEqual ==
    ASSUME NEW A, NEW B, NEW s \in Seq(A), NEW t \in Seq(B), Len(s) = Len(t),
           \A i \in 1..Len(s) : s[i] = t[i]
    PROVE  s = t
<1>1. s = [i \in 1..Len(s) |-> s[i]] /\ t = [i \in 1..Len(t) |-> t[i]]
  BY SeqShape
<1> QED BY <1>1

\* p lists the members of I in increasing order.
Lists(p, I) ==
    /\ p \in Seq(Nat)
    /\ \A j \in 1..Len(p) : p[j] \in I
    /\ \A i \in I : \E j \in 1..Len(p) : p[j] = i
    /\ \A j, k \in 1..Len(p) : j < k => p[j] < p[k]

\* A list of numbers grows by a number above the others.
LEMMA ListsAppend ==
    ASSUME NEW p, NEW I \in SUBSET Nat, Lists(p, I), NEW n \in Nat, \A i \in I : i < n
    PROVE  Lists(Append(p, n), I \cup {n})
<1> DEFINE q == Append(p, n)
<1>1. p \in Seq(Nat) /\ Len(p) \in Nat
  BY DEF Lists
<1>2. q \in Seq(Nat) /\ Len(q) = Len(p) + 1
  BY <1>1
<1>3. \A j \in 1..Len(p) : q[j] = p[j]
  BY <1>1
<1>4. q[Len(p) + 1] = n
  BY <1>1
<1> HIDE DEF q
<1>5. \A j \in 1..Len(q) : j \in 1..Len(p) \/ j = Len(p) + 1
  BY <1>1, <1>2
<1>6. \A j \in 1..Len(q) : q[j] \in I \cup {n}
  BY <1>3, <1>4, <1>5 DEF Lists
<1>7. \A i \in I \cup {n} : \E j \in 1..Len(q) : q[j] = i
  <2>1. Len(p) + 1 \in 1..Len(q) /\ \A j \in 1..Len(p) : j \in 1..Len(q)
    BY <1>1, <1>2
  <2> QED BY <1>3, <1>4, <2>1 DEF Lists
<1>8. ASSUME NEW j \in 1..Len(q), NEW k \in 1..Len(q), j < k PROVE q[j] < q[k]
  <2>1. j \in 1..Len(p)
    BY <1>1, <1>2, <1>8
  <2>2. CASE k \in 1..Len(p)
    BY <1>3, <1>8, <2>1, <2>2 DEF Lists
  <2>3. CASE k = Len(p) + 1
    BY <1>3, <1>4, <2>1, <2>3 DEF Lists
  <2> QED BY <1>5, <2>2, <2>3
<1> QED BY <1>2, <1>6, <1>7, <1>8 DEF Lists, q

\* Places lists the members of a set up to n.
LEMMA PlacesLists ==
    ASSUME NEW n \in Nat, NEW I
    PROVE  Lists(Places(n, I), I \cap 1..n)
<1> DEFINE G == [k \in Nat |-> [q \in Seq(Nat) |-> IF k \in I THEN Append(q, k) ELSE q]]
<1>1. G \in [Nat -> [Seq(Nat) -> Seq(Nat)]]
  OBVIOUS
<1>2. <<>> \in Seq(Nat)
  OBVIOUS
<1>3. \A k \in Nat, q \in Seq(Nat) : G[k][q] = IF k \in I THEN Append(q, k) ELSE q
  OBVIOUS
<1>4. PICK f \in [0..n -> Seq(Nat)] : f[0] = <<>> /\ \A k \in 1..n : f[k] = G[k][f[k - 1]]
  <2>1. IsStep(G, Seq(Nat))
    BY <1>1 DEF IsStep
  <2> HIDE DEF G
  <2>2. \E f : Runs(f, n, Seq(Nat), <<>>, G)
    BY <1>2, <2>1, Recursion
  <2> QED BY <2>2 DEF Runs
<1> HIDE DEF G
<1> DEFINE E(h) == h = [k \in 0..n |-> IF k = 0 THEN <<>>
                         ELSE IF k \in I THEN Append(h[k - 1], k) ELSE h[k - 1]]
           p == CHOOSE h : E(h)
<1>5. E(f)
  <2>1. ASSUME NEW k \in 0..n
        PROVE  f[k] = IF k = 0 THEN <<>>
                      ELSE IF k \in I THEN Append(f[k - 1], k) ELSE f[k - 1]
    <3>1. CASE k = 0
      BY <1>4, <3>1
    <3>2. CASE k # 0
      <4>1. k \in 1..n /\ k - 1 \in 0..n /\ k \in Nat
        BY <3>2
      <4>2. f[k - 1] \in Seq(Nat)
        BY <4>1
      <4> QED BY <1>3, <1>4, <3>2, <4>1, <4>2
    <3> QED BY <3>1, <3>2
  <2> QED BY <2>1
<1>6. E(p)
  <2> HIDE DEF E
  <2> QED BY <1>5
<1>7. Places(n, I) = p[n]
  BY DEF Places
<1> HIDE DEF p
<1>8. p[0] = <<>> /\ \A k \in 1..n : p[k] = IF k \in I THEN Append(p[k - 1], k) ELSE p[k - 1]
  <2>1. 0 \in 0..n /\ \A k \in 1..n : k \in 0..n /\ k # 0
    OBVIOUS
  <2> QED BY <1>6, <2>1
<1> DEFINE S == {k \in Nat : k <= n => Lists(p[k], I \cap 1..k)}
<1>9. 0 \in S
  <2>1. Lists(<<>>, I \cap 1..0)
    BY DEF Lists
  <2> QED BY <1>8, <2>1
<1>10. ASSUME NEW k \in Nat, k \in S PROVE k + 1 \in S
  <2> SUFFICES ASSUME k + 1 <= n PROVE Lists(p[k + 1], I \cap 1..(k + 1))
    OBVIOUS
  <2>1. Lists(p[k], I \cap 1..k)
    BY <1>10
  <2>2. p[k + 1] = IF k + 1 \in I THEN Append(p[k], k + 1) ELSE p[k]
    <3>1. k + 1 \in 1..n /\ (k + 1) - 1 = k
      OBVIOUS
    <3> QED BY <1>8, <3>1
  <2>3. CASE k + 1 \in I
    <3>1. I \cap 1..(k + 1) = (I \cap 1..k) \cup {k + 1}
      BY <2>3
    <3>2. (I \cap 1..k) \in SUBSET Nat /\ \A i \in I \cap 1..k : i < k + 1
      OBVIOUS
    <3> DEFINE J == I \cap 1..k
               q == p[k]
    <3>3. J \in SUBSET Nat /\ k + 1 \in Nat /\ Lists(q, J) /\ \A i \in J : i < k + 1
      BY <2>1, <3>2
    <3> HIDE DEF J, q
    <3>4. Lists(Append(q, k + 1), J \cup {k + 1})
      BY <3>3, ListsAppend
    <3> QED BY <2>2, <2>3, <3>1, <3>4 DEF J, q
  <2>4. CASE k + 1 \notin I
    <3>1. I \cap 1..(k + 1) = I \cap 1..k
      BY <2>4
    <3> QED BY <2>1, <2>2, <2>4, <3>1
  <2> QED BY <2>3, <2>4
<1>11. \A k \in Nat : k \in S
  <2> HIDE DEF S
  <2> QED BY <1>9, <1>10, SetInduction
<1>12. Lists(p[n], I \cap 1..n)
  <2>1. n \in S
    <3> HIDE DEF S
    <3> QED BY <1>11
  <2> QED BY <2>1
<1> QED BY <1>7, <1>12

\* A set has only one such list.
LEMMA ListsPrefix ==
    ASSUME NEW p, NEW q, NEW I, Lists(p, I), Lists(q, I)
    PROVE  \A j \in 1..Len(p) : j <= Len(q) /\ p[j] = q[j]
<1> DEFINE D == {j \in 1..Len(p) : ~(j <= Len(q) /\ p[j] = q[j])}
<1> SUFFICES ASSUME D # {} PROVE FALSE
  OBVIOUS
<1>1. /\ p \in Seq(Nat) /\ Len(p) \in Nat
      /\ q \in Seq(Nat) /\ Len(q) \in Nat
  BY DEF Lists
<1>2. PICK j \in D : \A m \in D : j <= m
  <2>1. D \in SUBSET Nat
    BY <1>1
  <2> HIDE DEF D
  <2> QED BY <2>1, Least
<1>3. j \in 1..Len(p) /\ \A i \in 1..Len(p) : i < j => i <= Len(q) /\ p[i] = q[i]
  BY <1>1, <1>2
<1>4. PICK k \in 1..Len(q) : q[k] = p[j]
  BY <1>3 DEF Lists
<1>5. k >= j
  <2> SUFFICES ASSUME k < j PROVE FALSE
    BY <1>1, <1>3
  <2>1. k \in 1..Len(p) /\ p[k] = q[k]
    BY <1>1, <1>3
  <2>2. p[k] < p[j]
    BY <1>1, <1>3, <2>1 DEF Lists
  <2>3. p[k] \in Nat /\ p[j] \in Nat
    BY <1>1, <1>3, <2>1, SeqShape
  <2> QED BY <1>4, <2>1, <2>2, <2>3
<1>6. j \in 1..Len(q) /\ p[j] # q[j]
  BY <1>1, <1>2, <1>3, <1>5
<1>7. k > j
  BY <1>1, <1>3, <1>4, <1>5, <1>6
<1>8. q[j] < p[j]
  BY <1>4, <1>6, <1>7 DEF Lists
<1>9. PICK l \in 1..Len(p) : p[l] = q[j]
  BY <1>6 DEF Lists
<1>10. l < j
  <2> SUFFICES ASSUME l >= j PROVE FALSE
    BY <1>1, <1>3
  <2>1. l = j \/ p[j] < p[l]
    BY <1>3 DEF Lists
  <2>2. p[l] \in Nat /\ p[j] \in Nat
    BY <1>1, <1>3, SeqShape
  <2> QED BY <1>8, <1>9, <2>1, <2>2
<1>11. l \in 1..Len(q) /\ q[l] = q[j]
  BY <1>1, <1>3, <1>9, <1>10
<1>12. q[l] < q[j] /\ q[j] \in Nat
  BY <1>1, <1>6, <1>10, <1>11 DEF Lists
<1> QED BY <1>11, <1>12

\* Two increasing lists of one set are equal.
LEMMA ListsUnique ==
    ASSUME NEW p, NEW q, NEW I, Lists(p, I), Lists(q, I)
    PROVE  p = q
<1>1. /\ p \in Seq(Nat) /\ Len(p) \in Nat
      /\ q \in Seq(Nat) /\ Len(q) \in Nat
  BY DEF Lists
<1>2. \A j \in 1..Len(p) : j <= Len(q) /\ p[j] = q[j]
  BY ListsPrefix
<1>3. \A j \in 1..Len(q) : j <= Len(p) /\ q[j] = p[j]
  BY ListsPrefix
<1>4. Len(p) = Len(q)
  <2>1. Len(p) > 0 => Len(p) <= Len(q)
    BY <1>1, <1>2
  <2>2. Len(q) > 0 => Len(q) <= Len(p)
    BY <1>1, <1>3
  <2> QED BY <1>1, <2>1, <2>2
<1> QED BY <1>1, <1>2, <1>4, SeqEqual

\* What Keep keeps.

\* k is what s has at the places p, which are those in I.
IsPart(k, s, p, I) ==
    /\ Lists(p, I \cap 1..Len(s))
    /\ Len(k) = Len(p) /\ Len(p) \in Nat /\ DOMAIN k = 1..Len(p)
    /\ \A j \in 1..Len(p) : p[j] \in I \cap 1..Len(s) /\ k[j] = s[p[j]]
    /\ \A i \in I \cap 1..Len(s) : \E j \in 1..Len(p) : p[j] = i

\* Keep takes the members at the listed places.
LEMMA KeepPlaces ==
    ASSUME NEW A, NEW s \in Seq(A), NEW I
    PROVE  IsPart(Keep(s, I), s, Places(Len(s), I), I) /\ Keep(s, I) \in Seq(A)
<1> DEFINE p == Places(Len(s), I)
           k == Keep(s, I)
<1>1. Lists(p, I \cap 1..Len(s))
  BY PlacesLists
<1>2. k = [j \in 1..Len(p) |-> s[p[j]]]
  BY DEF Keep
<1> HIDE DEF p, k
<1>3. Len(p) \in Nat /\ \A j \in 1..Len(p) : p[j] \in I \cap 1..Len(s)
  BY <1>1 DEF Lists
<1>4. k \in Seq(A) /\ Len(k) = Len(p) /\ DOMAIN k = 1..Len(k)
  BY <1>2, <1>3
<1>5. \A i \in I \cap 1..Len(s) : \E j \in 1..Len(p) : p[j] = i
  BY <1>1 DEF Lists
<1>6. \A j \in 1..Len(p) : k[j] = s[p[j]]
  BY <1>2
<1>7. IsPart(k, s, p, I)
  BY <1>1, <1>3, <1>4, <1>5, <1>6 DEF IsPart
<1> QED BY <1>4, <1>7 DEF p, k

Picks(t, s, p) == Len(t) = Len(p) /\ \A j \in 1..Len(p) : t[j] = s[p[j]]

\* Whatever takes the members at the listed places is what Keep gives.
LEMMA KeepIs ==
    ASSUME NEW A, NEW s, s \in Seq(A), NEW I, NEW p, Lists(p, I \cap 1..Len(s)),
           NEW t, t \in Seq(A), Picks(t, s, p)
    PROVE  Keep(s, I) = t
<1> USE DEF Picks
<1>1. Places(Len(s), I) = p
  <2>1. Len(s) \in Nat
    BY SeqShape
  <2>2. Lists(Places(Len(s), I), I \cap 1..Len(s))
    BY <2>1, PlacesLists
  <2> QED BY <2>2, ListsUnique
<1>2. /\ Keep(s, I) \in Seq(A) /\ Len(Keep(s, I)) = Len(p)
      /\ \A j \in 1..Len(p) : Keep(s, I)[j] = s[p[j]]
  BY <1>1, KeepPlaces DEF IsPart
<1> QED BY <1>2, SeqEqual

\* What is kept of a sequence is a sequence of the same kind.
LEMMA KeepType ==
    ASSUME NEW A, NEW s \in Seq(A), NEW I
    PROVE  /\ Keep(s, I) \in Seq(A)
           /\ DOMAIN Keep(s, I) = 1..Len(Keep(s, I))
           /\ Len(Keep(s, I)) \in Nat
<1>1. Keep(s, I) \in Seq(A)
  BY KeepPlaces
<1> QED BY <1>1, SeqShape

\* Kept are the members at the places, and no others.
LEMMA KeepMembers ==
    ASSUME NEW A, NEW s \in Seq(A), NEW I
    PROVE  /\ \A j \in DOMAIN Keep(s, I) : \E i \in I \cap 1..Len(s) : Keep(s, I)[j] = s[i]
           /\ \A i \in I \cap 1..Len(s) : \E j \in DOMAIN Keep(s, I) : Keep(s, I)[j] = s[i]
<1> DEFINE p == Places(Len(s), I)
           k == Keep(s, I)
<1>1. /\ \A j \in 1..Len(p) : p[j] \in I \cap 1..Len(s) /\ k[j] = s[p[j]]
      /\ \A i \in I \cap 1..Len(s) : \E j \in 1..Len(p) : p[j] = i
  <2>1. IsPart(k, s, p, I)
    BY KeepPlaces
  <2> QED BY <2>1 DEF IsPart
<1>2. DOMAIN k = 1..Len(p)
  BY KeepPlaces DEF IsPart
<1> HIDE DEF p, k
<1>3. ASSUME NEW j \in DOMAIN k PROVE \E i \in I \cap 1..Len(s) : k[j] = s[i]
  <2>1. p[j] \in I \cap 1..Len(s) /\ k[j] = s[p[j]]
    BY <1>1, <1>2
  <2> QED BY <2>1
<1>4. ASSUME NEW i \in I \cap 1..Len(s) PROVE \E j \in DOMAIN k : k[j] = s[i]
  BY <1>1, <1>2
<1> QED BY <1>3, <1>4 DEF k

\* Sets that agree on the places of a sequence keep the same of it.
LEMMA KeepSame ==
    ASSUME NEW A, NEW s \in Seq(A), NEW I, NEW J, \A i \in 1..Len(s) : i \in I <=> i \in J
    PROVE  Keep(s, I) = Keep(s, J)
<1>1. I \cap 1..Len(s) = J \cap 1..Len(s)
  OBVIOUS
<1>2. Places(Len(s), I) = Places(Len(s), J)
  <2>1. Len(s) \in Nat
    BY SeqShape
  <2>2. /\ Lists(Places(Len(s), I), I \cap 1..Len(s))
        /\ Lists(Places(Len(s), J), J \cap 1..Len(s))
    BY <2>1, PlacesLists
  <2> QED BY <1>1, <2>2, ListsUnique
<1> QED BY <1>2 DEF Keep

\* Every place is kept: nothing changes.
LEMMA KeepAll ==
    ASSUME NEW A, NEW s \in Seq(A), NEW I, \A i \in 1..Len(s) : i \in I
    PROVE  Keep(s, I) = s
<1> DEFINE p == [i \in 1..Len(s) |-> i]
<1>1. Len(s) \in Nat
  BY SeqShape
<1>2. p \in Seq(Nat) /\ Len(p) = Len(s) /\ \A i \in 1..Len(s) : p[i] = i
  BY <1>1
<1> HIDE DEF p
<1>3. Lists(p, I \cap 1..Len(s))
  BY <1>1, <1>2 DEF Lists
<1>4. Picks(s, s, p)
  BY <1>2 DEF Picks
<1> QED BY <1>3, <1>4, KeepIs

\* No place is kept: nothing is left.
LEMMA KeepNone ==
    ASSUME NEW A, NEW s \in Seq(A), NEW I, \A i \in 1..Len(s) : i \notin I
    PROVE  Keep(s, I) = <<>>
<1>1. Len(s) \in Nat
  BY SeqShape
<1>2. Lists(<<>>, I \cap 1..Len(s))
  BY <1>1 DEF Lists
<1>3. <<>> \in Seq(A) /\ Picks(<<>>, s, <<>>)
  BY DEF Picks
<1> QED BY <1>2, <1>3, KeepIs

IsConcat(u, s, t) ==
    /\ Len(u) = Len(s) + Len(t) /\ DOMAIN u = 1..Len(u)
    /\ Len(s) \in Nat /\ Len(t) \in Nat
    /\ \A i \in 1..Len(s) : u[i] = s[i] /\ i \in 1..Len(u)
    /\ \A i \in 1..Len(t) : u[Len(s) + i] = t[i] /\ Len(s) + i \in 1..Len(u)
    /\ \A i \in 1..Len(u) : i \in 1..Len(s) \/ \E j \in 1..Len(t) : i = Len(s) + j

\* A concatenation, place by place.
LEMMA ConcatShape ==
    ASSUME NEW A, NEW s, s \in Seq(A), NEW t, t \in Seq(A)
    PROVE  IsConcat(s \o t, s, t) /\ s \o t \in Seq(A)
<1>1. s \o t \in Seq(A) /\ Len(s \o t) = Len(s) + Len(t) /\ Len(s) \in Nat /\ Len(t) \in Nat
  OBVIOUS
<1>2. \A i \in 1..Len(s) : (s \o t)[i] = s[i]
  OBVIOUS
<1>3. \A i \in 1..Len(t) : (s \o t)[Len(s) + i] = t[i]
  OBVIOUS
<1>4. ASSUME NEW i \in 1..Len(s \o t), i \notin 1..Len(s)
      PROVE  \E j \in 1..Len(t) : i = Len(s) + j
  <2>1. i - Len(s) \in 1..Len(t) /\ i = Len(s) + (i - Len(s))
    BY <1>1, <1>4
  <2> QED BY <2>1
<1>5. /\ \A i \in 1..Len(s) : i \in 1..Len(s \o t)
      /\ \A i \in 1..Len(t) : Len(s) + i \in 1..Len(s \o t)
      /\ DOMAIN (s \o t) = 1..Len(s \o t)
  BY <1>1
<1> QED BY <1>1, <1>2, <1>3, <1>4, <1>5 DEF IsConcat

\* The places of a concatenation are those of its parts, the second moved.
LEMMA ListsConcat ==
    ASSUME NEW m \in Nat, NEW n \in Nat, NEW I, NEW J, NEW K,
           \A i \in 1..m : i \in I <=> i \in K,
           \A i \in 1..n : i \in J <=> m + i \in K,
           NEW p, Lists(p, I \cap 1..m), NEW q, Lists(q, J \cap 1..n),
           NEW r, r \in Seq(Nat), Len(r) = Len(q), \A j \in 1..Len(q) : r[j] = m + q[j]
    PROVE  Lists(p \o r, K \cap 1..(m + n))
<1> DEFINE u == p \o r
<1>1. p \in Seq(Nat) /\ q \in Seq(Nat)
  BY DEF Lists
<1>2. Len(p) \in Nat /\ Len(q) \in Nat /\ \A j \in 1..Len(q) : q[j] \in Nat
  BY <1>1, SeqShape
<1>3. r \in Seq(Nat) /\ Len(r) = Len(q) /\ \A j \in 1..Len(q) : r[j] = m + q[j]
  OBVIOUS
<1>4. /\ u \in Seq(Nat) /\ Len(u) = Len(p) + Len(q)
      /\ \A i \in 1..Len(p) : u[i] = p[i]
      /\ \A i \in 1..Len(q) : u[Len(p) + i] = m + q[i]
      /\ \A i \in 1..Len(u) : i \in 1..Len(p) \/ \E j \in 1..Len(q) : i = Len(p) + j
  <2>1. IsConcat(u, p, r) /\ u \in Seq(Nat)
    BY <1>1, <1>3, ConcatShape
  <2> HIDE DEF u
  <2> QED BY <1>3, <2>1 DEF IsConcat
<1> HIDE DEF u
<1>5. /\ \A j \in 1..Len(p) : p[j] \in I \cap 1..m
      /\ \A j \in 1..Len(q) : q[j] \in J \cap 1..n
  BY DEF Lists
<1>6. ASSUME NEW i \in 1..Len(u) PROVE u[i] \in K \cap 1..(m + n)
  <2>1. CASE i \in 1..Len(p)
    <3>1. u[i] \in I /\ u[i] \in 1..m
      BY <1>4, <1>5, <2>1
    <3> QED BY <3>1
  <2>2. ASSUME NEW j \in 1..Len(q), i = Len(p) + j PROVE u[i] \in K \cap 1..(m + n)
    <3>1. u[i] = m + q[j] /\ q[j] \in 1..n /\ q[j] \in J
      BY <1>4, <1>5, <2>2
    <3> QED BY <3>1
  <2> QED BY <1>4, <2>1, <2>2
<1>7. ASSUME NEW i \in K \cap 1..(m + n) PROVE \E j \in 1..Len(u) : u[j] = i
  <2>1. CASE i <= m
    <3>1. i \in I \cap 1..m
      BY <1>7, <2>1
    <3>2. PICK j \in 1..Len(p) : p[j] = i
      BY <3>1 DEF Lists
    <3>3. j \in 1..Len(u) /\ u[j] = i
      BY <1>2, <1>4, <3>2
    <3> QED BY <3>3
  <2>2. CASE i > m
    <3>1. i - m \in 1..n /\ i = m + (i - m)
      BY <1>7, <2>2
    <3>2. i - m \in J \cap 1..n
      BY <1>7, <3>1
    <3>3. PICK j \in 1..Len(q) : q[j] = i - m
      BY <3>2 DEF Lists
    <3>4. u[Len(p) + j] = m + (i - m)
      BY <1>4, <3>3
    <3>5. Len(p) + j \in 1..Len(u)
      BY <1>2, <1>4
    <3> QED BY <3>1, <3>4, <3>5
  <2> QED BY <1>7, <2>1, <2>2
<1>8. ASSUME NEW i \in 1..Len(u), NEW k \in 1..Len(u), i < k PROVE u[i] < u[k]
  <2>1. CASE k \in 1..Len(p)
    <3>1. i \in 1..Len(p) /\ p[i] < p[k]
      BY <1>2, <1>8, <2>1 DEF Lists
    <3> QED BY <1>4, <2>1, <3>1
  <2>2. ASSUME NEW l \in 1..Len(q), k = Len(p) + l PROVE u[i] < u[k]
    <3>1. u[k] = m + q[l] /\ q[l] \in 1..n
      BY <1>4, <1>5, <2>2
    <3>2. CASE i \in 1..Len(p)
      <4>1. u[i] \in 1..m
        BY <1>4, <1>5, <3>2
      <4> QED BY <3>1, <4>1
    <3>3. ASSUME NEW j \in 1..Len(q), i = Len(p) + j PROVE u[i] < u[k]
      <4>1. u[i] = m + q[j] /\ q[j] \in 1..n
        BY <1>4, <1>5, <3>3
      <4>2. j < l
        BY <1>2, <1>8, <2>2, <3>3
      <4>3. q[j] < q[l]
        BY <4>2 DEF Lists
      <4> QED BY <3>1, <4>1, <4>3
    <3> QED BY <1>4, <3>2, <3>3
  <2> QED BY <1>4, <2>1, <2>2
<1>9. Lists(u, K \cap 1..(m + n))
  BY <1>4, <1>6, <1>7, <1>8 DEF Lists
<1> QED BY <1>9 DEF u

\* K is I on the first m places and J on the n after them.
Joins(K, m, I, n, J) ==
    /\ \A i \in 1..m : i \in I <=> i \in K
    /\ \A i \in 1..n : i \in J <=> m + i \in K

\* Keep works on the parts of a concatenation separately.
LEMMA KeepConcat ==
    ASSUME NEW A, NEW s, s \in Seq(A), NEW t, t \in Seq(A), NEW I, NEW J, NEW K,
           Joins(K, Len(s), I, Len(t), J)
    PROVE  Keep(s \o t, K) = Keep(s, I) \o Keep(t, J)
<1> DEFINE p == Places(Len(s), I)
           q == Places(Len(t), J)
           r == [j \in 1..Len(q) |-> Len(s) + q[j]]
           a == Keep(s, I)
           b == Keep(t, J)
           u == p \o r
           c == s \o t
           d == a \o b
<1>1. Len(s) \in Nat /\ Len(t) \in Nat
  BY SeqShape
<1>2. /\ c \in Seq(A) /\ Len(c) = Len(s) + Len(t)
      /\ \A i \in 1..Len(s) : c[i] = s[i]
      /\ \A i \in 1..Len(t) : c[Len(s) + i] = t[i]
  <2>1. IsConcat(c, s, t) /\ c \in Seq(A)
    BY ConcatShape
  <2> HIDE DEF c
  <2> QED BY <2>1 DEF IsConcat
<1>3. IsPart(a, s, p, I) /\ a \in Seq(A) /\ IsPart(b, t, q, J) /\ b \in Seq(A)
  BY KeepPlaces
<1>4. Lists(p, I \cap 1..Len(s)) /\ Lists(q, J \cap 1..Len(t))
  BY <1>3 DEF IsPart
<1> HIDE DEF p, q, a, b, c
<1>6. p \in Seq(Nat) /\ q \in Seq(Nat)
  BY <1>4 DEF Lists
<1>7. Len(p) \in Nat /\ Len(q) \in Nat /\ \A j \in 1..Len(q) : q[j] \in Nat
  BY <1>6, SeqShape
<1>8. r \in Seq(Nat) /\ Len(r) = Len(q) /\ \A j \in 1..Len(q) : r[j] = Len(s) + q[j]
  BY <1>1, <1>7
<1> HIDE DEF r
<1>5. Lists(u, K \cap 1..(Len(s) + Len(t)))
  BY <1>1, <1>4, <1>8, ListsConcat DEF Joins
<1>9. /\ u \in Seq(Nat) /\ Len(u) = Len(p) + Len(q)
      /\ \A i \in 1..Len(p) : u[i] = p[i]
      /\ \A i \in 1..Len(q) : u[Len(p) + i] = Len(s) + q[i]
      /\ \A i \in 1..Len(u) : i \in 1..Len(p) \/ \E j \in 1..Len(q) : i = Len(p) + j
  <2>1. IsConcat(u, p, r) /\ u \in Seq(Nat)
    BY <1>6, <1>8, ConcatShape
  <2> HIDE DEF u
  <2> QED BY <1>8, <2>1 DEF IsConcat
<1>10. Len(a) = Len(p) /\ Len(b) = Len(q)
  BY <1>3 DEF IsPart
<1>11. /\ d \in Seq(A) /\ Len(d) = Len(p) + Len(q)
       /\ \A i \in 1..Len(p) : d[i] = a[i]
       /\ \A i \in 1..Len(q) : d[Len(p) + i] = b[i]
  <2>1. IsConcat(d, a, b) /\ d \in Seq(A)
    BY <1>3, ConcatShape
  <2> HIDE DEF d
  <2> QED BY <1>10, <2>1 DEF IsConcat
<1> HIDE DEF u, d
<1>12. ASSUME NEW j \in 1..Len(u) PROVE d[j] = c[u[j]]
  <2>1. CASE j \in 1..Len(p)
    <3>1. p[j] \in 1..Len(s) /\ a[j] = s[p[j]]
      BY <1>3, <2>1 DEF IsPart
    <3> QED BY <1>2, <1>9, <1>11, <2>1, <3>1
  <2>2. ASSUME NEW i \in 1..Len(q), j = Len(p) + i PROVE d[j] = c[u[j]]
    <3>1. q[i] \in 1..Len(t) /\ b[i] = t[q[i]]
      BY <1>3, <2>2 DEF IsPart
    <3> QED BY <1>2, <1>9, <1>11, <2>2, <3>1
  <2> QED BY <1>9, <2>1, <2>2
<1>13. Keep(c, K) = d
  <2>1. Lists(u, K \cap 1..Len(c)) /\ Len(d) = Len(u)
    BY <1>2, <1>5, <1>9, <1>11
  <2>2. Picks(d, c, u)
    BY <1>12, <2>1 DEF Picks
  <2> QED BY <1>2, <1>11, <2>1, <2>2, KeepIs
<1> QED BY <1>13 DEF c, d, a, b

-----------------------------------------------------------------------------
(* Parts picked by their members.                                           *)

\* Keep takes the same places of two sequences of one length.
LEMMA KeepMap ==
    ASSUME NEW A, NEW B, NEW s, s \in Seq(A), NEW t, t \in Seq(B), Len(t) = Len(s), NEW I
    PROVE  /\ Len(Keep(t, I)) = Len(Keep(s, I))
           /\ \A j \in 1..Len(Keep(s, I)) :
                \E i \in I \cap 1..Len(s) : Keep(s, I)[j] = s[i] /\ Keep(t, I)[j] = t[i]
<1> DEFINE p == Places(Len(s), I)
           a == Keep(s, I)
           b == Keep(t, I)
<1>1. IsPart(a, s, p, I) /\ IsPart(b, t, p, I)
  BY KeepPlaces
<1> HIDE DEF p, a, b
<1>2. Len(b) = Len(a) /\ Len(a) = Len(p)
  BY <1>1 DEF IsPart
<1>3. ASSUME NEW j \in 1..Len(a) PROVE \E i \in I \cap 1..Len(s) : a[j] = s[i] /\ b[j] = t[i]
  <2>1. p[j] \in I \cap 1..Len(s) /\ a[j] = s[p[j]] /\ b[j] = t[p[j]]
    BY <1>1, <1>2 DEF IsPart
  <2> QED BY <2>1
<1> QED BY <1>2, <1>3 DEF a, b

\* The members of a sequence that are in a set.

Sub(s, V) == Keep(s, {i \in DOMAIN s : s[i] \in V})
Distinct(s) == \A i, j \in DOMAIN s : s[i] = s[j] => i = j

\* A part picked by its members is a sequence of the same kind.
LEMMA SubType ==
    ASSUME NEW A, NEW s, s \in Seq(A), NEW V
    PROVE  Sub(s, V) \in Seq(A)
  BY KeepType DEF Sub

\* The members of such a part.
LEMMA SubMembers ==
    ASSUME NEW A, NEW s, s \in Seq(A), NEW V
    PROVE  ToSet(Sub(s, V)) = ToSet(s) \cap V
<1> DEFINE I == {i \in DOMAIN s : s[i] \in V}
           k == Keep(s, I)
<1>1. /\ \A j \in DOMAIN k : \E i \in I \cap 1..Len(s) : k[j] = s[i]
      /\ \A i \in I \cap 1..Len(s) : \E j \in DOMAIN k : k[j] = s[i]
  <2> HIDE DEF I
  <2> QED BY KeepMembers
<1>2. DOMAIN s = 1..Len(s)
  BY SeqShape
<1> HIDE DEF k
<1>3. {k[j] : j \in DOMAIN k} = {s[i] : i \in DOMAIN s} \cap V
  BY <1>1, <1>2
<1> QED BY <1>3 DEF ToSet, Sub, k

\* Sets that agree on the members pick the same part.
LEMMA SubSame ==
    ASSUME NEW A, NEW s, s \in Seq(A), NEW V, NEW W, \A x \in ToSet(s) : x \in V <=> x \in W
    PROVE  Sub(s, V) = Sub(s, W)
<1>1. {i \in DOMAIN s : s[i] \in V} = {i \in DOMAIN s : s[i] \in W}
  BY DEF ToSet
<1> QED BY <1>1 DEF Sub

\* A set with every member picks everything.
LEMMA SubAll ==
    ASSUME NEW A, NEW s, s \in Seq(A), NEW V, ToSet(s) \subseteq V
    PROVE  Sub(s, V) = s
<1> DEFINE I == {i \in DOMAIN s : s[i] \in V}
<1>1. \A i \in 1..Len(s) : i \in I
  BY SeqShape DEF ToSet
<1> HIDE DEF I
<1>2. Keep(s, I) = s
  BY <1>1, KeepAll
<1> QED BY <1>2 DEF I, Sub

\* A set with no member picks nothing.
LEMMA SubNone ==
    ASSUME NEW A, NEW s, s \in Seq(A), NEW V, \A x \in ToSet(s) : x \notin V
    PROVE  Sub(s, V) = <<>>
<1> DEFINE I == {i \in DOMAIN s : s[i] \in V}
<1>1. \A i \in 1..Len(s) : i \notin I
  BY SeqShape DEF ToSet
<1> HIDE DEF I
<1>2. Keep(s, I) = <<>>
  BY <1>1, KeepNone
<1> QED BY <1>2 DEF I, Sub

\* Picking works on the parts of a concatenation separately.
LEMMA SubConcat ==
    ASSUME NEW A, NEW s, s \in Seq(A), NEW t, t \in Seq(A), NEW V
    PROVE  Sub(s \o t, V) = Sub(s, V) \o Sub(t, V)
<1> DEFINE u == s \o t
           I == {i \in DOMAIN s : s[i] \in V}
           J == {i \in DOMAIN t : t[i] \in V}
           K == {i \in DOMAIN u : u[i] \in V}
<1>1. IsConcat(u, s, t)
  BY ConcatShape
<1>2. DOMAIN s = 1..Len(s) /\ DOMAIN t = 1..Len(t)
  BY SeqShape
<1> HIDE DEF u
<1>3. \A i \in 1..Len(s) : i \in I <=> i \in K
  BY <1>1, <1>2 DEF IsConcat
<1>4. \A i \in 1..Len(t) : i \in J <=> Len(s) + i \in K
  BY <1>1, <1>2 DEF IsConcat
<1> HIDE DEF I, J, K
<1>5. Joins(K, Len(s), I, Len(t), J)
  BY <1>3, <1>4 DEF Joins
<1>6. Keep(s \o t, K) = Keep(s, I) \o Keep(t, J)
  BY <1>5, KeepConcat
<1> QED BY <1>6 DEF Sub, I, J, K, u

\* A part of a sequence without repetitions has none.
LEMMA KeepDistinct ==
    ASSUME NEW A, NEW s, s \in Seq(A), Distinct(s), NEW I
    PROVE  Distinct(Keep(s, I))
<1> DEFINE p == Places(Len(s), I)
           k == Keep(s, I)
<1>1. IsPart(k, s, p, I)
  BY KeepPlaces
<1> HIDE DEF p, k
<1>2. p \in Seq(Nat) /\ \A i, j \in 1..Len(p) : i < j => p[i] < p[j]
  BY <1>1 DEF IsPart, Lists
<1>3. ASSUME NEW i \in DOMAIN k, NEW j \in DOMAIN k, k[i] = k[j] PROVE i = j
  <2>1. i \in 1..Len(p) /\ j \in 1..Len(p) /\ Len(p) \in Nat
    BY <1>1 DEF IsPart
  <2>2. p[i] \in 1..Len(s) /\ p[j] \in 1..Len(s) /\ s[p[i]] = s[p[j]]
    BY <1>1, <1>3, <2>1 DEF IsPart
  <2>3. p[i] = p[j] /\ p[i] \in Nat
    BY <2>2, SeqShape DEF Distinct
  <2>4. ~(i < j) /\ ~(j < i)
    BY <1>2, <2>1, <2>3
  <2> QED BY <2>1, <2>4
<1> QED BY <1>3 DEF Distinct, k

\* Picking twice is picking once what both sets have.
LEMMA SubSub ==
    ASSUME NEW A, NEW s, s \in Seq(A), NEW V, NEW W
    PROVE  Sub(Sub(s, V), W) = Sub(s, V \cap W)
<1> DEFINE I == {i \in DOMAIN s : s[i] \in V}
           p == Places(Len(s), I)
           k == Keep(s, I)
           J == {j \in DOMAIN k : k[j] \in W}
           q == Places(Len(k), J)
           l == Keep(k, J)
           K == {i \in DOMAIN s : s[i] \in V \cap W}
           r == [j \in 1..Len(q) |-> p[q[j]]]
<1>1. IsPart(k, s, p, I) /\ k \in Seq(A)
  BY KeepPlaces
<1>2. DOMAIN s = 1..Len(s) /\ DOMAIN k = 1..Len(k) /\ Len(s) \in Nat
  <2> HIDE DEF k
  <2> QED BY <1>1, SeqShape
<1>3. IsPart(l, k, q, J) /\ l \in Seq(A)
  <2> HIDE DEF k, J
  <2> QED BY <1>1, KeepPlaces
<1> HIDE DEF p, k, q, l
<1>4. /\ p \in Seq(Nat) /\ Len(k) = Len(p) /\ Len(p) \in Nat
      /\ \A j \in 1..Len(p) : p[j] \in I /\ p[j] \in 1..Len(s) /\ k[j] = s[p[j]]
      /\ \A i \in I : \E j \in 1..Len(p) : p[j] = i
      /\ \A i, j \in 1..Len(p) : i < j => p[i] < p[j]
  BY <1>1, <1>2 DEF IsPart, Lists
<1>5. /\ q \in Seq(Nat) /\ Len(l) = Len(q) /\ Len(q) \in Nat
      /\ \A j \in 1..Len(q) : q[j] \in J /\ q[j] \in 1..Len(p) /\ l[j] = k[q[j]]
      /\ \A i \in J : \E j \in 1..Len(q) : q[j] = i
      /\ \A i, j \in 1..Len(q) : i < j => q[i] < q[j]
  BY <1>2, <1>3, <1>4 DEF IsPart, Lists
<1>6. r \in Seq(Nat) /\ Len(r) = Len(q) /\ \A j \in 1..Len(q) : r[j] = p[q[j]]
  BY <1>4, <1>5
<1> HIDE DEF r
<1>7. ASSUME NEW j \in 1..Len(q) PROVE r[j] \in K \cap 1..Len(s) /\ l[j] = s[r[j]]
  <2>1. q[j] \in 1..Len(p) /\ q[j] \in J /\ l[j] = k[q[j]] /\ r[j] = p[q[j]]
    BY <1>5, <1>6
  <2>2. p[q[j]] \in I /\ p[q[j]] \in 1..Len(s) /\ k[q[j]] = s[p[q[j]]]
    BY <1>4, <2>1
  <2> QED BY <1>2, <2>1, <2>2
<1>8. ASSUME NEW i \in K \cap 1..Len(s) PROVE \E j \in 1..Len(q) : r[j] = i
  <2>1. i \in I
    BY <1>8
  <2>2. PICK m \in 1..Len(p) : p[m] = i
    BY <1>4, <2>1
  <2>3. m \in J
    BY <1>2, <1>4, <1>8, <2>2
  <2>4. PICK j \in 1..Len(q) : q[j] = m
    BY <1>5, <2>3
  <2> QED BY <1>6, <2>2, <2>4
<1>9. ASSUME NEW i \in 1..Len(q), NEW j \in 1..Len(q), i < j PROVE r[i] < r[j]
  <2>1. q[i] \in 1..Len(p) /\ q[j] \in 1..Len(p) /\ q[i] < q[j]
    BY <1>5, <1>9
  <2>2. p[q[i]] < p[q[j]]
    BY <1>4, <2>1
  <2> QED BY <1>6, <2>2
<1> HIDE DEF I, J, K
<1>10. Lists(r, K \cap 1..Len(s))
  BY <1>6, <1>7, <1>8, <1>9 DEF Lists
<1>11. Keep(s, K) = l
  <2>1. Picks(l, s, r)
    BY <1>5, <1>6, <1>7 DEF Picks
  <2> QED BY <1>3, <1>10, <2>1, KeepIs
<1>12. Sub(s, V) = k
  BY DEF Sub, k, I
<1>13. Sub(k, W) = l
  BY DEF Sub, l, J
<1>14. Sub(s, V \cap W) = Keep(s, K)
  BY DEF Sub, K
<1> QED BY <1>11, <1>12, <1>13, <1>14

\* f[k] is the concatenation of the first k members of ss.
Flattens(f, ss, A) ==
    /\ f \in [0..Len(ss) -> Seq(A)]
    /\ f[0] = <<>>
    /\ \A k \in 1..Len(ss) : f[k] = f[k - 1] \o ss[k]
    /\ FlattenSeq(ss) = f[Len(ss)]

\* Concatenation with the empty sequence.
LEMMA EmptyConcat ==
    ASSUME NEW A, NEW s, s \in Seq(A)
    PROVE  <<>> \o s = s /\ s \o <<>> = s
  OBVIOUS

\* The recursion of FlattenSeq.
LEMMA FlattenRuns ==
    ASSUME NEW A, NEW ss, ss \in Seq(Seq(A))
    PROVE  \E f : Flattens(f, ss, A)
<1> DEFINE n == Len(ss)
           G == [k \in Nat |-> [q \in Seq(A) |-> IF k \in 1..n THEN q \o ss[k] ELSE q]]
<1>0. n \in Nat /\ \A k \in 1..n : ss[k] \in Seq(A)
  BY SeqShape
<1> HIDE DEF n
<1>1. IsStep(G, Seq(A))
  <2>1. \A k \in Nat, q \in Seq(A) : (IF k \in 1..n THEN q \o ss[k] ELSE q) \in Seq(A)
    BY <1>0
  <2> QED BY <2>1 DEF IsStep
<1>2. \A k \in 1..n, q \in Seq(A) : G[k][q] = q \o ss[k]
  BY <1>0
<1> HIDE DEF G
<1>3. PICK f : Runs(f, n, Seq(A), <<>>, G)
  <2>1. <<>> \in Seq(A)
    OBVIOUS
  <2> QED BY <1>0, <1>1, <2>1, Recursion
<1>4. /\ f[0] = <<>>
      /\ \A k \in 1..n : f[k - 1] \in Seq(A) /\ f[k] \in Seq(A) /\ f[k] = f[k - 1] \o ss[k]
  <2>1. \A k \in 1..n : k - 1 \in 0..n /\ k \in 0..n
    BY <1>0
  <2> QED BY <1>2, <1>3, <2>1 DEF Runs
<1>7. n # 0 => f[1] = <<>> \o ss[1] /\ ss[1] \in Seq(A)
  <2>1. \A j, k \in 0..n : k = j + 1 => f[k] = f[j] \o ss[k]
    <3>1. \A j, k \in 0..n : k = j + 1 => k \in 1..n /\ k - 1 = j
      BY <1>0
    <3> QED BY <1>4, <3>1
  <2>2. n # 0 => 0 \in 0..n /\ 1 \in 0..n /\ 1 = 0 + 1 /\ 1 \in 1..n
    BY <1>0
  <2> QED BY <1>0, <1>4, <2>1, <2>2
<1>5. CASE n = 0
  <2>1. ss = <<>> /\ FlattenSeq(ss) = <<>>
    BY <1>5, SeqShape DEF FlattenSeq, n
  <2> QED BY <1>3, <1>4, <1>5, <2>1 DEF Flattens, Runs, n
<1>6. CASE n # 0
  <2> DEFINE E(h) == h = [i \in 1..n |-> IF i = 1 THEN ss[i] ELSE h[i - 1] \o ss[i]]
             g == [i \in 1..n |-> f[i]]
             h0 == CHOOSE h : E(h)
  <2>1. E(g)
    <3>1. ASSUME NEW i \in 1..n PROVE f[i] = IF i = 1 THEN ss[i] ELSE g[i - 1] \o ss[i]
      <4>1. CASE i = 1
        <5> QED BY <1>6, <1>7, <4>1, EmptyConcat
      <4>2. CASE i # 1
        <5>1. i - 1 \in 1..n
          BY <1>0, <4>2
        <5> QED BY <1>4, <4>2, <5>1
      <4> QED BY <4>1, <4>2
    <3> QED BY <3>1
  <2>2. E(h0)
    <3> HIDE DEF E, g
    <3> QED BY <2>1
  <2>3. FlattenSeq(ss) = h0[n]
    BY <1>6 DEF FlattenSeq, n
  <2> HIDE DEF h0
  <2>4. 1 \in 1..n /\ n \in 1..n
    BY <1>0, <1>6
  <2>5. h0[1] = ss[1] /\ \A i \in 1..n : i # 1 => h0[i] = h0[i - 1] \o ss[i]
    BY <2>2, <2>4
  <2> HIDE DEF E, g
  <2> DEFINE S == {k \in Nat : k + 1 \in 1..n => h0[k + 1] = f[k + 1]}
  <2>6. 0 \in S
    <3>1. h0[1] = f[1] /\ 0 + 1 = 1
      BY <1>6, <1>7, <2>5, EmptyConcat
    <3> QED BY <3>1
  <2>7. ASSUME NEW k \in Nat, k \in S PROVE k + 1 \in S
    <3> SUFFICES ASSUME (k + 1) + 1 \in 1..n PROVE h0[(k + 1) + 1] = f[(k + 1) + 1]
      OBVIOUS
    <3>1. k + 1 \in 1..n /\ ((k + 1) + 1) - 1 = k + 1 /\ (k + 1) + 1 # 1
      BY <1>0
    <3>2. h0[k + 1] = f[k + 1]
      BY <2>7, <3>1
    <3> QED BY <1>4, <2>5, <3>1, <3>2
  <2>8. \A k \in Nat : k \in S
    <3> HIDE DEF S
    <3> QED BY <2>6, <2>7, SetInduction
  <2>9. h0[n] = f[n]
    <3>1. n - 1 \in Nat /\ (n - 1) + 1 = n
      BY <1>0, <1>6
    <3>2. n - 1 \in S
      BY <2>8, <3>1
    <3> QED BY <2>4, <3>1, <3>2
  <2> QED BY <1>3, <1>4, <2>3, <2>9 DEF Flattens, Runs, n
<1> QED BY <1>5, <1>6

\* A flattened sequence has members of the same kind.
LEMMA FlattenType ==
    ASSUME NEW A, NEW ss, ss \in Seq(Seq(A))
    PROVE  FlattenSeq(ss) \in Seq(A)
<1>1. PICK f : Flattens(f, ss, A)
  BY FlattenRuns
<1>2. Len(ss) \in Nat /\ Len(ss) \in 0..Len(ss)
  BY SeqShape
<1> QED BY <1>1, <1>2 DEF Flattens

\* At most one member is not empty: the concatenation is that member.
LEMMA FlattenOne ==
    ASSUME NEW A, NEW ss, ss \in Seq(Seq(A)), NEW m, m \in 1..Len(ss),
           \A k \in 1..Len(ss) : k # m => ss[k] = <<>>
    PROVE  FlattenSeq(ss) = ss[m]
<1>1. PICK f : Flattens(f, ss, A)
  BY FlattenRuns
<1>2. Len(ss) \in Nat /\ \A k \in 1..Len(ss) : ss[k] \in Seq(A)
  BY SeqShape
<1> DEFINE S == {k \in Nat : k <= Len(ss) => f[k] = IF k < m THEN <<>> ELSE ss[m]}
<1>3. 0 \in S
  BY <1>1 DEF Flattens
<1>4. ASSUME NEW k \in Nat, k \in S PROVE k + 1 \in S
  <2> SUFFICES ASSUME k + 1 <= Len(ss)
               PROVE  f[k + 1] = IF k + 1 < m THEN <<>> ELSE ss[m]
    OBVIOUS
  <2>1. k + 1 \in 1..Len(ss) /\ (k + 1) - 1 = k /\ k <= Len(ss)
    BY <1>2
  <2>2. f[k + 1] = f[k] \o ss[k + 1] /\ f[k] = IF k < m THEN <<>> ELSE ss[m]
    BY <1>1, <1>4, <2>1 DEF Flattens
  <2>3. CASE k + 1 = m
    <3>1. k < m /\ ~(k + 1 < m) /\ ss[m] \in Seq(A)
      BY <1>2, <2>3
    <3>2. f[k + 1] = <<>> \o ss[m]
      BY <2>2, <2>3, <3>1
    <3> QED BY <3>1, <3>2, EmptyConcat
  <2>4. CASE k + 1 # m
    <3>1. ss[k + 1] = <<>>
      BY <2>1, <2>4
    <3>2. (k < m) <=> (k + 1 < m)
      BY <1>2, <2>4
    <3>3. ss[m] \in Seq(A) /\ <<>> \in Seq(A)
      BY <1>2
    <3> QED BY <2>2, <3>1, <3>2, <3>3, EmptyConcat
  <2> QED BY <2>3, <2>4
<1>5. \A k \in Nat : k \in S
  <2> HIDE DEF S
  <2> QED BY <1>3, <1>4, SetInduction
<1>6. Len(ss) \in S
  BY <1>2, <1>5
<1>7. f[Len(ss)] = ss[m]
  BY <1>2, <1>6
<1> QED BY <1>1, <1>7 DEF Flattens

\* Nothing but empty sequences flattens to the empty sequence.
LEMMA FlattenNone ==
    ASSUME NEW A, NEW ss, ss \in Seq(Seq(A)), \A k \in 1..Len(ss) : ss[k] = <<>>
    PROVE  FlattenSeq(ss) = <<>>
<1>1. CASE Len(ss) = 0
  BY <1>1 DEF FlattenSeq
<1>2. CASE Len(ss) # 0
  <2>1. 1 \in 1..Len(ss)
    BY <1>2, SeqShape
  <2>2. FlattenSeq(ss) = ss[1]
    BY <2>1, FlattenOne
  <2> QED BY <2>1, <2>2
<1> QED BY <1>1, <1>2

IsMerged(u, p, q, r, d) == u = ((p \o q) \o r) \o d

\* The concatenation of four sequences.
LEMMA FlattenFour ==
    ASSUME NEW A, NEW a, a \in Seq(A), NEW b, b \in Seq(A),
           NEW c, c \in Seq(A), NEW d, d \in Seq(A),
           NEW u, u = FlattenSeq(<<a, b, c, d>>)
    PROVE  IsMerged(u, a, b, c, d)
<1> DEFINE ss == <<a, b, c, d>>
<1>1. ss \in Seq(Seq(A)) /\ Len(ss) = 4
  OBVIOUS
<1>2. ss[1] = a /\ ss[2] = b /\ ss[3] = c /\ ss[4] = d
  OBVIOUS
<1> HIDE DEF ss
<1>3. PICK f : Flattens(f, ss, A)
  BY <1>1, FlattenRuns
<1> DEFINE n == Len(ss)
<1>n. n = 4
  BY <1>1
<1>4. f[0] = <<>> /\ FlattenSeq(ss) = f[n] /\ \A k \in 1..n : f[k] = f[k - 1] \o ss[k]
  BY <1>3 DEF Flattens
<1> HIDE DEF n
<1>7. \A j, k \in 0..n : k = j + 1 => f[k] = f[j] \o ss[k]
  <2>1. \A j, k \in 0..n : k = j + 1 => k \in 1..n /\ k - 1 = j
    BY <1>n
  <2> QED BY <1>4, <2>1
<1>8. 0 \in 0..n /\ 1 \in 0..n /\ 2 \in 0..n /\ 3 \in 0..n /\ 4 \in 0..n
  BY <1>n
<1>9. /\ f[1] = f[0] \o ss[1] /\ f[2] = f[1] \o ss[2]
      /\ f[3] = f[2] \o ss[3] /\ f[4] = f[3] \o ss[4]
  <2>1. f[1] = f[0] \o ss[1]
    <3>1. ASSUME NEW j, NEW k, j = 0, k = 1 PROVE f[k] = f[j] \o ss[k]
      <4>1. j \in 0..n /\ k \in 0..n /\ k = j + 1
        BY <1>8, <3>1
      <4> HIDE <3>1
      <4> QED BY <1>7, <4>1
    <3> QED BY <3>1
  <2>2. f[2] = f[1] \o ss[2]
    <3>1. ASSUME NEW j, NEW k, j = 1, k = 2 PROVE f[k] = f[j] \o ss[k]
      <4>1. j \in 0..n /\ k \in 0..n /\ k = j + 1
        BY <1>8, <3>1
      <4> HIDE <3>1
      <4> QED BY <1>7, <4>1
    <3> QED BY <3>1
  <2>3. f[3] = f[2] \o ss[3]
    <3>1. ASSUME NEW j, NEW k, j = 2, k = 3 PROVE f[k] = f[j] \o ss[k]
      <4>1. j \in 0..n /\ k \in 0..n /\ k = j + 1
        BY <1>8, <3>1
      <4> HIDE <3>1
      <4> QED BY <1>7, <4>1
    <3> QED BY <3>1
  <2>4. f[4] = f[3] \o ss[4]
    <3>1. ASSUME NEW j, NEW k, j = 3, k = 4 PROVE f[k] = f[j] \o ss[k]
      <4>1. j \in 0..n /\ k \in 0..n /\ k = j + 1
        BY <1>8, <3>1
      <4> HIDE <3>1
      <4> QED BY <1>7, <4>1
    <3> QED BY <3>1
  <2> QED BY <2>1, <2>2, <2>3, <2>4
<1>5. f[1] = a
  BY <1>2, <1>4, <1>9, EmptyConcat
<1>6. f[2] = f[1] \o b /\ f[3] = f[2] \o c /\ f[4] = f[3] \o d
  BY <1>2, <1>9
<1>10. FlattenSeq(ss) = ((a \o b) \o c) \o d
  BY <1>n, <1>4, <1>5, <1>6
<1> QED BY <1>10 DEF ss, IsMerged

\* sum[k] is the sum of the first k members of s.
Sums(sum, s) ==
    /\ sum \in [0..Len(s) -> Nat]
    /\ sum[0] = 0
    /\ \A k \in 1..Len(s) : sum[k] = sum[k - 1] + s[k]
    /\ Total(s) = sum[Len(s)]

\* The recursion of Total.
LEMMA TotalRuns ==
    ASSUME NEW s, s \in Seq(Nat)
    PROVE  \E f : Sums(f, s)
<1> DEFINE n == Len(s)
           G == [k \in Nat |-> [q \in Nat |-> IF k \in 1..n THEN q + s[k] ELSE q]]
<1>0. n \in Nat /\ \A k \in 1..n : s[k] \in Nat
  BY SeqShape
<1> HIDE DEF n
<1>1. IsStep(G, Nat)
  <2>1. \A k \in Nat, q \in Nat : (IF k \in 1..n THEN q + s[k] ELSE q) \in Nat
    BY <1>0
  <2> QED BY <2>1 DEF IsStep
<1>2. \A k \in 1..n, q \in Nat : G[k][q] = q + s[k]
  BY <1>0
<1> HIDE DEF G
<1>3. PICK f : Runs(f, n, Nat, 0, G)
  BY <1>0, <1>1, Recursion
<1>4. /\ f[0] = 0
      /\ \A k \in 1..n : f[k - 1] \in Nat /\ f[k] \in Nat /\ f[k] = f[k - 1] + s[k]
  <2>1. \A k \in 1..n : k - 1 \in 0..n /\ k \in 0..n
    BY <1>0
  <2> QED BY <1>2, <1>3, <2>1 DEF Runs
<1> DEFINE E(h) == h = [k \in 0..n |-> IF k = 0 THEN 0 ELSE h[k - 1] + s[k]]
           h0 == CHOOSE h : E(h)
<1>5. E(f)
  <2>1. f = [k \in 0..n |-> f[k]]
    BY <1>3 DEF Runs
  <2>2. \A k \in 0..n : f[k] = IF k = 0 THEN 0 ELSE f[k - 1] + s[k]
    <3>1. \A k \in 0..n : k = 0 \/ k \in 1..n
      BY <1>0
    <3> QED BY <1>4, <3>1
  <2> QED BY <2>1, <2>2
<1>6. E(h0)
  <2> HIDE DEF E
  <2> QED BY <1>5
<1>7. Total(s) = h0[n]
  BY DEF Total, n
<1> HIDE DEF h0
<1>8. h0[0] = 0 /\ \A k \in 1..n : h0[k] = h0[k - 1] + s[k]
  <2>1. 0 \in 0..n /\ \A k \in 1..n : k \in 0..n /\ k # 0
    BY <1>0
  <2> QED BY <1>6, <2>1
<1> HIDE DEF E
<1> DEFINE S == {k \in Nat : k <= n => h0[k] = f[k]}
<1>9. 0 \in S
  BY <1>4, <1>8
<1>10. ASSUME NEW k \in Nat, k \in S PROVE k + 1 \in S
  <2> SUFFICES ASSUME k + 1 <= n PROVE h0[k + 1] = f[k + 1]
    OBVIOUS
  <2>1. k + 1 \in 1..n /\ (k + 1) - 1 = k /\ k <= n
    BY <1>0
  <2>2. h0[k] = f[k]
    BY <1>10, <2>1
  <2> QED BY <1>4, <1>8, <2>1, <2>2
<1>11. \A k \in Nat : k \in S
  <2> HIDE DEF S
  <2> QED BY <1>9, <1>10, SetInduction
<1>12. n \in S
  BY <1>0, <1>11
<1>13. h0[n] = f[n]
  BY <1>0, <1>12
<1> QED BY <1>3, <1>4, <1>7, <1>13 DEF Sums, Runs, n

\* A sum of larger numbers is larger.
LEMMA TotalMonotone ==
    ASSUME NEW s, s \in Seq(Nat), NEW t, t \in Seq(Nat), Len(s) = Len(t),
           \A i \in 1..Len(s) : s[i] <= t[i]
    PROVE  Total(s) \in Nat /\ Total(t) \in Nat /\ Total(s) <= Total(t)
<1> DEFINE n == Len(s)
<1>1. PICK f : Sums(f, s)
  BY TotalRuns
<1>2. PICK g : Sums(g, t)
  BY TotalRuns
<1>3. n \in Nat /\ \A k \in 1..n : s[k] \in Nat /\ t[k] \in Nat /\ s[k] <= t[k]
  BY SeqShape
<1>4. /\ \A k \in 0..n : f[k] \in Nat /\ g[k] \in Nat
      /\ f[0] = 0 /\ g[0] = 0 /\ Total(s) = f[n] /\ Total(t) = g[n]
      /\ \A k \in 1..n : f[k] = f[k - 1] + s[k] /\ g[k] = g[k - 1] + t[k]
  BY <1>1, <1>2 DEF Sums
<1> HIDE DEF n
<1> DEFINE S == {k \in Nat : k <= n => f[k] <= g[k]}
<1>5. 0 \in S
  BY <1>4
<1>6. ASSUME NEW k \in Nat, k \in S PROVE k + 1 \in S
  <2> SUFFICES ASSUME k + 1 <= n PROVE f[k + 1] <= g[k + 1]
    OBVIOUS
  <2>1. k + 1 \in 1..n /\ (k + 1) - 1 = k /\ k <= n /\ k \in 0..n
    BY <1>3
  <2>2. f[k] <= g[k] /\ f[k] \in Nat /\ g[k] \in Nat
    BY <1>4, <1>6, <2>1
  <2>3. f[k + 1] = f[k] + s[k + 1] /\ g[k + 1] = g[k] + t[k + 1]
    BY <1>4, <2>1
  <2> QED BY <1>3, <2>1, <2>2, <2>3
<1>7. \A k \in Nat : k \in S
  <2> HIDE DEF S
  <2> QED BY <1>5, <1>6, SetInduction
<1>8. n \in S /\ n \in 0..n
  <2> HIDE DEF S
  <2> QED BY <1>3, <1>7
<1>9. f[n] <= g[n] /\ f[n] \in Nat /\ g[n] \in Nat
  BY <1>3, <1>4, <1>8
<1> QED BY <1>4, <1>9

-----------------------------------------------------------------------------
(* Ordered header objects.                                                  *)

Spelled(N) == [name: N, lower: BOOLEAN]
Rows(N, V) == [key: Spelled(N), values: Seq(V)]
NamesOf(entries) == [i \in DOMAIN entries |-> entries[i].key.name]
OnePer(entries) == Distinct(NamesOf(entries))

\* The names of the entries, in their order.
LEMMA NamesShape ==
    ASSUME NEW N, NEW V, NEW e, e \in Seq(Rows(N, V))
    PROVE  /\ NamesOf(e) \in Seq(N) /\ Len(NamesOf(e)) = Len(e) /\ Len(e) \in Nat
           /\ DOMAIN NamesOf(e) = 1..Len(e) /\ DOMAIN e = 1..Len(e)
           /\ \A i \in 1..Len(e) : NamesOf(e)[i] = e[i].key.name /\ e[i].key.name \in N
           /\ ToSet(NamesOf(e)) = {e[i].key.name : i \in 1..Len(e)}
<1>1. Len(e) \in Nat /\ DOMAIN e = 1..Len(e) /\ \A i \in 1..Len(e) : e[i] \in Rows(N, V)
  BY SeqShape
<1>2. \A i \in 1..Len(e) : e[i].key.name \in N
  BY <1>1 DEF Rows, Spelled
<1>3. NamesOf(e) = [i \in 1..Len(e) |-> e[i].key.name]
  BY <1>1 DEF NamesOf
<1>4. NamesOf(e) \in Seq(N) /\ Len(NamesOf(e)) = Len(e) /\ DOMAIN NamesOf(e) = 1..Len(e)
  BY <1>1, <1>2, <1>3
<1>5. ToSet(NamesOf(e)) = {e[i].key.name : i \in 1..Len(e)}
  BY <1>3 DEF ToSet
<1> QED BY <1>1, <1>2, <1>3, <1>4, <1>5

\* An entry of an ordered object.
LEMMA RowShape ==
    ASSUME NEW N, NEW V, NEW e, e \in Seq(Rows(N, V)), NEW i \in 1..Len(e)
    PROVE  e[i] \in Rows(N, V) /\ e[i].key \in Spelled(N) /\ e[i].values \in Seq(V)
           /\ e[i].key.name \in N /\ e[i] = Entry(e[i].key, e[i].values)
<1>1. e[i] \in Rows(N, V)
  BY SeqShape
<1> QED BY <1>1 DEF Rows, Spelled, Entry

\* The place of a name, or none.
LEMMA PlaceLemma ==
    ASSUME NEW N, NEW V, NEW e, e \in Seq(Rows(N, V)), OnePer(e), NEW key, key \in Spelled(N),
           NEW i \in 1..Len(e), e[i].key.name = key.name
    PROVE  /\ orderedHeaderKey(e, key) = i
           /\ \A j \in 1..Len(e) : e[j].key.name = key.name => j = i
<1>1. DOMAIN e = 1..Len(e) /\ Len(e) \in Nat
  BY SeqShape
<1>2. \A j \in 1..Len(e) : e[j].key.name = key.name => j = i
  BY NamesShape DEF OnePer, Distinct
<1> DEFINE exact == {j \in DOMAIN e : e[j].key = key}
           folded == {j \in DOMAIN e : e[j].key.name = key.name}
<1>3. folded = {i}
  BY <1>1, <1>2
<1>4. exact = {} \/ exact = {i}
  BY <1>1, <1>2
<1>5. Min({i}) = i
  <2>1. i \in Nat
    BY <1>1
  <2>2. \E x \in {i} : \A y \in {i} : x <= y
    BY <2>1
  <2> QED BY <2>2 DEF Min
<1>6. orderedHeaderKey(e, key) = IF exact # {} THEN Min(exact) ELSE IF folded # {} THEN Min(folded) ELSE 0
  BY DEF orderedHeaderKey
<1> HIDE DEF exact, folded
<1>7. orderedHeaderKey(e, key) = i
  BY <1>3, <1>4, <1>5, <1>6
<1> QED BY <1>2, <1>7

\* A name without an entry has no place.
LEMMA NoPlaceLemma ==
    ASSUME NEW N, NEW V, NEW e, e \in Seq(Rows(N, V)), NEW key,
           \A i \in 1..Len(e) : e[i].key.name # key.name
    PROVE  orderedHeaderKey(e, key) = 0
<1>1. DOMAIN e = 1..Len(e)
  BY SeqShape
<1>2. {j \in DOMAIN e : e[j].key = key} = {} /\ {j \in DOMAIN e : e[j].key.name = key.name} = {}
  BY <1>1
<1> QED BY <1>2 DEF orderedHeaderKey

\* u is e with the values v at place i.
Replaces(u, e, i, v) ==
    /\ Len(u) = Len(e) /\ NamesOf(u) = NamesOf(e)
    /\ u[i].values = v /\ \A j \in 1..Len(e) : j # i => u[j] = e[j]

\* Put at the place of a name that is there.
LEMMA PutKnown ==
    ASSUME NEW N, NEW V, NEW e, e \in Seq(Rows(N, V)), OnePer(e), NEW key, key \in Spelled(N),
           NEW i \in 1..Len(e), e[i].key.name = key.name, NEW v, v \in Seq(V)
    PROVE  /\ Put(e, KnownKey(e, key), v) \in Seq(Rows(N, V))
           /\ Replaces(Put(e, KnownKey(e, key), v), e, i, v)
<1> DEFINE u == Put(e, KnownKey(e, key), v)
           k == KnownKey(e, key)
<1>0. DOMAIN e = 1..Len(e) /\ Len(e) \in Nat
  BY SeqShape
<1>1. orderedHeaderKey(e, key) = i /\ \A j \in 1..Len(e) : e[j].key.name = key.name => j = i
  BY PlaceLemma
<1>2. k = e[i].key
  BY <1>0, <1>1 DEF KnownKey
<1> HIDE DEF k
<1>3. \A j \in 1..Len(e) : e[j].key = k <=> j = i
  BY <1>1, <1>2
<1>4. u = [j \in 1..Len(e) |-> IF e[j].key = k THEN Entry(k, v) ELSE e[j]]
  BY <1>0, <1>3 DEF Put, k
<1> HIDE DEF u
<1>5. u[i] = Entry(k, v) /\ \A j \in 1..Len(e) : j # i => u[j] = e[j]
  BY <1>3, <1>4
<1>6. \A j \in 1..Len(e) : u[j] \in Rows(N, V)
  <2>1. Entry(k, v) \in Rows(N, V)
    BY <1>2, RowShape DEF Rows, Entry
  <2> QED BY <1>5, <2>1, RowShape
<1>7. u \in Seq(Rows(N, V)) /\ Len(u) = Len(e) /\ DOMAIN u = 1..Len(e)
  BY <1>0, <1>4, <1>6
<1>8. u[i].key = k /\ u[i].values = v
  BY <1>5 DEF Entry
<1>9. \A j \in 1..Len(e) : u[j].key.name = e[j].key.name
  BY <1>2, <1>5, <1>8
<1>10. NamesOf(u) = NamesOf(e)
  BY <1>0, <1>7, <1>9 DEF NamesOf
<1>11. Replaces(u, e, i, v)
  BY <1>5, <1>7, <1>8, <1>10 DEF Replaces
<1> QED BY <1>7, <1>11 DEF u

\* Put under a name that is not there adds an entry at the end.
LEMMA PutNew ==
    ASSUME NEW N, NEW V, NEW e, e \in Seq(Rows(N, V)), NEW key, key \in Spelled(N),
           \A i \in 1..Len(e) : e[i].key.name # key.name, NEW v, v \in Seq(V)
    PROVE  /\ KnownKey(e, key) = key
           /\ Put(e, key, v) = Append(e, Entry(key, v))
           /\ Put(e, key, v) \in Seq(Rows(N, V))
           /\ NamesOf(Put(e, key, v)) = Append(NamesOf(e), key.name)
<1>0. DOMAIN e = 1..Len(e) /\ Len(e) \in Nat
  BY SeqShape
<1>1. orderedHeaderKey(e, key) = 0
  BY NoPlaceLemma
<1>2. KnownKey(e, key) = key
  BY <1>1 DEF KnownKey
<1>3. Put(e, key, v) = Append(e, Entry(key, v))
  BY <1>0 DEF Put
<1>4. Entry(key, v) \in Rows(N, V) /\ Entry(key, v).key = key
  BY DEF Rows, Entry
<1> DEFINE r == Entry(key, v)
           u == Append(e, r)
<1> HIDE DEF r
<1>5. u \in Seq(Rows(N, V)) /\ Len(u) = Len(e) + 1
  BY <1>4 DEF r
<1>6. u[Len(e) + 1] = r /\ \A i \in 1..Len(e) : u[i] = e[i]
  BY <1>4 DEF r
<1> HIDE DEF u
<1>7. /\ NamesOf(e) \in Seq(N) /\ Len(NamesOf(e)) = Len(e)
      /\ \A i \in 1..Len(e) : NamesOf(e)[i] = e[i].key.name
  BY NamesShape
<1>8. /\ NamesOf(u) \in Seq(N) /\ Len(NamesOf(u)) = Len(e) + 1
      /\ \A i \in 1..(Len(e) + 1) : NamesOf(u)[i] = u[i].key.name
  BY <1>5, NamesShape
<1>9. key.name \in N
  BY DEF Spelled
<1> DEFINE a == Append(NamesOf(e), key.name)
<1>10. /\ a \in Seq(N) /\ Len(a) = Len(e) + 1 /\ a[Len(e) + 1] = key.name
       /\ \A i \in 1..Len(e) : a[i] = NamesOf(e)[i]
  BY <1>7, <1>9
<1> HIDE DEF a
<1>11. \A i \in 1..(Len(e) + 1) : NamesOf(u)[i] = a[i]
  <2>1. \A i \in 1..(Len(e) + 1) : i \in 1..Len(e) \/ i = Len(e) + 1
    BY <1>0
  <2>2. r.key.name = key.name
    BY <1>4 DEF r
  <2> QED BY <1>6, <1>7, <1>8, <1>10, <2>1, <2>2
<1>12. NamesOf(u) = a
  BY <1>8, <1>10, <1>11, SeqEqual
<1> QED BY <1>2, <1>3, <1>5, <1>12 DEF u, a, r

\* What an object without repeated names holds under a name.
LEMMA ValuesFound ==
    ASSUME NEW N, NEW V, NEW o, o.entries \in Seq(Rows(N, V)), OnePer(o.entries),
           NEW i \in 1..Len(o.entries), NEW n, o.entries[i].key.name = n
    PROVE  ValuesOf(o, n) = o.entries[i].values /\ HasName(o, n)
<1> DEFINE e == o.entries
           ss == [j \in DOMAIN e |-> IF e[j].key.name = n THEN e[j].values ELSE <<>>]
<1>1. DOMAIN e = 1..Len(e) /\ Len(e) \in Nat
  BY SeqShape
<1>2. \A j \in 1..Len(e) : e[j].key.name = n => j = i
  <2>1. e \in Seq(Rows(N, V)) /\ OnePer(e) /\ i \in 1..Len(e) /\ e[i].key.name = n
    OBVIOUS
  <2> HIDE DEF e
  <2> QED BY <2>1, NamesShape DEF OnePer, Distinct
<1>3. \A j \in 1..Len(e) : e[j].values \in Seq(V)
  BY RowShape
<1>4. ss = [j \in 1..Len(e) |-> IF e[j].key.name = n THEN e[j].values ELSE <<>>]
  BY <1>1
<1>5. ValuesOf(o, n) = FlattenSeq(ss)
  BY DEF ValuesOf
<1> HIDE DEF e, ss
<1>6. ss \in Seq(Seq(V)) /\ Len(ss) = Len(e)
  <2>1. <<>> \in Seq(V)
    OBVIOUS
  <2> QED BY <1>1, <1>3, <1>4, <2>1
<1>7. \A j \in 1..Len(ss) : ss[j] = IF e[j].key.name = n THEN e[j].values ELSE <<>>
  BY <1>4, <1>6
<1>8. i \in 1..Len(ss) /\ e[i].key.name = n
  BY <1>6 DEF e
<1>9. \A j \in 1..Len(ss) : j # i => ss[j] = <<>>
  BY <1>2, <1>6, <1>7
<1>10. FlattenSeq(ss) = ss[i]
  BY <1>6, <1>8, <1>9, FlattenOne
<1>11. ss[i] = e[i].values
  BY <1>7, <1>8
<1>12. HasName(o, n)
  BY <1>1, <1>6, <1>8 DEF HasName, e
<1> QED BY <1>5, <1>10, <1>11, <1>12 DEF e

\* A name without an entry has no values.
LEMMA ValuesMissing ==
    ASSUME NEW N, NEW V, NEW o, o.entries \in Seq(Rows(N, V)), NEW n,
           \A i \in 1..Len(o.entries) : o.entries[i].key.name # n
    PROVE  ValuesOf(o, n) = <<>> /\ ~HasName(o, n)
<1> DEFINE e == o.entries
           ss == [j \in DOMAIN e |-> IF e[j].key.name = n THEN e[j].values ELSE <<>>]
<1>1. DOMAIN e = 1..Len(e) /\ Len(e) \in Nat
  BY SeqShape
<1>2. ss = [j \in 1..Len(e) |-> <<>>]
  BY <1>1
<1>3. ss \in Seq(Seq(V)) /\ Len(ss) = Len(e)
  <2>1. <<>> \in Seq(V)
    OBVIOUS
  <2> HIDE DEF ss
  <2> QED BY <1>1, <1>2, <2>1
<1>4. ValuesOf(o, n) = FlattenSeq(ss)
  BY DEF ValuesOf
<1> HIDE DEF ss
<1>5. \A j \in 1..Len(ss) : ss[j] = <<>>
  BY <1>2, <1>3
<1>6. FlattenSeq(ss) = <<>>
  BY <1>3, <1>5, FlattenNone
<1>7. ~HasName(o, n)
  BY <1>1 DEF HasName
<1> QED BY <1>4, <1>6, <1>7

\* The values under a name.
LEMMA ValuesType ==
    ASSUME NEW N, NEW V, NEW o, o.entries \in Seq(Rows(N, V)), NEW n
    PROVE  ValuesOf(o, n) \in Seq(V)
<1> DEFINE e == o.entries
           ss == [j \in DOMAIN e |-> IF e[j].key.name = n THEN e[j].values ELSE <<>>]
<1>1. DOMAIN e = 1..Len(e) /\ Len(e) \in Nat /\ \A j \in 1..Len(e) : e[j].values \in Seq(V)
  BY SeqShape, RowShape
<1>2. <<>> \in Seq(V)
  OBVIOUS
<1>3. ss \in Seq(Seq(V))
  BY <1>1, <1>2
<1>4. ValuesOf(o, n) = FlattenSeq(ss)
  BY DEF ValuesOf
<1> HIDE DEF ss
<1> QED BY <1>3, <1>4, FlattenType

\* An object has the names of its entries.
LEMMA HasNameIs ==
    ASSUME NEW N, NEW V, NEW o, o.entries \in Seq(Rows(N, V)), NEW n
    PROVE  HasName(o, n) <=> n \in ToSet(NamesOf(o.entries))
  BY NamesShape DEF HasName

\* The names after Keep.
LEMMA NamesOfKeep ==
    ASSUME NEW N, NEW V, NEW e, e \in Seq(Rows(N, V)), NEW I
    PROVE  Keep(e, I) \in Seq(Rows(N, V)) /\ NamesOf(Keep(e, I)) = Keep(NamesOf(e), I)
<1> DEFINE k == Keep(e, I)
           m == Keep(NamesOf(e), I)
<1>1. /\ NamesOf(e) \in Seq(N) /\ Len(NamesOf(e)) = Len(e)
      /\ \A i \in 1..Len(e) : NamesOf(e)[i] = e[i].key.name
  BY NamesShape
<1>2. /\ Len(m) = Len(k)
      /\ \A j \in 1..Len(k) : \E i \in I \cap 1..Len(e) : k[j] = e[i] /\ m[j] = NamesOf(e)[i]
  <2> DEFINE ns == NamesOf(e)
  <2>1. ns \in Seq(N) /\ Len(ns) = Len(e)
    BY <1>1
  <2> HIDE DEF ns
  <2>2. /\ Len(Keep(ns, I)) = Len(Keep(e, I))
        /\ \A j \in 1..Len(Keep(e, I)) :
             \E i \in I \cap 1..Len(e) : Keep(e, I)[j] = e[i] /\ Keep(ns, I)[j] = ns[i]
    BY <2>1, KeepMap
  <2> QED BY <2>2 DEF ns
<1>3. k \in Seq(Rows(N, V)) /\ m \in Seq(N)
  BY <1>1, KeepType
<1> HIDE DEF k, m
<1>4. \A j \in 1..Len(k) : m[j] = k[j].key.name
  BY <1>1, <1>2
<1>5. /\ NamesOf(k) \in Seq(N) /\ Len(NamesOf(k)) = Len(k)
      /\ \A j \in 1..Len(k) : NamesOf(k)[j] = k[j].key.name
  BY <1>3, NamesShape
<1>6. NamesOf(k) = m
  BY <1>2, <1>3, <1>4, <1>5, SeqEqual
<1> QED BY <1>3, <1>6 DEF k, m

\* Picking entries by name.
LEMMA NamesOfSub ==
    ASSUME NEW N, NEW V, NEW e, e \in Seq(Rows(N, V)), NEW I, NEW W,
           \A i \in 1..Len(e) : i \in I <=> e[i].key.name \in W
    PROVE  Keep(e, I) \in Seq(Rows(N, V)) /\ NamesOf(Keep(e, I)) = Sub(NamesOf(e), W)
<1> DEFINE ns == NamesOf(e)
           J == {i \in DOMAIN ns : ns[i] \in W}
<1>1. /\ ns \in Seq(N) /\ Len(ns) = Len(e) /\ DOMAIN ns = 1..Len(e)
      /\ \A i \in 1..Len(e) : ns[i] = e[i].key.name
  BY NamesShape
<1>2. Keep(e, I) \in Seq(Rows(N, V)) /\ NamesOf(Keep(e, I)) = Keep(ns, I)
  BY NamesOfKeep
<1> HIDE DEF ns
<1>3. \A i \in 1..Len(ns) : i \in I <=> i \in J
  BY <1>1
<1> HIDE DEF J
<1>4. Keep(ns, I) = Keep(ns, J)
  BY <1>1, <1>3, KeepSame
<1> QED BY <1>2, <1>4 DEF Sub, J, ns

\* The key a change goes to is that of the name.
LEMMA KnownIs ==
    ASSUME NEW N, NEW V, NEW e, e \in Seq(Rows(N, V)), OnePer(e), NEW key, key \in Spelled(N)
    PROVE  \A i \in 1..Len(e) : e[i].key = KnownKey(e, key) <=> e[i].key.name = key.name
<1> DEFINE k == KnownKey(e, key)
<1>1. DOMAIN e = 1..Len(e)
  BY SeqShape
<1>2. ASSUME NEW i \in 1..Len(e), e[i].key.name = key.name
      PROVE  \A j \in 1..Len(e) : e[j].key = k <=> e[j].key.name = key.name
  <2>1. orderedHeaderKey(e, key) = i /\ \A j \in 1..Len(e) : e[j].key.name = key.name => j = i
    BY <1>2, PlaceLemma
  <2>2. k = e[i].key
    BY <1>1, <2>1 DEF KnownKey
  <2> HIDE DEF k
  <2> QED BY <1>2, <2>1, <2>2
<1>3. ASSUME \A i \in 1..Len(e) : e[i].key.name # key.name
      PROVE  \A j \in 1..Len(e) : e[j].key = k <=> e[j].key.name = key.name
  <2>1. orderedHeaderKey(e, key) = 0
    BY <1>3, NoPlaceLemma
  <2>2. k = key
    BY <2>1 DEF KnownKey
  <2> HIDE DEF k
  <2> QED BY <1>3, <2>2
<1> HIDE DEF k
<1>4. \A j \in 1..Len(e) : e[j].key = k <=> e[j].key.name = key.name
  BY <1>2, <1>3
<1> QED BY <1>4 DEF k

\* The places of the entries with other names.
NotNamed(e, n) == {i \in 1..Len(e) : e[i].key.name # n}

\* A deletion keeps the entries of the other names.
LEMMA DeleteKeeps ==
    ASSUME NEW N, NEW V, NEW e, e \in Seq(Rows(N, V)), OnePer(e), NEW key, key \in Spelled(N)
    PROVE  deleteOrderedHeader(e, key) = Keep(e, NotNamed(e, key.name))
<1> DEFINE k == KnownKey(e, key)
           I == {i \in DOMAIN e : e[i].key # k}
           J == NotNamed(e, key.name)
<1>1. DOMAIN e = 1..Len(e)
  BY SeqShape
<1>2. \A i \in 1..Len(e) : e[i].key = k <=> e[i].key.name = key.name
  BY KnownIs
<1>3. deleteOrderedHeader(e, key) = Keep(e, I)
  BY DEF deleteOrderedHeader, Drop
<1> HIDE DEF k
<1>4. \A i \in 1..Len(e) : i \in I <=> i \in J
  BY <1>1, <1>2 DEF NotNamed
<1> HIDE DEF I, J
<1>6. Keep(e, I) = Keep(e, J)
  BY <1>4, KeepSame
<1> QED BY <1>3, <1>6 DEF J

\* A deletion takes one name away and keeps the order of the others.
LEMMA DeleteIs ==
    ASSUME NEW N, NEW V, NEW e, e \in Seq(Rows(N, V)), OnePer(e), NEW key, key \in Spelled(N)
    PROVE  /\ deleteOrderedHeader(e, key) = Keep(e, NotNamed(e, key.name))
           /\ deleteOrderedHeader(e, key) \in Seq(Rows(N, V))
           /\ NamesOf(deleteOrderedHeader(e, key)) = Sub(NamesOf(e), N \ {key.name})
<1> DEFINE k == KnownKey(e, key)
           I == {i \in DOMAIN e : e[i].key # k}
           J == NotNamed(e, key.name)
<1>1. DOMAIN e = 1..Len(e)
  BY SeqShape
<1>2. \A i \in 1..Len(e) : e[i].key = k <=> e[i].key.name = key.name
  BY KnownIs
<1>3. deleteOrderedHeader(e, key) = Keep(e, I)
  BY DEF deleteOrderedHeader, Drop
<1> HIDE DEF k
<1>4. \A i \in 1..Len(e) : i \in I <=> i \in J
  BY <1>1, <1>2 DEF NotNamed
<1>5. \A i \in 1..Len(e) : i \in I <=> e[i].key.name \in N \ {key.name}
  BY <1>1, <1>2, RowShape
<1> HIDE DEF I, J
<1>6. Keep(e, I) = Keep(e, J)
  BY <1>4, KeepSame
<1>7. Keep(e, I) \in Seq(Rows(N, V)) /\ NamesOf(Keep(e, I)) = Sub(NamesOf(e), N \ {key.name})
  BY <1>5, NamesOfSub
<1> QED BY <1>3, <1>6, <1>7 DEF J

\* The names in W are those of none of the keys.
Spares(W, N, keys) == \A n \in N : n \in W <=> \A key \in keys : n # key.name

\* Deletions of several names, together.
LEMMA DeleteManyIs ==
    ASSUME NEW N, NEW V, NEW e, e \in Seq(Rows(N, V)), OnePer(e),
           NEW keys, keys \subseteq Spelled(N), NEW W, Spares(W, N, keys)
    PROVE  /\ deleteOrderedHeaders(e, keys) \in Seq(Rows(N, V))
           /\ NamesOf(deleteOrderedHeaders(e, keys)) = Sub(NamesOf(e), W)
<1> DEFINE I == {i \in DOMAIN e : \A key \in keys : e[i].key # KnownKey(e, key)}
<1>1. DOMAIN e = 1..Len(e)
  BY SeqShape
<1>2. ASSUME NEW i \in 1..Len(e), NEW key \in keys
      PROVE  e[i].key = KnownKey(e, key) <=> e[i].key.name = key.name
  <2>1. key \in Spelled(N)
    OBVIOUS
  <2> QED BY <2>1, KnownIs
<1>3. \A i \in 1..Len(e) : i \in I <=> e[i].key.name \in W
  <2> TAKE i \in 1..Len(e)
  <2>1. e[i].key.name \in N
    BY RowShape
  <2>2. e[i].key.name \in W <=> \A key \in keys : e[i].key.name # key.name
    BY <2>1 DEF Spares
  <2>3. i \in I <=> \A key \in keys : e[i].key # KnownKey(e, key)
    BY <1>1
  <2> QED BY <1>2, <2>2, <2>3
<1>4. deleteOrderedHeaders(e, keys) = Keep(e, I)
  BY DEF deleteOrderedHeaders
<1> HIDE DEF I
<1>5. Keep(e, I) \in Seq(Rows(N, V)) /\ NamesOf(Keep(e, I)) = Sub(NamesOf(e), W)
  BY <1>3, NamesOfSub
<1> QED BY <1>4, <1>5

\* A new member does not make a repetition.
LEMMA DistinctAppend ==
    ASSUME NEW A, NEW s, s \in Seq(A), Distinct(s), NEW x, x \in A, x \notin ToSet(s)
    PROVE  Distinct(Append(s, x)) /\ ToSet(Append(s, x)) = ToSet(s) \cup {x}
<1> DEFINE u == Append(s, x)
<1>1. Len(s) \in Nat /\ DOMAIN s = 1..Len(s)
  BY SeqShape
<1>2. /\ DOMAIN u = 1..(Len(s) + 1) /\ u[Len(s) + 1] = x
      /\ \A i \in 1..Len(s) : u[i] = s[i]
  OBVIOUS
<1> HIDE DEF u
<1>3. \A i \in 1..(Len(s) + 1) : i \in 1..Len(s) \/ i = Len(s) + 1
  BY <1>1
<1>4. \A i \in 1..Len(s) : s[i] # x
  BY <1>1 DEF ToSet
<1>5. Distinct(u)
  BY <1>1, <1>2, <1>3, <1>4 DEF Distinct
<1>6. ToSet(u) = ToSet(s) \cup {x}
  <2>1. \A i \in 1..Len(s) : i \in 1..(Len(s) + 1)
    BY <1>1
  <2>2. Len(s) + 1 \in 1..(Len(s) + 1)
    BY <1>1
  <2> QED BY <1>1, <1>2, <1>3, <2>1, <2>2 DEF ToSet
<1> QED BY <1>5, <1>6 DEF u

\* A change under a name leaves one entry for each name.
LEMMA PutOnePer ==
    ASSUME NEW N, NEW V, NEW e, e \in Seq(Rows(N, V)), OnePer(e), NEW key, key \in Spelled(N),
           NEW v, v \in Seq(V)
    PROVE  /\ Put(e, KnownKey(e, key), v) \in Seq(Rows(N, V))
           /\ OnePer(Put(e, KnownKey(e, key), v))
           /\ ToSet(NamesOf(Put(e, KnownKey(e, key), v))) = ToSet(NamesOf(e)) \cup {key.name}
<1> DEFINE u == Put(e, KnownKey(e, key), v)
<1>0. /\ NamesOf(e) \in Seq(N) /\ ToSet(NamesOf(e)) = {e[i].key.name : i \in 1..Len(e)}
      /\ key.name \in N
  BY NamesShape DEF Spelled
<1>1. ASSUME NEW i \in 1..Len(e), e[i].key.name = key.name
      PROVE  u \in Seq(Rows(N, V)) /\ NamesOf(u) = NamesOf(e)
  BY <1>1, PutKnown DEF Replaces
<1>2. ASSUME \A i \in 1..Len(e) : e[i].key.name # key.name
      PROVE  u \in Seq(Rows(N, V)) /\ NamesOf(u) = Append(NamesOf(e), key.name)
  BY <1>2, PutNew
<1> HIDE DEF u
<1>3. CASE \E i \in 1..Len(e) : e[i].key.name = key.name
  <2>1. u \in Seq(Rows(N, V)) /\ NamesOf(u) = NamesOf(e) /\ key.name \in ToSet(NamesOf(e))
    BY <1>0, <1>1, <1>3
  <2> QED BY <2>1 DEF OnePer, u
<1>4. CASE \A i \in 1..Len(e) : e[i].key.name # key.name
  <2>1. key.name \notin ToSet(NamesOf(e))
    BY <1>0, <1>4
  <2>2. u \in Seq(Rows(N, V)) /\ NamesOf(u) = Append(NamesOf(e), key.name)
    BY <1>2, <1>4
  <2> DEFINE ns == NamesOf(e)
  <2>3. Distinct(ns) /\ ns \in Seq(N) /\ key.name \notin ToSet(ns)
    BY <1>0, <2>1 DEF OnePer
  <2> HIDE DEF ns
  <2>4. /\ Distinct(Append(ns, key.name))
        /\ ToSet(Append(ns, key.name)) = ToSet(ns) \cup {key.name}
    BY <1>0, <2>3, DistinctAppend
  <2> QED BY <2>2, <2>4 DEF OnePer, u, ns
<1> QED BY <1>3, <1>4

\* The values at the place of a key.
LEMMA ValuesAtType ==
    ASSUME NEW N, NEW V, NEW e, e \in Seq(Rows(N, V)), OnePer(e), NEW key, key \in Spelled(N)
    PROVE  ValuesAt(e, key) \in Seq(V)
<1>1. ASSUME NEW i \in 1..Len(e), e[i].key.name = key.name PROVE ValuesAt(e, key) \in Seq(V)
  <2>1. orderedHeaderKey(e, key) = i /\ i # 0
    BY <1>1, PlaceLemma, SeqShape
  <2>2. e[i].values \in Seq(V)
    BY RowShape
  <2> QED BY <2>1, <2>2 DEF ValuesAt
<1>2. ASSUME \A i \in 1..Len(e) : e[i].key.name # key.name PROVE ValuesAt(e, key) \in Seq(V)
  <2>1. orderedHeaderKey(e, key) = 0
    BY <1>2, NoPlaceLemma
  <2>2. <<>> \in Seq(V)
    OBVIOUS
  <2> QED BY <2>1, <2>2 DEF ValuesAt
<1> QED BY <1>1, <1>2

-----------------------------------------------------------------------------
(* Copies and merges of ordered objects.                                    *)

\* The entries of one object, each name once.
Single(N, V) == {e \in Seq(Rows(N, V)) : OnePer(e)}

\* The object without entries.
LEMMA EmptySingle ==
    ASSUME NEW N, NEW V
    PROVE  <<>> \in Single(N, V) /\ NamesOf(<<>>) = <<>>
<1>1. <<>> \in Seq(Rows(N, V))
  OBVIOUS
<1>2. NamesOf(<<>>) = <<>>
  BY DEF NamesOf
<1>3. Distinct(<<>>)
  BY DEF Distinct
<1> QED BY <1>1, <1>2, <1>3 DEF Single, OnePer

\* Adding values under a name leaves one entry for each name.
LEMMA AddSingle ==
    ASSUME NEW N, NEW V, NEW e, e \in Single(N, V), NEW key, key \in Spelled(N),
           NEW v, v \in Seq(V)
    PROVE  addOrderedHeaderValues(e, key, v) \in Single(N, V)
<1>1. e \in Seq(Rows(N, V)) /\ OnePer(e)
  BY DEF Single
<1>2. ValuesAt(e, key) \in Seq(V)
  BY <1>1, ValuesAtType
<1>3. ValuesAt(e, key) \o v \in Seq(V)
  BY <1>2
<1> QED BY <1>1, <1>3, PutOnePer DEF Single, addOrderedHeaderValues

\* clone[k] is the object made of the first k entries.
Clones(clone, e, N, V) ==
    /\ clone \in [0..Len(e) -> Single(N, V)]
    /\ clone[0] = <<>>
    /\ \A k \in 1..Len(e) : clone[k] = addOrderedHeaderValues(clone[k - 1], e[k].key, e[k].values)
    /\ cloneEntries(e) = clone[Len(e)]

\* The recursion of cloneEntries.
LEMMA CloneRuns ==
    ASSUME NEW N, NEW V, NEW e, e \in Seq(Rows(N, V))
    PROVE  \E f : Clones(f, e, N, V)
<1> DEFINE n == Len(e)
           A == Single(N, V)
           G == [k \in Nat |-> [q \in A |->
                    IF k \in 1..n THEN addOrderedHeaderValues(q, e[k].key, e[k].values) ELSE q]]
<1>0. n \in Nat /\ \A k \in 1..n : e[k].key \in Spelled(N) /\ e[k].values \in Seq(V)
  BY SeqShape, RowShape
<1> HIDE DEF n
<1>1. \A k \in 1..n, q \in A : addOrderedHeaderValues(q, e[k].key, e[k].values) \in A
  BY <1>0, AddSingle
<1>2. <<>> \in A
  BY EmptySingle
<1> HIDE DEF A
<1>3. IsStep(G, A)
  BY <1>1 DEF IsStep
<1>4. \A k \in 1..n, q \in A : G[k][q] = addOrderedHeaderValues(q, e[k].key, e[k].values)
  BY <1>0
<1> HIDE DEF G
<1>5. PICK f : Runs(f, n, A, <<>>, G)
  BY <1>0, <1>2, <1>3, Recursion
<1>6. /\ f[0] = <<>>
      /\ \A k \in 1..n : f[k - 1] \in A /\ f[k] = addOrderedHeaderValues(f[k - 1], e[k].key, e[k].values)
  <2>1. \A k \in 1..n : k - 1 \in 0..n /\ k \in 0..n
    BY <1>0
  <2> QED BY <1>4, <1>5, <2>1 DEF Runs
<1> DEFINE D(h) == h = [k \in 0..n |-> IF k = 0 THEN <<>>
                            ELSE addOrderedHeaderValues(h[k - 1], e[k].key, e[k].values)]
           h0 == CHOOSE h : D(h)
<1>7. D(f)
  <2>1. f = [k \in 0..n |-> f[k]]
    BY <1>5 DEF Runs
  <2>2. \A k \in 0..n : f[k] = IF k = 0 THEN <<>>
                               ELSE addOrderedHeaderValues(f[k - 1], e[k].key, e[k].values)
    <3>1. \A k \in 0..n : k = 0 \/ k \in 1..n
      BY <1>0
    <3> QED BY <1>6, <3>1
  <2> QED BY <2>1, <2>2
<1>8. D(h0)
  <2> HIDE DEF D
  <2> QED BY <1>7
<1>9. cloneEntries(e) = h0[n]
  BY DEF cloneEntries, n
<1> HIDE DEF h0
<1>10. h0[0] = <<>> /\ \A k \in 1..n : h0[k] = addOrderedHeaderValues(h0[k - 1], e[k].key, e[k].values)
  <2>1. 0 \in 0..n /\ \A k \in 1..n : k \in 0..n /\ k # 0
    BY <1>0
  <2> QED BY <1>8, <2>1
<1> HIDE DEF D
<1> DEFINE S == {k \in Nat : k <= n => h0[k] = f[k]}
<1>11. 0 \in S
  BY <1>6, <1>10
<1>12. ASSUME NEW k \in Nat, k \in S PROVE k + 1 \in S
  <2> SUFFICES ASSUME k + 1 <= n PROVE h0[k + 1] = f[k + 1]
    OBVIOUS
  <2>1. k + 1 \in 1..n /\ (k + 1) - 1 = k /\ k <= n
    BY <1>0
  <2>2. h0[k] = f[k]
    BY <1>12, <2>1
  <2> QED BY <1>6, <1>10, <2>1, <2>2
<1>13. \A k \in Nat : k \in S
  <2> HIDE DEF S
  <2> QED BY <1>11, <1>12, SetInduction
<1>14. n \in S
  BY <1>0, <1>13
<1>15. h0[n] = f[n]
  BY <1>0, <1>14
<1> QED BY <1>5, <1>6, <1>9, <1>15 DEF Clones, Runs, n, A

\* A copy has one entry for each name, whatever was copied.
LEMMA CloneSingle ==
    ASSUME NEW N, NEW V, NEW e, e \in Seq(Rows(N, V))
    PROVE  cloneEntries(e) \in Single(N, V)
<1>1. PICK f : Clones(f, e, N, V)
  BY CloneRuns
<1>2. Len(e) \in 0..Len(e)
  BY SeqShape
<1> QED BY <1>1, <1>2 DEF Clones

\* Copying an object that has each name once changes nothing.
LEMMA CloneSame ==
    ASSUME NEW N, NEW V, NEW e, e \in Single(N, V)
    PROVE  cloneEntries(e) = e
<1>0. e \in Seq(Rows(N, V)) /\ OnePer(e)
  BY DEF Single
<1>1. PICK f : Clones(f, e, N, V)
  BY <1>0, CloneRuns
<1>2. Len(e) \in Nat /\ DOMAIN e = 1..Len(e)
  BY <1>0, SeqShape
<1> DEFINE S == {k \in Nat : k <= Len(e) =>
                    Len(f[k]) = k /\ \A i \in 1..k : f[k][i] = e[i]}
<1>3. 0 \in S
  BY <1>1 DEF Clones
<1>4. ASSUME NEW k \in Nat, k \in S PROVE k + 1 \in S
  <2> SUFFICES ASSUME k + 1 <= Len(e)
               PROVE  Len(f[k + 1]) = k + 1 /\ \A i \in 1..(k + 1) : f[k + 1][i] = e[i]
    OBVIOUS
  <2> DEFINE c == f[k]
             key == e[k + 1].key
             v == e[k + 1].values
  <2>1. k + 1 \in 1..Len(e) /\ (k + 1) - 1 = k /\ k <= Len(e) /\ k \in 0..Len(e)
    BY <1>2
  <2>2. f[k + 1] = addOrderedHeaderValues(c, key, v) /\ c \in Single(N, V)
    BY <1>1, <2>1 DEF Clones
  <2>3. Len(c) = k /\ \A i \in 1..k : c[i] = e[i]
    BY <1>4, <2>1
  <2>4. key \in Spelled(N) /\ v \in Seq(V) /\ e[k + 1] = Entry(key, v)
    BY <1>0, <2>1, RowShape
  <2>5. c \in Seq(Rows(N, V)) /\ OnePer(c)
    BY <2>2 DEF Single
  <2>6. \A i \in 1..Len(c) : c[i].key.name # key.name
    <3>1. \A i \in 1..k : i \in 1..Len(e) /\ i # k + 1
      BY <1>2, <2>1
    <3>2. \A i, j \in 1..Len(e) : e[i].key.name = e[j].key.name => i = j
      BY <1>0, NamesShape DEF OnePer, Distinct
    <3> QED BY <2>1, <2>3, <3>1, <3>2
  <2> HIDE DEF c, key, v
  <2>7. ValuesAt(c, key) = <<>>
    BY <2>5, <2>6, NoPlaceLemma DEF ValuesAt
  <2>8. f[k + 1] = Append(c, Entry(key, v))
    <3>1. <<>> \o v = v
      BY <2>4, EmptyConcat
    <3>2. f[k + 1] = Put(c, KnownKey(c, key), v)
      BY <2>2, <2>7, <3>1 DEF addOrderedHeaderValues
    <3> QED BY <2>4, <2>5, <2>6, <3>2, PutNew
  <2>9. Len(f[k + 1]) = k + 1 /\ f[k + 1][k + 1] = Entry(key, v)
        /\ \A i \in 1..k : f[k + 1][i] = c[i]
    BY <2>3, <2>5, <2>8
  <2>10. \A i \in 1..(k + 1) : i \in 1..k \/ i = k + 1
    OBVIOUS
  <2> QED BY <2>3, <2>4, <2>9, <2>10
<1>5. \A k \in Nat : k \in S
  <2> HIDE DEF S
  <2> QED BY <1>3, <1>4, SetInduction
<1>6. Len(e) \in S
  BY <1>2, <1>5
<1>7. cloneEntries(e) = f[Len(e)] /\ f[Len(e)] \in Seq(Rows(N, V))
  <2>1. Len(e) \in 0..Len(e)
    BY <1>2
  <2> QED BY <1>1, <2>1 DEF Clones, Single
<1>8. Len(f[Len(e)]) = Len(e) /\ \A i \in 1..Len(e) : f[Len(e)][i] = e[i]
  BY <1>2, <1>6
<1> QED BY <1>0, <1>7, <1>8, SeqEqual

Others(N, x) == N \ {x}

\* A deletion leaves one entry for each other name.
LEMMA DeleteSingle ==
    ASSUME NEW N, NEW V, NEW e, e \in Single(N, V), NEW key, key \in Spelled(N)
    PROVE  /\ deleteOrderedHeader(e, key) \in Single(N, V)
           /\ NamesOf(deleteOrderedHeader(e, key)) = Sub(NamesOf(e), Others(N, key.name))
           /\ key.name \notin ToSet(NamesOf(deleteOrderedHeader(e, key)))
<1> USE DEF Others
<1> DEFINE d == deleteOrderedHeader(e, key)
           ns == NamesOf(e)
<1>1. e \in Seq(Rows(N, V)) /\ OnePer(e)
  BY DEF Single
<1>2. d \in Seq(Rows(N, V)) /\ NamesOf(d) = Sub(ns, N \ {key.name})
  BY <1>1, DeleteIs
<1>3. ns \in Seq(N) /\ Distinct(ns) /\ ToSet(ns) \subseteq N
  BY <1>1, NamesShape DEF OnePer
<1> HIDE DEF d, ns
<1>4. Distinct(Sub(ns, N \ {key.name}))
  BY <1>3, KeepDistinct DEF Sub
<1>5. ToSet(Sub(ns, N \ {key.name})) = ToSet(ns) \cap (N \ {key.name})
  BY <1>3, SubMembers
<1> QED BY <1>2, <1>3, <1>4, <1>5 DEF Single, OnePer, d, ns

\* Replacing the entry of a name by one at the end.
LEMMA MoveSingle ==
    ASSUME NEW N, NEW V, NEW e, e \in Single(N, V), NEW key, key \in Spelled(N),
           NEW v, v \in Seq(V)
    PROVE  /\ Put(deleteOrderedHeader(e, key), key, v) \in Single(N, V)
           /\ NamesOf(Put(deleteOrderedHeader(e, key), key, v))
                = Append(Sub(NamesOf(e), Others(N, key.name)), key.name)
<1> DEFINE d == deleteOrderedHeader(e, key)
           u == Put(d, key, v)
<1>1. /\ d \in Single(N, V) /\ NamesOf(d) = Sub(NamesOf(e), Others(N, key.name))
      /\ key.name \notin ToSet(NamesOf(d))
  BY DeleteSingle
<1> HIDE DEF d
<1>2. d \in Seq(Rows(N, V)) /\ OnePer(d)
  BY <1>1 DEF Single
<1>3. \A i \in 1..Len(d) : d[i].key.name # key.name
  BY <1>1, <1>2, NamesShape
<1>4. u \in Seq(Rows(N, V)) /\ KnownKey(d, key) = key /\ NamesOf(u) = Append(NamesOf(d), key.name)
  BY <1>2, <1>3, PutNew
<1>5. OnePer(u)
  <2>1. OnePer(Put(d, KnownKey(d, key), v))
    BY <1>2, PutOnePer
  <2> QED BY <1>4, <2>1
<1> HIDE DEF u
<1> QED BY <1>1, <1>4, <1>5 DEF Single, u, d

Merges(f, e, o, N, V) ==
    /\ f \in [0..Len(o) -> Single(N, V)]
    /\ f[0] = e
    /\ \A k \in 1..Len(o) : f[k] = Put(deleteOrderedHeader(f[k - 1], o[k].key), o[k].key, o[k].values)
    /\ overrideEntries(e, o) = f[Len(o)]

\* The recursion of overrideEntries.
LEMMA MergeRuns ==
    ASSUME NEW N, NEW V, NEW e, e \in Single(N, V), NEW o, o \in Seq(Rows(N, V))
    PROVE  \E f : Merges(f, e, o, N, V)
<1> DEFINE n == Len(o)
           A == Single(N, V)
           R(q, k) == Put(deleteOrderedHeader(q, o[k].key), o[k].key, o[k].values)
           G == [k \in Nat |-> [q \in A |-> IF k \in 1..n THEN R(q, k) ELSE q]]
<1>0. n \in Nat /\ \A k \in 1..n : o[k].key \in Spelled(N) /\ o[k].values \in Seq(V)
  BY SeqShape, RowShape
<1> HIDE DEF n
<1>1. \A k \in 1..n, q \in A : R(q, k) \in A
  BY <1>0, MoveSingle
<1> HIDE DEF R
<1>2. e \in A
  OBVIOUS
<1> HIDE DEF A
<1>3. IsStep(G, A)
  BY <1>1 DEF IsStep
<1>4. \A k \in 1..n, q \in A : G[k][q] = R(q, k)
  BY <1>0
<1> HIDE DEF G
<1>5. PICK f : Runs(f, n, A, e, G)
  BY <1>0, <1>2, <1>3, Recursion
<1>6. f[0] = e /\ \A k \in 1..n : f[k - 1] \in A /\ f[k] = R(f[k - 1], k)
  <2>1. \A k \in 1..n : k - 1 \in 0..n /\ k \in 0..n
    BY <1>0
  <2> QED BY <1>4, <1>5, <2>1 DEF Runs
<1> DEFINE D(h) == h = [k \in 0..n |-> IF k = 0 THEN e ELSE R(h[k - 1], k)]
           h0 == CHOOSE h : D(h)
<1>7. D(f)
  <2>1. f = [k \in 0..n |-> f[k]]
    BY <1>5 DEF Runs
  <2>2. \A k \in 0..n : f[k] = IF k = 0 THEN e ELSE R(f[k - 1], k)
    <3>1. \A k \in 0..n : k = 0 \/ k \in 1..n
      BY <1>0
    <3> QED BY <1>6, <3>1
  <2> QED BY <2>1, <2>2
<1>8. D(h0)
  <2> HIDE DEF D
  <2> QED BY <1>7
<1>9. overrideEntries(e, o) = h0[n]
  BY DEF overrideEntries, n, R
<1> HIDE DEF h0
<1>10. h0[0] = e /\ \A k \in 1..n : h0[k] = R(h0[k - 1], k)
  <2>1. 0 \in 0..n /\ \A k \in 1..n : k \in 0..n /\ k # 0
    BY <1>0
  <2> QED BY <1>8, <2>1
<1> HIDE DEF D
<1> DEFINE S == {k \in Nat : k <= n => h0[k] = f[k]}
<1>11. 0 \in S
  BY <1>6, <1>10
<1>12. ASSUME NEW k \in Nat, k \in S PROVE k + 1 \in S
  <2> SUFFICES ASSUME k + 1 <= n PROVE h0[k + 1] = f[k + 1]
    OBVIOUS
  <2>1. k + 1 \in 1..n /\ (k + 1) - 1 = k /\ k <= n
    BY <1>0
  <2>2. h0[k] = f[k]
    BY <1>12, <2>1
  <2> QED BY <1>6, <1>10, <2>1, <2>2
<1>13. \A k \in Nat : k \in S
  <2> HIDE DEF S
  <2> QED BY <1>11, <1>12, SetInduction
<1>14. n \in S
  BY <1>0, <1>13
<1>15. h0[n] = f[n]
  BY <1>0, <1>14
<1> QED BY <1>5, <1>6, <1>9, <1>15 DEF Merges, Runs, n, A, R

Joined(t, a, s) == t = a \o s
Extended(t, s, x) == t = Append(s, x)

\* Append at the end of a concatenation.
LEMMA ConcatAppend ==
    ASSUME NEW A, NEW a, a \in Seq(A), NEW s, s \in Seq(A), NEW x, x \in A,
           NEW t, Joined(t, a, s), NEW y, Extended(y, s, x), NEW u, Extended(u, t, x)
    PROVE  Joined(u, a, y)
<1>1. t = a \o s /\ y = Append(s, x) /\ u = Append(t, x)
  BY DEF Joined, Extended
<1>2. Append(a \o s, x) = a \o Append(s, x)
  OBVIOUS
<1> QED BY <1>1, <1>2 DEF Joined

\* The names of a merged object.
MergeNames(b, o, N) == Sub(b, N \ ToSet(o)) \o o

\* The names of the base that override does not have, and then those of
\* override.
LEMMA MergedNames ==
    ASSUME NEW N, NEW V, NEW e, e \in Single(N, V), NEW o, o \in Single(N, V)
    PROVE  /\ overrideEntries(e, o) \in Single(N, V)
           /\ NamesOf(overrideEntries(e, o))
                = MergeNames(NamesOf(e), NamesOf(o), N)
<1>0. e \in Seq(Rows(N, V)) /\ o \in Seq(Rows(N, V)) /\ OnePer(o)
  BY DEF Single
<1>1. PICK f : Merges(f, e, o, N, V)
  BY <1>0, MergeRuns
<1> DEFINE ne == NamesOf(e)
           no == NamesOf(o)
           P(k) == [i \in 1..k |-> no[i]]
           T(k) == {no[i] : i \in 1..k}
<1>2. ne \in Seq(N) /\ ToSet(ne) \subseteq N
  BY <1>0, NamesShape
<1>3. /\ no \in Seq(N) /\ Len(no) = Len(o) /\ Len(o) \in Nat /\ Distinct(no)
      /\ DOMAIN no = 1..Len(o) /\ \A i \in 1..Len(o) : no[i] = o[i].key.name /\ no[i] \in N
  BY <1>0, NamesShape DEF OnePer
<1> HIDE DEF ne, no
<1>4. \A k \in Nat : k <= Len(o) => P(k) \in Seq(N) /\ Len(P(k)) = k /\ ToSet(P(k)) = T(k)
  BY <1>3 DEF ToSet
<1> HIDE DEF P, T
<1> DEFINE Q(k) == NamesOf(f[k]) = Sub(ne, N \ T(k)) \o P(k)
           S == {k \in Nat : k <= Len(o) => Q(k)}
<1>5. 0 \in S
  <2>1. T(0) = {} /\ P(0) = <<>>
    BY DEF T, P
  <2>2. Sub(ne, N) = ne
    BY <1>2, SubAll
  <2>3. NamesOf(f[0]) = ne
    BY <1>1 DEF Merges, ne
  <2>4. ne \o <<>> = ne /\ N \ {} = N
    BY <1>2, EmptyConcat
  <2> QED BY <2>1, <2>2, <2>3, <2>4
<1>6. ASSUME NEW k \in Nat, k \in S PROVE k + 1 \in S
  <2> SUFFICES ASSUME k + 1 <= Len(o) PROVE Q(k + 1)
    <3> HIDE DEF Q
    <3> QED OBVIOUS
  <2> DEFINE c == f[k]
             key == o[k + 1].key
             x == no[k + 1]
             v == o[k + 1].values
             a == Sub(ne, N \ T(k))
             b == Sub(ne, N \ T(k + 1))
             p == P(k)
             W == Others(N, x)
  <2>1. k + 1 \in 1..Len(o) /\ (k + 1) - 1 = k /\ k <= Len(o) /\ k \in 0..Len(o)
    BY <1>3
  <2>2. f[k + 1] = Put(deleteOrderedHeader(c, key), key, v) /\ c \in Single(N, V)
    BY <1>1, <2>1 DEF Merges
  <2>3. NamesOf(c) = a \o p
    <3>1. Q(k)
      <4> HIDE DEF Q
      <4> QED BY <1>6, <2>1
    <3> QED BY <3>1
  <2>4. key \in Spelled(N) /\ v \in Seq(V) /\ x = key.name /\ x \in N
    BY <1>0, <1>3, <2>1, RowShape
  <2>5. p \in Seq(N) /\ ToSet(p) = T(k)
    BY <1>4, <2>1
  <2>6. a \in Seq(N) /\ b \in Seq(N)
    BY <1>2, SubType
  <2>7. T(k + 1) = T(k) \cup {x} /\ x \notin T(k) /\ T(k) \subseteq N
    <3>1. \A i \in 1..(k + 1) : i \in 1..k \/ i = k + 1
      OBVIOUS
    <3>2. \A i \in 1..k : i \in 1..(k + 1) /\ i \in 1..Len(o) /\ i # k + 1
      BY <1>3, <2>1
    <3>3. k + 1 \in 1..(k + 1)
      OBVIOUS
    <3>4. T(k + 1) = T(k) \cup {x}
      BY <3>1, <3>2, <3>3 DEF T
    <3>5. \A i \in 1..k : no[i] # x /\ no[i] \in N
      BY <1>3, <2>1, <3>2 DEF Distinct
    <3> QED BY <3>4, <3>5 DEF T
  <2>8. Sub(a, W) = b
    <3> DEFINE U == N \ T(k)
               Z == N \ T(k + 1)
    <3>1. Z = U \cap W
      BY <2>7 DEF Others
    <3> HIDE DEF U, Z, W
    <3>2. Sub(Sub(ne, U), W) = Sub(ne, U \cap W)
      BY <1>2, SubSub
    <3> QED BY <3>1, <3>2 DEF U, Z
  <2>9. Sub(p, W) = p
    <3>1. ToSet(p) \subseteq W
      BY <2>5, <2>7 DEF Others
    <3> HIDE DEF p, W
    <3> QED BY <2>5, <3>1, SubAll
  <2>10. P(k + 1) = Append(p, x)
    <3>1. P(k + 1) \in Seq(N) /\ Len(P(k + 1)) = k + 1
      BY <1>4, <2>1
    <3>2. Append(p, x) \in Seq(N) /\ Len(Append(p, x)) = k + 1
      BY <1>4, <2>1, <2>4, <2>5
    <3>3. \A i \in 1..(k + 1) : i \in 1..k \/ i = k + 1
      OBVIOUS
    <3>4. \A i \in 1..k : P(k + 1)[i] = no[i] /\ p[i] = no[i]
      BY DEF P
    <3>5. P(k + 1)[k + 1] = x
      BY DEF P
    <3>6. Len(p) = k
      BY <1>4, <2>1
    <3> HIDE DEF p, x
    <3>7. Append(p, x)[k + 1] = x /\ \A i \in 1..k : Append(p, x)[i] = p[i]
      BY <2>4, <2>5, <3>6
    <3> QED BY <3>1, <3>2, <3>3, <3>4, <3>5, <3>7, SeqEqual
  <2>15. p \in Seq(N)
    BY <2>5
  <2> HIDE DEF c, key, x, v, a, b, p, W
  <2>11. NamesOf(f[k + 1]) = Append(Sub(NamesOf(c), Others(N, key.name)), key.name)
    BY <2>2, <2>4, MoveSingle
  <2>12. Sub(a \o p, W) = b \o p
    <3>1. Sub(a \o p, W) = Sub(a, W) \o Sub(p, W)
      BY <2>6, <2>15, SubConcat
    <3> QED BY <2>8, <2>9, <3>1
  <2>13. NamesOf(f[k + 1]) = Append(b \o p, x)
    BY <2>3, <2>4, <2>11, <2>12 DEF W
  <2>14. Append(b \o p, x) = b \o Append(p, x)
    <3>1. x \in N /\ b \in Seq(N)
      BY <2>4, <2>6
    <3> DEFINE t == b \o p
               y == Append(p, x)
               u == Append(t, x)
    <3>2. Joined(t, b, p) /\ Extended(y, p, x) /\ Extended(u, t, x)
      BY DEF Joined, Extended
    <3> HIDE DEF t, y, u
    <3>3. Joined(u, b, y)
      BY <3>1, <3>2, <2>15, ConcatAppend
    <3> QED BY <3>3 DEF Joined, t, y, u
  <2> QED BY <2>10, <2>13, <2>14 DEF b
<1>7. \A k \in Nat : k \in S
  <2> HIDE DEF S
  <2> QED BY <1>5, <1>6, SetInduction
<1>8. Len(o) \in S
  BY <1>3, <1>7
<1>9. NamesOf(f[Len(o)]) = Sub(ne, N \ T(Len(o))) \o P(Len(o))
  <2>1. Q(Len(o))
    <3> HIDE DEF Q
    <3> QED BY <1>3, <1>8
  <2> QED BY <2>1
<1>10. T(Len(o)) = ToSet(no) /\ P(Len(o)) = no
  BY <1>3, SeqShape DEF ToSet, T, P
<1>11. Len(o) \in 0..Len(o)
  BY <1>3
<1>12. overrideEntries(e, o) = f[Len(o)] /\ f[Len(o)] \in Single(N, V)
  BY <1>1, <1>11 DEF Merges
<1> QED BY <1>9, <1>10, <1>12 DEF ne, no, MergeNames

\* Objects of this module: a nil one has no entries, the others have each
\* name once.
Objects(N, V) ==
    {o \in [active: BOOLEAN, entries: Single(N, V)] : ~o.active => o.entries = <<>>}

\* An ordered object of a builder or a client.
LEMMA ObjectShape ==
    ASSUME NEW N, NEW V, NEW o, o \in Objects(N, V)
    PROVE  /\ o.entries \in Single(N, V) /\ o.entries \in Seq(Rows(N, V)) /\ OnePer(o.entries)
           /\ o.active \in BOOLEAN /\ (~o.active => o.entries = <<>>)
           /\ o = [active |-> o.active, entries |-> o.entries]
  BY DEF Objects, Single

\* Objects with entries and without.
LEMMA ObjectIs ==
    ASSUME NEW N, NEW V, NEW e, e \in Single(N, V)
    PROVE  /\ Object(e) \in Objects(N, V) /\ Object(e).entries = e /\ Object(e).active
           /\ NilObject \in Objects(N, V) /\ NilObject.entries = <<>> /\ ~NilObject.active
  BY EmptySingle DEF Objects, Object, NilObject

\* The names that syncOrderedHeaderValues keeps.
Synced(sem, N) == {n \in N : n \in PseudoNames \/ sem[n] # <<>>}

\* Each entry has the values of the headers.
Mirror(e, sem) ==
    \A i \in DOMAIN e : \/ e[i].key.name \in PseudoNames
                        \/ e[i].values = sem[e[i].key.name] /\ e[i].values # <<>>

\* Synchronising drops the names without values, keeps the order of the
\* others and gives them the values of the headers.
LEMMA SyncIs ==
    ASSUME NEW N, NEW V, NEW o, o \in Objects(N, V), NEW sem,
           \A n \in N \ PseudoNames : sem[n] \in Seq(V)
    PROVE  /\ syncOrderedHeaderValues(o, sem) \in Objects(N, V)
           /\ syncOrderedHeaderValues(o, sem).active = o.active
           /\ NamesOf(syncOrderedHeaderValues(o, sem).entries)
                = Sub(NamesOf(o.entries), Synced(sem, N))
           /\ Mirror(syncOrderedHeaderValues(o, sem).entries, sem)
<1> DEFINE e == o.entries
           I == {i \in DOMAIN e : isPseudoHeader(e[i].key) \/ sem[e[i].key.name] # <<>>}
           kept == Keep(e, I)
           u == [i \in DOMAIN kept |->
                    IF isPseudoHeader(kept[i].key) THEN kept[i]
                    ELSE Entry(kept[i].key, sem[kept[i].key.name])]
           r == syncOrderedHeaderValues(o, sem)
           W == Synced(sem, N)
<1>1. /\ e \in Seq(Rows(N, V)) /\ OnePer(e) /\ (~o.active => e = <<>>) /\ o.active \in BOOLEAN
      /\ o = [active |-> o.active, entries |-> e]
  BY ObjectShape
<1>2. r = [active |-> o.active, entries |-> u]
  <2>1. r = [o EXCEPT !.entries = u]
    BY DEF syncOrderedHeaderValues
  <2> HIDE DEF r, u
  <2> QED BY <1>1, <2>1
<1> HIDE DEF e, r
<1>3. DOMAIN e = 1..Len(e) /\ \A i \in 1..Len(e) : e[i].key.name \in N
  BY <1>1, NamesShape
<1>4. \A i \in 1..Len(e) : i \in I <=> e[i].key.name \in W
  BY <1>3 DEF Synced, isPseudoHeader
<1>5. \A i \in I : i \in 1..Len(e)
  BY <1>3
<1> HIDE DEF I, W
<1>6. kept \in Seq(Rows(N, V)) /\ NamesOf(kept) = Sub(NamesOf(e), W)
  BY <1>1, <1>4, NamesOfSub
<1>7. \A j \in DOMAIN kept : \E i \in I \cap 1..Len(e) : kept[j] = e[i]
  BY <1>1, KeepMembers
<1>8. (e = <<>> => kept = <<>>)
  <2>1. ASSUME e = <<>> PROVE \A j \in 1..Len(e) : j \notin I
    BY <2>1
  <2> QED BY <1>1, <2>1, KeepNone
<1> HIDE DEF kept
<1>9. /\ DOMAIN kept = 1..Len(kept) /\ Len(kept) \in Nat
      /\ \A j \in 1..Len(kept) : kept[j].key.name \in N /\ kept[j].key \in Spelled(N)
                                 /\ kept[j] \in Rows(N, V)
  BY <1>6, SeqShape, RowShape
<1>10. \A j \in 1..Len(kept) : kept[j].key.name \in W
  BY <1>4, <1>5, <1>7, <1>9
<1>11. ASSUME NEW j \in 1..Len(kept)
       PROVE  /\ u[j] \in Rows(N, V) /\ u[j].key = kept[j].key
              /\ \/ u[j].key.name \in PseudoNames
                 \/ u[j].values = sem[u[j].key.name] /\ u[j].values # <<>>
  <2>1. CASE isPseudoHeader(kept[j].key)
    <3>1. u[j] = kept[j]
      BY <1>9, <2>1
    <3> QED BY <1>9, <2>1, <3>1 DEF isPseudoHeader
  <2>2. CASE ~isPseudoHeader(kept[j].key)
    <3>1. u[j] = Entry(kept[j].key, sem[kept[j].key.name])
      BY <1>9, <2>2
    <3>2. kept[j].key.name \in N \ PseudoNames /\ sem[kept[j].key.name] # <<>>
      BY <1>9, <1>10, <2>2 DEF isPseudoHeader, W, Synced
    <3>3. sem[kept[j].key.name] \in Seq(V)
      BY <3>2
    <3> HIDE DEF u
    <3> QED BY <1>9, <3>1, <3>2, <3>3 DEF Entry, Rows
  <2> QED BY <2>1, <2>2
<1>12. u \in Seq(Rows(N, V)) /\ Len(u) = Len(kept) /\ DOMAIN u = 1..Len(kept)
  <2>1. u = [j \in 1..Len(kept) |-> u[j]]
    BY <1>9
  <2> HIDE DEF u
  <2> QED BY <1>9, <1>11, <2>1
<1> HIDE DEF u
<1>13. NamesOf(u) = NamesOf(kept)
  <2>1. \A j \in 1..Len(kept) : u[j].key.name = kept[j].key.name
    BY <1>11
  <2> QED BY <1>9, <1>12, <2>1 DEF NamesOf
<1>14. OnePer(u)
  <2> DEFINE ns == NamesOf(e)
  <2>1. ns \in Seq(N) /\ Distinct(ns)
    BY <1>1, NamesShape DEF OnePer
  <2> HIDE DEF ns
  <2>2. Distinct(Sub(ns, W))
    BY <2>1, KeepDistinct DEF Sub
  <2> QED BY <1>6, <1>13, <2>2 DEF OnePer, ns
<1>15. ~o.active => u = <<>>
  <2>1. kept = <<>> => Len(kept) = 0
    OBVIOUS
  <2>2. Len(u) = 0 => u = <<>>
    BY <1>12
  <2> QED BY <1>1, <1>8, <1>12, <2>1, <2>2
<1>16. Mirror(u, sem)
  BY <1>11, <1>12 DEF Mirror
<1>17. r \in Objects(N, V)
  BY <1>1, <1>2, <1>12, <1>14, <1>15 DEF Objects, Single
<1>18. r.active = o.active /\ r.entries = u
  BY <1>2
<1> QED BY <1>6, <1>13, <1>16, <1>17, <1>18 DEF r, e, W

-----------------------------------------------------------------------------
(* Metadata of a client and a request.                                      *)

\* Entries with one for each name.
LEMMA SingleShape ==
    ASSUME NEW N, NEW V, NEW e, e \in Single(N, V)
    PROVE  e \in Seq(Rows(N, V)) /\ OnePer(e) /\ NamesOf(e) \in Seq(N) /\ Distinct(NamesOf(e))
           /\ ToSet(NamesOf(e)) \subseteq N
<1>1. e \in Seq(Rows(N, V)) /\ OnePer(e)
  BY DEF Single
<1> QED BY <1>1, NamesShape DEF OnePer

\* Copying such an object changes nothing.
LEMMA CloneObject ==
    ASSUME NEW N, NEW V, NEW o, o \in Objects(N, V)
    PROVE  cloneOrderedHeaders(o) = o
<1>1. o.entries \in Single(N, V) /\ o = [active |-> o.active, entries |-> o.entries]
  BY ObjectShape
<1>2. cloneEntries(o.entries) = o.entries
  BY <1>1, CloneSame
<1>3. cloneOrderedHeaders(o) = [o EXCEPT !.entries = cloneEntries(o.entries)]
  BY DEF cloneOrderedHeaders
<1> QED BY <1>1, <1>2, <1>3

\* Merging keeps the order of the base and moves the names of the override
\* to the end, in their order.
LEMMA MergeIs ==
    ASSUME NEW N, NEW V, NEW b, b \in Objects(N, V), NEW o, o \in Objects(N, V)
    PROVE  /\ mergeOrderedHeaders(b, o) \in Objects(N, V)
           /\ mergeOrderedHeaders(b, o).active <=> b.active \/ o.active
           /\ NamesOf(mergeOrderedHeaders(b, o).entries)
                = MergeNames(NamesOf(b.entries), NamesOf(o.entries), N)
<1> DEFINE nb == NamesOf(b.entries)
           no == NamesOf(o.entries)
           r == mergeOrderedHeaders(b, o)
<1>1. /\ b.entries \in Single(N, V) /\ o.entries \in Single(N, V)
      /\ b.active \in BOOLEAN /\ o.active \in BOOLEAN
      /\ ~b.active => b.entries = <<>>
      /\ ~o.active => o.entries = <<>>
  BY ObjectShape
<1>2. nb \in Seq(N) /\ no \in Seq(N) /\ ToSet(nb) \subseteq N
  BY <1>1, SingleShape
<1>3. CASE ~o.active
  <2>1. r = b
    BY <1>3, CloneObject DEF mergeOrderedHeaders
  <2>2. no = <<>>
    BY <1>1, <1>3, EmptySingle
  <2>3. ToSet(<<>>) = {}
    BY DEF ToSet
  <2> HIDE DEF nb, no, r
  <2>4. Sub(nb, N) = nb /\ N \ {} = N
    BY <1>2, SubAll
  <2>5. MergeNames(nb, no, N) = nb
    BY <1>2, <2>2, <2>3, <2>4, EmptyConcat DEF MergeNames
  <2> QED BY <1>3, <2>1, <2>5 DEF nb, no, r
<1>4. CASE o.active /\ ~b.active
  <2>1. r = o
    BY <1>4, CloneObject DEF mergeOrderedHeaders
  <2>2. nb = <<>>
    BY <1>1, <1>4, EmptySingle
  <2> HIDE DEF nb, no, r
  <2>3. Sub(<<>>, N \ ToSet(no)) = <<>>
    <3>1. <<>> \in Seq(N) /\ \A x \in ToSet(<<>>) : x \notin N \ ToSet(no)
      BY DEF ToSet
    <3> QED BY <3>1, SubNone
  <2>4. MergeNames(nb, no, N) = no
    BY <1>2, <2>2, <2>3, EmptyConcat DEF MergeNames
  <2> QED BY <1>4, <2>1, <2>4 DEF nb, no, r
<1>5. CASE o.active /\ b.active
  <2> DEFINE m == overrideEntries(b.entries, o.entries)
  <2>1. cloneEntries(b.entries) = b.entries
    BY <1>1, CloneSame
  <2>2. r = Object(m)
    BY <1>5, <2>1 DEF mergeOrderedHeaders
  <2>3. m \in Single(N, V) /\ NamesOf(m) = MergeNames(nb, no, N)
    BY <1>1, MergedNames
  <2> HIDE DEF m, nb, no, r
  <2> QED BY <1>5, <2>2, <2>3, ObjectIs DEF nb, no, r
<1> QED BY <1>1, <1>3, <1>4, <1>5

\* The states of a client or builder.

\* Strings, and literals of the model that the provers do not know to be
\* strings.
Words == STRING \cup {"none", "form", "multipart", "boundary", "redacted", "/", "v", "q"}
HeaderTexts == Seq(Words)

Tagged(A) == [value: A, public: BOOLEAN]
Occurrences == Seq(Tagged(HeaderTexts))
CookieOccurrences == Seq(Tagged(Words))
AuthStates ==
    {a \in [kind: {"none", "basic", "token", "caller"}, valid: BOOLEAN, sets: HeaderNames,
            value: HeaderTexts] : a.kind # "caller" => a.sets = AUTH}
OrderedStates == Objects(AnyNames, HeaderTexts)
Metadata ==
    [headers: [HeaderNames -> Occurrences], ordered: OrderedStates,
     cookies: CookieOccurrences, auth: AuthStates]

InSync(m) ==
    m.ordered.active => \A n \in HeaderNames : ValuesOf(m.ordered, n) = Raw(m.headers[n])

\* The values of tagged occurrences, in their order.
LEMMA RawType ==
    ASSUME NEW A, NEW s, s \in Seq(Tagged(A))
    PROVE  /\ Raw(s) \in Seq(A) /\ Len(Raw(s)) = Len(s) /\ DOMAIN Raw(s) = 1..Len(s)
           /\ \A i \in 1..Len(s) : Raw(s)[i] = s[i].value
           /\ Raw(s) = <<>> <=> s = <<>>
<1>0. DOMAIN s = 1..Len(s) /\ Len(s) \in Nat /\ \A i \in 1..Len(s) : s[i] \in Tagged(A)
  BY SeqShape
<1>1. DOMAIN s = 1..Len(s) /\ Len(s) \in Nat /\ \A i \in 1..Len(s) : s[i].value \in A
  BY <1>0 DEF Tagged
<1>2. Raw(s) = [i \in 1..Len(s) |-> s[i].value]
  BY <1>1 DEF Raw
<1>3. Raw(s) \in Seq(A) /\ Len(Raw(s)) = Len(s) /\ DOMAIN Raw(s) = 1..Len(s)
  BY <1>1, <1>2
<1>4. Raw(s) = <<>> <=> s = <<>>
  BY <1>3, SeqShape
<1> QED BY <1>2, <1>3, <1>4

\* Private occurrences of values.
LEMMA PrivateType ==
    ASSUME NEW A, NEW t, t \in Seq(A)
    PROVE  /\ Private(t) \in Seq(Tagged(A))
           /\ Len(Private(t)) = Len(t) /\ Raw(Private(t)) = t
           /\ \A i \in 1..Len(t) : Private(t)[i] = Value(t[i], FALSE)
<1> DEFINE p == Private(t)
<1>1. DOMAIN t = 1..Len(t) /\ Len(t) \in Nat /\ \A i \in 1..Len(t) : t[i] \in A
  BY SeqShape
<1>2. p = [i \in 1..Len(t) |-> Value(t[i], FALSE)]
  BY <1>1 DEF Private
<1>3. \A i \in 1..Len(t) : Value(t[i], FALSE) \in Tagged(A)
  BY <1>1 DEF Value, Tagged
<1>4. p \in Seq(Tagged(A)) /\ Len(p) = Len(t)
  <2> HIDE DEF p
  <2>1. p = [i \in 1..Len(t) |-> p[i]] /\ \A i \in 1..Len(t) : p[i] \in Tagged(A)
    BY <1>2, <1>3
  <2> QED BY <1>1, <2>1
<1>5. \A i \in 1..Len(t) : p[i] = Value(t[i], FALSE) /\ p[i].value = t[i]
  BY <1>2 DEF Value
<1> HIDE DEF p
<1>6. /\ Raw(p) \in Seq(A) /\ Len(Raw(p)) = Len(t)
      /\ \A i \in 1..Len(t) : Raw(p)[i] = t[i]
  BY <1>4, <1>5, RawType
<1>7. Raw(p) = t
  BY <1>6, SeqEqual
<1> QED BY <1>4, <1>5, <1>7 DEF p

\* The parts of the metadata of a client or a request.
LEMMA MetadataShape ==
    ASSUME NEW m, m \in Metadata
    PROVE  /\ m.headers \in [HeaderNames -> Occurrences]
           /\ m.ordered \in OrderedStates
           /\ m.cookies \in CookieOccurrences
           /\ m.auth \in AuthStates
           /\ m.ordered.entries \in Single(AnyNames, HeaderTexts)
           /\ m.ordered.active \in BOOLEAN
           /\ (~m.ordered.active => m.ordered.entries = <<>>)
           /\ m.ordered = [active |-> m.ordered.active, entries |-> m.ordered.entries]
           /\ m = [headers |-> m.headers, ordered |-> m.ordered, cookies |-> m.cookies, auth |-> m.auth]
<1>1. /\ m.headers \in [HeaderNames -> Occurrences]
      /\ m.ordered \in OrderedStates
      /\ m.cookies \in CookieOccurrences
      /\ m.auth \in AuthStates
      /\ m = [headers |-> m.headers, ordered |-> m.ordered, cookies |-> m.cookies, auth |-> m.auth]
  BY DEF Metadata
<1> QED BY <1>1, ObjectShape DEF OrderedStates

\* Keys are ordinary header names; pseudo headers are not.
LEMMA KeyShape ==
    /\ \A key \in Keys : key \in Spelled(AnyNames) /\ key.name \in HeaderNames
                         /\ key.name \notin PseudoNames
    /\ \A n \in HeaderNames : Key(n) \in Keys /\ Key(n).name = n /\ n \notin PseudoNames
    /\ CT \in HeaderNames /\ AUTH \in HeaderNames /\ COOKIE \in HeaderNames
    /\ HeaderNames \subseteq AnyNames /\ PseudoNames \subseteq AnyNames
    /\ AnyNames \ PseudoNames = HeaderNames
    /\ CT # AUTH /\ CT # COOKIE /\ AUTH # COOKIE
<1>1. HeaderNames \cap PseudoNames = {}
  BY BuilderAssumption DEF HeaderNames, PseudoNames, CT, AUTH, COOKIE, BuilderAssumption
<1> QED BY <1>1 DEF Keys, Spelled, AnyNames, Key, HeaderNames, CT, AUTH, COOKIE

\* Objects o and p have the same values, except for name n, for which p has v.
Differs(p, o, n, v) ==
    /\ ValuesOf(p, n) = v
    /\ \A k : k # n => ValuesOf(p, k) = ValuesOf(o, k)

\* Setting an entry changes the values of its name only.
LEMMA SetValues ==
    ASSUME NEW N, NEW V, NEW o, o.entries \in Single(N, V), NEW key, key \in Spelled(N),
           NEW v, v \in Seq(V), NEW p,
           p.entries = Put(o.entries, KnownKey(o.entries, key), v)
    PROVE  p.entries \in Single(N, V) /\ Differs(p, o, key.name, v)
<1> DEFINE e == o.entries
           u == p.entries
<1>1. e \in Seq(Rows(N, V)) /\ OnePer(e) /\ e \in Single(N, V)
  BY DEF Single
<1>2. u = Put(e, KnownKey(e, key), v)
  OBVIOUS
<1> HIDE DEF e, u
<1>3. u \in Seq(Rows(N, V)) /\ OnePer(u)
  BY <1>1, <1>2, PutOnePer
<1>4. u \in Single(N, V)
  BY <1>3 DEF Single
<1>f. ASSUME NEW i \in 1..Len(u), NEW k, u[i].key.name = k PROVE ValuesOf(p, k) = u[i].values
  BY <1>3, <1>f, ValuesFound DEF u
<1>g. ASSUME NEW i \in 1..Len(e), NEW k, e[i].key.name = k PROVE ValuesOf(o, k) = e[i].values
  BY <1>1, <1>g, ValuesFound DEF e
<1>h. ASSUME NEW k, \A i \in 1..Len(u) : u[i].key.name # k PROVE ValuesOf(p, k) = <<>>
  BY <1>3, <1>h, ValuesMissing DEF u
<1>m. ASSUME NEW k, \A i \in 1..Len(e) : e[i].key.name # k PROVE ValuesOf(o, k) = <<>>
  BY <1>1, <1>m, ValuesMissing DEF e
<1>5. CASE \E i \in 1..Len(e) : e[i].key.name = key.name
  <2>1. PICK i \in 1..Len(e) : e[i].key.name = key.name
    BY <1>5
  <2>2. Replaces(u, e, i, v)
    BY <1>1, <1>2, <2>1, PutKnown
  <2>3. Len(u) = Len(e) /\ \A j \in 1..Len(e) : u[j].key.name = e[j].key.name
    <3>1. Len(u) = Len(e) /\ NamesOf(u) = NamesOf(e)
      BY <2>2 DEF Replaces
    <3>2. \A j \in 1..Len(e) : NamesOf(e)[j] = e[j].key.name
      BY <1>1, NamesShape
    <3>3. \A j \in 1..Len(u) : NamesOf(u)[j] = u[j].key.name
      BY <1>3, NamesShape
    <3> QED BY <3>1, <3>2, <3>3
  <2>4. ValuesOf(p, key.name) = v
    BY <1>f, <2>1, <2>2, <2>3 DEF Replaces
  <2>5. ASSUME NEW k, k # key.name PROVE ValuesOf(p, k) = ValuesOf(o, k)
    <3>1. ASSUME NEW j \in 1..Len(e), e[j].key.name = k PROVE ValuesOf(p, k) = ValuesOf(o, k)
      <4>1. u[j] = e[j] /\ j \in 1..Len(u)
        BY <2>1, <2>2, <2>3, <2>5, <3>1 DEF Replaces
      <4> QED BY <1>f, <1>g, <3>1, <4>1
    <3>2. ASSUME \A j \in 1..Len(e) : e[j].key.name # k PROVE ValuesOf(p, k) = ValuesOf(o, k)
      BY <1>h, <1>m, <2>3, <3>2
    <3> QED BY <3>1, <3>2
  <2> QED BY <1>4, <2>4, <2>5 DEF Differs, u
<1>6. CASE \A i \in 1..Len(e) : e[i].key.name # key.name
  <2>1. u = Append(e, Entry(key, v))
    BY <1>1, <1>2, <1>6, PutNew
  <2> DEFINE x == Entry(key, v)
  <2>2. x.key = key /\ x.values = v
    BY DEF Entry
  <2> HIDE DEF x
  <2>3. Len(e) \in Nat
    BY <1>1, SeqShape
  <2>4. Len(u) = Len(e) + 1 /\ u[Len(e) + 1] = x /\ \A i \in 1..Len(e) : u[i] = e[i]
    BY <1>1, <2>1 DEF x
  <2>5. /\ Len(e) + 1 \in 1..Len(u)
        /\ \A i \in 1..Len(u) : i \in 1..Len(e) \/ i = Len(e) + 1
        /\ \A i \in 1..Len(e) : i \in 1..Len(u)
    BY <2>3, <2>4
  <2>6. ValuesOf(p, key.name) = v
    BY <1>f, <2>2, <2>4, <2>5
  <2>7. ASSUME NEW k, k # key.name PROVE ValuesOf(p, k) = ValuesOf(o, k)
    <3>1. ASSUME NEW j \in 1..Len(e), e[j].key.name = k PROVE ValuesOf(p, k) = ValuesOf(o, k)
      BY <1>f, <1>g, <2>4, <2>5, <3>1
    <3>2. ASSUME \A j \in 1..Len(e) : e[j].key.name # k PROVE ValuesOf(p, k) = ValuesOf(o, k)
      <4>1. \A j \in 1..Len(u) : u[j].key.name # k
        BY <2>2, <2>4, <2>5, <2>7, <3>2
      <4> QED BY <1>h, <1>m, <3>2, <4>1
    <3> QED BY <3>1, <3>2
  <2> QED BY <1>4, <2>6, <2>7 DEF Differs, u
<1> QED BY <1>5, <1>6

\* The values at a key are those of its name.
LEMMA ValuesAtIs ==
    ASSUME NEW N, NEW V, NEW o, o.entries \in Single(N, V), NEW key, key \in Spelled(N)
    PROVE  ValuesAt(o.entries, key) = ValuesOf(o, key.name)
<1> DEFINE e == o.entries
<1>1. e \in Seq(Rows(N, V)) /\ OnePer(e)
  BY DEF Single
<1>2. ASSUME NEW i \in 1..Len(e), e[i].key.name = key.name
      PROVE  ValuesAt(e, key) = ValuesOf(o, key.name)
  <2>1. ValuesOf(o, key.name) = e[i].values
    BY <1>1, <1>2, ValuesFound
  <2> HIDE DEF e
  <2>2. orderedHeaderKey(e, key) = i /\ i # 0
    BY <1>1, <1>2, PlaceLemma, SeqShape
  <2> QED BY <2>1, <2>2 DEF ValuesAt
<1>3. ASSUME \A i \in 1..Len(e) : e[i].key.name # key.name
      PROVE  ValuesAt(e, key) = ValuesOf(o, key.name)
  <2>1. ValuesOf(o, key.name) = <<>>
    BY <1>1, <1>3, ValuesMissing
  <2> HIDE DEF e
  <2>2. orderedHeaderKey(e, key) = 0
    BY <1>1, <1>3, NoPlaceLemma
  <2> QED BY <2>1, <2>2 DEF ValuesAt
<1> QED BY <1>2, <1>3

\* Deleting an entry changes the values of its name only.
LEMMA DelValues ==
    ASSUME NEW N, NEW V, NEW o, o.entries \in Single(N, V), NEW key, key \in Spelled(N),
           NEW p, p.entries = deleteOrderedHeader(o.entries, key)
    PROVE  p.entries \in Single(N, V) /\ Differs(p, o, key.name, <<>>)
<1> DEFINE e == o.entries
           u == p.entries
           I == NotNamed(e, key.name)
<1>1. e \in Seq(Rows(N, V)) /\ OnePer(e) /\ e \in Single(N, V)
  BY DEF Single
<1>2. u = deleteOrderedHeader(e, key)
  OBVIOUS
<1> HIDE DEF e, u
<1>3. u \in Single(N, V)
  BY <1>1, <1>2, DeleteSingle
<1>4. u \in Seq(Rows(N, V)) /\ OnePer(u) /\ DOMAIN u = 1..Len(u)
  BY <1>3, SeqShape DEF Single
<1>5. u = Keep(e, I)
  <2> HIDE DEF I
  <2>1. deleteOrderedHeader(e, key) = Keep(e, NotNamed(e, key.name))
    BY <1>1, DeleteKeeps
  <2> QED BY <1>2, <2>1 DEF I
<1>d. I = {i \in 1..Len(e) : e[i].key.name # key.name}
  BY DEF NotNamed
<1>6. /\ \A j \in 1..Len(u) : \E i \in I \cap 1..Len(e) : u[j] = e[i]
      /\ \A i \in I \cap 1..Len(e) : \E j \in 1..Len(u) : u[j] = e[i]
  <2>1. /\ \A j \in DOMAIN u : \E i \in I \cap 1..Len(e) : u[j] = e[i]
        /\ \A i \in I \cap 1..Len(e) : \E j \in DOMAIN u : u[j] = e[i]
    BY <1>1, <1>5, KeepMembers
  <2> QED BY <1>4, <2>1
<1>f. ASSUME NEW i \in 1..Len(u), NEW k, u[i].key.name = k PROVE ValuesOf(p, k) = u[i].values
  BY <1>4, <1>f, ValuesFound DEF u
<1>g. ASSUME NEW i \in 1..Len(e), NEW k, e[i].key.name = k PROVE ValuesOf(o, k) = e[i].values
  BY <1>1, <1>g, ValuesFound DEF e
<1>h. ASSUME NEW k, \A i \in 1..Len(u) : u[i].key.name # k PROVE ValuesOf(p, k) = <<>>
  BY <1>4, <1>h, ValuesMissing DEF u
<1>m. ASSUME NEW k, \A i \in 1..Len(e) : e[i].key.name # k PROVE ValuesOf(o, k) = <<>>
  BY <1>1, <1>m, ValuesMissing DEF e
<1>7. ValuesOf(p, key.name) = <<>>
  BY <1>6, <1>d, <1>h
<1>8. ASSUME NEW k, k # key.name PROVE ValuesOf(p, k) = ValuesOf(o, k)
  <2>1. ASSUME NEW i \in 1..Len(e), e[i].key.name = k PROVE ValuesOf(p, k) = ValuesOf(o, k)
    <3>1. PICK j \in 1..Len(u) : u[j] = e[i]
      BY <1>6, <1>d, <1>8, <2>1
    <3> QED BY <1>f, <1>g, <2>1, <3>1
  <2>2. ASSUME \A j \in 1..Len(e) : e[j].key.name # k PROVE ValuesOf(p, k) = ValuesOf(o, k)
    <3>1. \A j \in 1..Len(u) : u[j].key.name # k
      BY <1>6, <1>d, <2>2
    <3> QED BY <1>h, <1>m, <2>2, <3>1
  <2> QED BY <2>1, <2>2
<1> QED BY <1>3, <1>7, <1>8 DEF Differs, u

\* r is m, except that the values of header n are v.
Changed(r, m, n, v) ==
    /\ r \in Metadata /\ InSync(r)
    /\ r.headers[n] = v /\ \A k \in HeaderNames : k # n => r.headers[k] = m.headers[k]
    /\ r.cookies = m.cookies /\ r.auth = m.auth

\* A header and its ordered entry changed together stay in step.
LEMMA Changing ==
    ASSUME NEW m, m \in Metadata, InSync(m), NEW n, n \in HeaderNames, NEW v, v \in Occurrences,
           NEW o, o \in OrderedStates, o.active = m.ordered.active,
           o.active => Differs(o, m.ordered, n, Raw(v)),
           NEW r, r = [headers |-> [m.headers EXCEPT ![n] = v], ordered |-> o,
                       cookies |-> m.cookies, auth |-> m.auth]
    PROVE  Changed(r, m, n, v)
<1>1. m.headers \in [HeaderNames -> Occurrences] /\ m.cookies \in CookieOccurrences
      /\ m.auth \in AuthStates
  BY MetadataShape
<1>2. /\ r.headers \in [HeaderNames -> Occurrences] /\ r.headers[n] = v
      /\ \A k \in HeaderNames : k # n => r.headers[k] = m.headers[k]
      /\ r.ordered = o /\ r.cookies = m.cookies /\ r.auth = m.auth
  BY <1>1
<1>3. r \in Metadata
  BY <1>1, <1>2 DEF Metadata
<1>4. ASSUME o.active, NEW k \in HeaderNames PROVE ValuesOf(o, k) = Raw(r.headers[k])
  BY <1>2, <1>4 DEF Differs, InSync
<1>5. InSync(r)
  BY <1>2, <1>4 DEF InSync
<1> QED BY <1>2, <1>3, <1>5 DEF Changed

With(m, h, o) == [m EXCEPT !.headers = h, !.ordered = o]

\* An update of the headers and the ordered object.
LEMMA WithIs ==
    ASSUME NEW m, m \in Metadata, NEW h, NEW o
    PROVE  With(m, h, o) = [headers |-> h, ordered |-> o, cookies |-> m.cookies, auth |-> m.auth]
<1>1. With(m, h, o) = [[headers |-> m.headers, ordered |-> m.ordered, cookies |-> m.cookies, auth |-> m.auth]
                         EXCEPT !.headers = h, !.ordered = o]
  BY MetadataShape DEF With
<1> QED BY <1>1

\* The ordered object is changed only when there is one.
LEMMA OrderedIs ==
    ASSUME NEW m, m \in Metadata, NEW e, m.ordered.active => e \in Single(AnyNames, HeaderTexts)
    PROVE  /\ Ordered(m, e) \in OrderedStates /\ Ordered(m, e).active = m.ordered.active
           /\ m.ordered.active => Ordered(m, e).entries = e
<1>1. m.ordered \in OrderedStates /\ m.ordered = [active |-> m.ordered.active, entries |-> m.ordered.entries]
      /\ m.ordered.active \in BOOLEAN
  BY MetadataShape
<1>2. CASE m.ordered.active
  <2>1. Ordered(m, e) = [active |-> m.ordered.active, entries |-> e]
    BY <1>1, <1>2 DEF Ordered
  <2>2. Ordered(m, e) = Object(e)
    BY <2>1, <1>2, <1>1 DEF Object
  <2>3. e \in Single(AnyNames, HeaderTexts)
    BY <1>2
  <2>4. Object(e) \in OrderedStates /\ Object(e).entries = e /\ Object(e).active
    BY <2>3, ObjectIs DEF OrderedStates
  <2> QED BY <1>1, <1>2, <2>2, <2>4 DEF Object
<1>3. CASE ~m.ordered.active
  BY <1>1, <1>3 DEF Ordered
<1> QED BY <1>1, <1>2, <1>3

\* setHeaderValues keeps headers and ordered object in step.
LEMMA SetLemma ==
    ASSUME NEW m, m \in Metadata, InSync(m), NEW key, key \in Keys, NEW v, v \in Occurrences
    PROVE  Changed(setHeaderValues(m, key, v), m, key.name, v)
<1> DEFINE e == setOrderedHeaderValues(m.ordered.entries, key, Raw(v))
           o == Ordered(m, e)
           r == setHeaderValues(m, key, v)
<1>1. key \in Spelled(AnyNames) /\ key.name \in HeaderNames
  BY KeyShape
<1>2. Raw(v) \in Seq(HeaderTexts)
  BY RawType DEF Occurrences
<1>3. m.ordered.entries \in Single(AnyNames, HeaderTexts)
      /\ m = [headers |-> m.headers, ordered |-> m.ordered, cookies |-> m.cookies, auth |-> m.auth]
  BY MetadataShape
<1>4. r = [headers |-> [m.headers EXCEPT ![key.name] = v], ordered |-> o,
           cookies |-> m.cookies, auth |-> m.auth]
  <2>1. r = With(m, [m.headers EXCEPT ![key.name] = v], o)
    BY DEF setHeaderValues, With
  <2> HIDE DEF o, r
  <2> QED BY <2>1, WithIs
<1>5. e = Put(m.ordered.entries, KnownKey(m.ordered.entries, key), Raw(v))
  BY DEF setOrderedHeaderValues
<1> HIDE DEF e, r
<1>6. ASSUME NEW p, p.entries = e PROVE e \in Single(AnyNames, HeaderTexts) /\ Differs(p, m.ordered, key.name, Raw(v))
  BY <1>1, <1>2, <1>3, <1>5, <1>6, SetValues
<1>7. e \in Single(AnyNames, HeaderTexts)
  <2>1. Object(e).entries = e
    BY DEF Object
  <2> QED BY <1>6, <2>1
<1>8. o \in OrderedStates /\ o.active = m.ordered.active /\ (m.ordered.active => o.entries = e)
  BY <1>7, OrderedIs
<1> HIDE DEF o
<1>9. o.active => Differs(o, m.ordered, key.name, Raw(v))
  BY <1>6, <1>8
<1>10. Changed(r, m, key.name, v)
  BY <1>1, <1>4, <1>8, <1>9, Changing
<1> QED BY <1>10 DEF r

\* addHeaderValue does too, also for a name the object does not have yet.
LEMMA AddLemma ==
    ASSUME NEW m, m \in Metadata, InSync(m), NEW key, key \in Keys, NEW x, x \in Tagged(HeaderTexts)
    PROVE  Changed(addHeaderValue(m, key, x), m, key.name, Append(m.headers[key.name], x))
<1> DEFINE old == m.headers[key.name]
           v == Append(old, x)
           e == addOrderedHeaderValues(m.ordered.entries, key, <<x.value>>)
           w == ValuesAt(m.ordered.entries, key) \o <<x.value>>
           o == Ordered(m, e)
           r == addHeaderValue(m, key, x)
<1>1. key \in Spelled(AnyNames) /\ key.name \in HeaderNames
  BY KeyShape
<1>2. old \in Occurrences
  BY <1>1, MetadataShape
<1>t. x.value \in HeaderTexts
  BY DEF Tagged
<1>3. m.ordered.entries \in Single(AnyNames, HeaderTexts)
      /\ m = [headers |-> m.headers, ordered |-> m.ordered, cookies |-> m.cookies, auth |-> m.auth]
  BY MetadataShape
<1>4. r = [headers |-> [m.headers EXCEPT ![key.name] = v], ordered |-> o,
           cookies |-> m.cookies, auth |-> m.auth]
  <2>1. r = With(m, [m.headers EXCEPT ![key.name] = v], o)
    BY DEF addHeaderValue, With
  <2> HIDE DEF o, r
  <2> QED BY <2>1, WithIs
<1>5. e = Put(m.ordered.entries, KnownKey(m.ordered.entries, key), w)
  BY DEF addOrderedHeaderValues
<1>v. v \in Occurrences
  BY <1>2 DEF Occurrences
<1>w. w \in Seq(HeaderTexts)
  <2>1. ValuesAt(m.ordered.entries, key) \in Seq(HeaderTexts)
    BY <1>1, <1>3, ValuesAtType DEF Single
  <2> QED BY <2>1, <1>t
<1>s. m.ordered.active => w = Raw(v)
  <2> HAVE m.ordered.active
  <2>1. ValuesAt(m.ordered.entries, key) = ValuesOf(m.ordered, key.name)
    BY <1>1, <1>3, ValuesAtIs
  <2>2. ValuesAt(m.ordered.entries, key) = Raw(old)
    BY <1>1, <2>1 DEF InSync
  <2> DEFINE q == Raw(old)
  <2>3. q \in Seq(HeaderTexts) /\ Len(q) = Len(old) /\ \A i \in 1..Len(old) : q[i] = old[i].value
    BY <1>2, RawType DEF Occurrences
  <2>4. w = q \o <<x.value>>
    BY <2>2
  <2>5. Raw(v) \in Seq(HeaderTexts) /\ Len(Raw(v)) = Len(v) /\ \A i \in 1..Len(v) : Raw(v)[i] = v[i].value
    BY <1>v, RawType DEF Occurrences
  <2>6. Len(v) = Len(old) + 1 /\ Len(old) \in Nat /\ v[Len(old) + 1] = x /\ \A i \in 1..Len(old) : v[i] = old[i]
    BY <1>2 DEF Occurrences
  <2> HIDE DEF q, v, w
  <2>7. Len(w) = Len(q) + 1 /\ w[Len(q) + 1] = x.value /\ \A i \in 1..Len(q) : w[i] = q[i]
    BY <2>3, <2>4, <1>t
  <2>8. \A i \in 1..Len(w) : w[i] = Raw(v)[i]
    BY <2>3, <2>5, <2>6, <2>7
  <2> QED BY <1>w, <2>3, <2>5, <2>6, <2>7, <2>8, SeqEqual
<1> HIDE DEF e, r, v, w
<1>6. ASSUME NEW p, p.entries = e PROVE e \in Single(AnyNames, HeaderTexts) /\ Differs(p, m.ordered, key.name, w)
  BY <1>1, <1>w, <1>3, <1>5, <1>6, SetValues
<1>7. e \in Single(AnyNames, HeaderTexts)
  <2>1. Object(e).entries = e
    BY DEF Object
  <2> QED BY <1>6, <2>1
<1>8. o \in OrderedStates /\ o.active = m.ordered.active /\ (m.ordered.active => o.entries = e)
  BY <1>7, OrderedIs
<1> HIDE DEF o
<1>9. o.active => Differs(o, m.ordered, key.name, Raw(v))
  BY <1>6, <1>8, <1>s
<1>10. Changed(r, m, key.name, v)
  BY <1>1, <1>v, <1>4, <1>8, <1>9, Changing
<1> QED BY <1>10 DEF r, v

\* delHeader does too.
LEMMA DelLemma ==
    ASSUME NEW m, m \in Metadata, InSync(m), NEW key, key \in Keys
    PROVE  Changed(delHeader(m, key), m, key.name, <<>>)
<1> DEFINE e == deleteOrderedHeader(m.ordered.entries, key)
           o == Ordered(m, e)
           r == delHeader(m, key)
<1>1. key \in Spelled(AnyNames) /\ key.name \in HeaderNames
  BY KeyShape
<1>2. <<>> \in Occurrences /\ Raw(<<>>) = <<>>
  <2>1. <<>> \in Seq(Tagged(HeaderTexts))
    OBVIOUS
  <2> QED BY <2>1, RawType DEF Occurrences
<1>3. m.ordered.entries \in Single(AnyNames, HeaderTexts)
      /\ m = [headers |-> m.headers, ordered |-> m.ordered, cookies |-> m.cookies, auth |-> m.auth]
  BY MetadataShape
<1>4. r = [headers |-> [m.headers EXCEPT ![key.name] = <<>>], ordered |-> o,
           cookies |-> m.cookies, auth |-> m.auth]
  <2>1. r = With(m, [m.headers EXCEPT ![key.name] = <<>>], o)
    BY DEF delHeader, With
  <2> HIDE DEF o, r
  <2> QED BY <2>1, WithIs
<1>5. e = deleteOrderedHeader(m.ordered.entries, key)
  OBVIOUS
<1> HIDE DEF e, r
<1>6. ASSUME NEW p, p.entries = e PROVE e \in Single(AnyNames, HeaderTexts) /\ Differs(p, m.ordered, key.name, <<>>)
  BY <1>1, <1>3, <1>5, <1>6, DelValues
<1>7. e \in Single(AnyNames, HeaderTexts)
  <2>1. Object(e).entries = e
    BY DEF Object
  <2> QED BY <1>6, <2>1
<1>8. o \in OrderedStates /\ o.active = m.ordered.active /\ (m.ordered.active => o.entries = e)
  BY <1>7, OrderedIs
<1> HIDE DEF o
<1>9. o.active => Differs(o, m.ordered, key.name, Raw(<<>>))
  BY <1>2, <1>6, <1>8
<1>10. Changed(r, m, key.name, <<>>)
  BY <1>1, <1>2, <1>4, <1>8, <1>9, Changing
<1> QED BY <1>10 DEF r

\* A copy of a caller's object is one the builder can have.
LEMMA CloneIs ==
    ASSUME NEW object, object \in [active: BOOLEAN, entries: Seq(Rows(AnyNames, HeaderTexts))],
           ~object.active => object.entries = <<>>
    PROVE  cloneOrderedHeaders(object) \in OrderedStates
           /\ cloneOrderedHeaders(object).active = object.active
<1> DEFINE e == cloneEntries(object.entries)
<1>1. object.entries \in Seq(Rows(AnyNames, HeaderTexts))
  OBVIOUS
<1>2. e \in Single(AnyNames, HeaderTexts)
  BY <1>1, CloneSingle
<1>3. cloneOrderedHeaders(object) = [active |-> object.active, entries |-> e]
  BY DEF cloneOrderedHeaders
<1>4. ~object.active => e = <<>>
  BY EmptySingle, CloneSame
<1> HIDE DEF e
<1> QED BY <1>2, <1>3, <1>4 DEF OrderedStates, Objects

\* setOrderedHeaders replaces every header, and the headers are in step with
\* the object that replaced them.
LEMMA OrderedLemma ==
    ASSUME NEW m, m \in Metadata, NEW object, object \in [active: BOOLEAN, entries: Seq(Rows(AnyNames, HeaderTexts))],
           ~object.active => object.entries = <<>>
    PROVE  LET r == setOrderedHeaders(m, object)
           IN  /\ r \in Metadata /\ InSync(r) /\ r.cookies = m.cookies /\ r.auth = m.auth
               /\ \A n \in HeaderNames : \A i \in DOMAIN r.headers[n] : ~r.headers[n][i].public
<1> DEFINE c == cloneOrderedHeaders(object)
           r == setOrderedHeaders(m, object)
           h == [n \in HeaderNames |-> Private(ValuesOf(c, n))]
<1>1. c \in OrderedStates
  BY CloneIs
<1>2. m = [headers |-> m.headers, ordered |-> m.ordered, cookies |-> m.cookies, auth |-> m.auth]
      /\ m.cookies \in CookieOccurrences /\ m.auth \in AuthStates
  BY MetadataShape
<1>3. r = [headers |-> h, ordered |-> c, cookies |-> m.cookies, auth |-> m.auth]
  <2>1. r = With(m, h, c)
    BY DEF setOrderedHeaders, With
  <2> HIDE DEF h, c, r
  <2> QED BY <2>1, WithIs
<1>4. c.entries \in Seq(Rows(AnyNames, HeaderTexts))
  BY <1>1, ObjectShape DEF OrderedStates
<1> HIDE DEF c, r
<1>5. ASSUME NEW n \in HeaderNames
      PROVE  /\ Private(ValuesOf(c, n)) \in Occurrences
             /\ Raw(Private(ValuesOf(c, n))) = ValuesOf(c, n)
             /\ \A i \in DOMAIN Private(ValuesOf(c, n)) : ~Private(ValuesOf(c, n))[i].public
  <2> DEFINE t == ValuesOf(c, n)
  <2>1. t \in Seq(HeaderTexts)
    BY <1>4, ValuesType
  <2> HIDE DEF t
  <2>2. Private(t) \in Occurrences /\ Raw(Private(t)) = t
    BY <2>1, PrivateType DEF Occurrences
  <2>3. \A i \in DOMAIN Private(t) : ~Private(t)[i].public
    BY DEF Private, Value
  <2> QED BY <2>2, <2>3 DEF t
<1>6. h \in [HeaderNames -> Occurrences]
  BY <1>5
<1>7. \A n \in HeaderNames : ValuesOf(c, n) = Raw(h[n]) /\ \A i \in DOMAIN h[n] : ~h[n][i].public
  BY <1>5
<1> HIDE DEF h
<1>8. r \in Metadata /\ r.headers = h /\ r.ordered = c /\ r.cookies = m.cookies /\ r.auth = m.auth
  BY <1>1, <1>2, <1>3, <1>6 DEF Metadata
<1>9. InSync(r)
  BY <1>7, <1>8 DEF InSync
<1> QED BY <1>7, <1>8, <1>9 DEF r

-----------------------------------------------------------------------------
(* The invariant of the builder.                                            *)

FormFields == {f \in [name: STRING, raw: Nat, enc: Nat, public: BOOLEAN] : f.raw <= f.enc}

BodyTypes ==
    [kind: {"none", "json", "xml", "yaml", "text", "bytes", "reader", "form", "multipart"},
     contentType: HeaderTexts, generated: BOOLEAN, public: BOOLEAN, size: Nat,
     source: Words, length: Int, form: Seq([name: STRING, raw: Nat, enc: Nat, public: BOOLEAN]),
     multipart: [config: BOOLEAN, parts: BOOLEAN, metadata: BOOLEAN,
                 replay: BOOLEAN, fits: BOOLEAN]]

\* The bodies a builder can have selected.
Selected ==
    {b \in BodyTypes :
        /\ b.kind = "form" => b.form \in Seq(FormFields)
        /\ b.kind # "reader" => b.length = -1
        /\ b.kind = "none" => ~b.generated
        /\ b.generated /\ b.kind \notin {"none", "bytes", "reader"} =>
            b.contentType = IF b.kind = "multipart" THEN <<>> ELSE <<b.kind>>}

AllPrivate(m) ==
    /\ \A n \in HeaderNames : \A i \in DOMAIN m.headers[n] : ~m.headers[n][i].public
    /\ \A i \in DOMAIN m.cookies : ~m.cookies[i].public

Valid(m) == m \in Metadata /\ InSync(m)

BuilderInv ==
    /\ Valid(client) /\ AllPrivate(client)
    /\ Valid(request)
    /\ body \in Selected
    /\ preparationErr \in {"none", "config", "form"}

\* A step of the builder, or one of the target, which leaves the rest alone.
BuilderStep == Next \/ UNCHANGED <<client, request, body, preparationErr>>

\* The body of a new request.
LEMMA NoBodyLemma ==
    NoBody \in BodyTypes
<1> DEFINE F == Seq([name: STRING, raw: Nat, enc: Nat, public: BOOLEAN])
           M == [config: BOOLEAN, parts: BOOLEAN, metadata: BOOLEAN, replay: BOOLEAN, fits: BOOLEAN]
<1>1. NoMultipart \in M
  BY DEF NoMultipart
<1>2. <<>> \in HeaderTexts /\ <<>> \in F /\ -1 \in Int
  BY DEF HeaderTexts
<1> HIDE DEF F, M
<1>3. ASSUME NEW k \in Words, k = "none", NEW c \in HeaderTexts, NEW g \in BOOLEAN, NEW z \in Nat,
             NEW l \in Int, NEW f \in F, NEW m \in M, NEW b,
             b = [kind |-> k, contentType |-> c, generated |-> g, public |-> g,
                  size |-> z, source |-> k, length |-> l, form |-> f, multipart |-> m]
      PROVE  b \in BodyTypes
  BY <1>3 DEF BodyTypes, F, M
<1>4. "none" \in Words
  BY DEF Words
<1>5. FALSE \in BOOLEAN
  OBVIOUS
<1>6. 0 \in Nat
  OBVIOUS
<1> QED BY <1>1, <1>2, <1>3, <1>4, <1>5, <1>6 DEF NoBody

\* The metadata of a new client or request.
LEMMA EmptyMetadataLemma ==
    Valid(EmptyMetadata) /\ AllPrivate(EmptyMetadata) /\ NoBody \in Selected
<1>1. <<>> \in Occurrences /\ <<>> \in CookieOccurrences /\ <<>> \in HeaderTexts
  BY DEF Occurrences, CookieOccurrences, HeaderTexts
<1>2. NilObject \in OrderedStates /\ ~NilObject.active
  BY EmptySingle, ObjectIs DEF OrderedStates
<1>3. NoAuth \in AuthStates
  BY <1>1, KeyShape DEF NoAuth, AuthStates
<1>4. EmptyMetadata \in Metadata
  BY <1>1, <1>2, <1>3 DEF EmptyMetadata, Metadata
<1>5. InSync(EmptyMetadata)
  BY <1>2 DEF EmptyMetadata, InSync
<1>6. AllPrivate(EmptyMetadata)
  BY DEF EmptyMetadata, AllPrivate
<1>7. NoBody \in Selected
  <2>5. NoBody.kind = "none" /\ NoBody.length = -1 /\ ~NoBody.generated
    BY DEF NoBody
  <2> QED BY <2>5, NoBodyLemma DEF Selected
<1> QED BY <1>4, <1>5, <1>6, <1>7 DEF Valid

\* A tagged value.
LEMMA ValueType ==
    ASSUME NEW A, NEW t, t \in A, NEW p, p \in BOOLEAN
    PROVE  /\ Value(t, p) \in Tagged(A) /\ <<Value(t, p)>> \in Seq(Tagged(A))
           /\ Value(t, p).public = p /\ Value(t, p).value = t
<1>1. Value(t, p) \in Tagged(A) /\ Value(t, p).public = p /\ Value(t, p).value = t
  BY DEF Value, Tagged
<1> HIDE DEF Value
<1> QED BY <1>1

\* Removing a cookie leaves cookies, and makes none public.
LEMMA KeptType ==
    ASSUME NEW cs, cs \in CookieOccurrences, NEW c
    PROVE  /\ WithoutCookie(cs, c) \in CookieOccurrences
           /\ (\A i \in DOMAIN cs : ~cs[i].public) =>
                \A i \in DOMAIN WithoutCookie(cs, c) : ~WithoutCookie(cs, c)[i].public
<1> DEFINE I == {i \in DOMAIN cs : CookieName[cs[i].value] # CookieName[c]}
           k == Keep(cs, I)
<1>1. WithoutCookie(cs, c) = k
  BY DEF WithoutCookie
<1> HIDE DEF I
<1>2. cs \in Seq(Tagged(Words)) /\ DOMAIN cs = 1..Len(cs)
  BY SeqShape DEF CookieOccurrences
<1>3. k \in CookieOccurrences
  BY <1>2, KeepType DEF CookieOccurrences
<1>4. \A j \in DOMAIN k : \E i \in DOMAIN cs : k[j] = cs[i]
  BY <1>2, KeepMembers
<1> QED BY <1>1, <1>3, <1>4

\* Cookies and headers are separate.
LEMMA CookieSet ==
    ASSUME NEW m, Valid(m), NEW cs, cs \in CookieOccurrences
    PROVE  LET r == [m EXCEPT !.cookies = cs]
           IN  Valid(r) /\ r.headers = m.headers /\ r.cookies = cs
<1> DEFINE r == [m EXCEPT !.cookies = cs]
<1>1. m \in Metadata /\ InSync(m)
  BY DEF Valid
<1>2. r \in Metadata /\ r.headers = m.headers /\ r.cookies = cs /\ r.ordered = m.ordered
  BY <1>1 DEF Metadata
<1> HIDE DEF r
<1>3. InSync(r)
  BY <1>1, <1>2 DEF InSync
<1> QED BY <1>2, <1>3 DEF Valid, r

\* So are the method of authentication and the headers.
LEMMA AuthSet ==
    ASSUME NEW m, Valid(m), NEW a, a \in AuthStates
    PROVE  LET r == [m EXCEPT !.auth = a]
           IN  Valid(r) /\ r.headers = m.headers /\ r.cookies = m.cookies
<1> DEFINE r == [m EXCEPT !.auth = a]
<1>1. m \in Metadata /\ InSync(m)
  BY DEF Valid
<1>2. r \in Metadata /\ r.headers = m.headers /\ r.cookies = m.cookies /\ r.ordered = m.ordered
  BY <1>1 DEF Metadata
<1> HIDE DEF r
<1>3. InSync(r)
  BY <1>1, <1>2 DEF InSync
<1> QED BY <1>2, <1>3 DEF Valid, r

\* What the assumptions say of the inputs, in these types.
LEMMA InputTypes ==
    /\ \A key \in Keys : ClientTexts[key.name] \subseteq HeaderTexts /\ RequestTexts[key.name] \subseteq HeaderTexts
    /\ ClientHeaders \subseteq [HeaderNames -> Seq(HeaderTexts)]
    /\ \A o \in ClientObjects \cup RequestObjects \cup {NilObject} :
            o \in [active: BOOLEAN, entries: Seq(Rows(AnyNames, HeaderTexts))] /\ (~o.active => o.entries = <<>>)
    /\ ClientCookies \cup RequestCookies \subseteq Words
    /\ ClientAuths \cup RequestAuths \subseteq AuthStates
    /\ Disclosures \subseteq BOOLEAN
    /\ Bodies \subseteq Selected
    /\ \A f \in Fields, p \in BOOLEAN : Field(f, p) \in FormFields /\ Field(f, p).public = p
<1> USE BuilderAssumption DEF BuilderAssumption
<1>0. STRING \subseteq Words
  BY DEF Words
<1>w. ASSUME NEW A, NEW B, A \subseteq B PROVE Seq(A) \subseteq Seq(B)
  BY <1>w
<1>t. Texts \subseteq HeaderTexts /\ Seq(Texts) \subseteq Seq(HeaderTexts)
  BY <1>0, <1>w DEF Texts, HeaderTexts
<1>1. \A key \in Keys : ClientTexts[key.name] \subseteq HeaderTexts /\ RequestTexts[key.name] \subseteq HeaderTexts
  BY <1>t DEF Keys
<1>h. ClientHeaders \subseteq [HeaderNames -> Seq(HeaderTexts)]
  BY <1>t
<1>2. \A o \in ClientObjects \cup RequestObjects \cup {NilObject} :
            o \in [active: BOOLEAN, entries: Seq(Rows(AnyNames, HeaderTexts))] /\ (~o.active => o.entries = <<>>)
  <2> DEFINE A == [key: [name: AnyNames, lower: BOOLEAN], values: Seq(Texts)]
             B == Rows(AnyNames, HeaderTexts)
  <2>0. A \subseteq B
    BY <1>t DEF Rows, Spelled
  <2>s. Entries = Seq(A)
    BY DEF Entries
  <2>e. Entries \subseteq Seq(B)
    <3> HIDE DEF A, B
    <3> QED BY <1>w, <2>0, <2>s
  <2>1. NilObject \in [active: BOOLEAN, entries: Seq(Rows(AnyNames, HeaderTexts))] /\ NilObject.entries = <<>>
    BY DEF NilObject
  <2>2. \A o \in ClientObjects \cup RequestObjects : o \in [active: {TRUE}, entries: Entries]
    OBVIOUS
  <2> QED BY <2>e, <2>1, <2>2
<1>3. ClientAuths \cup RequestAuths \subseteq AuthStates
  BY <1>t DEF AuthStates, Auths
<1>b. BodyPlans \subseteq BodyTypes
  BY <1>0, <1>t DEF BodyPlans, BodyTypes, Texts
<1>4. Bodies \subseteq Selected
  BY <1>b DEF Selected
<1>5. \A f \in Fields, p \in BOOLEAN : Field(f, p) \in FormFields /\ Field(f, p).public = p
  BY DEF Field, FormFields
<1> QED BY <1>0, <1>1, <1>h, <1>2, <1>3, <1>4, <1>5

\* A changed header leaves valid metadata.
LEMMA ChangedValid ==
    ASSUME NEW r, NEW m, NEW n, NEW v, Changed(r, m, n, v)
    PROVE  Valid(r)
  BY DEF Changed, Valid

\* An option of the client.
LEMMA ClientStep ==
    ASSUME BuilderInv, NEW c, Option(c), Valid(c), AllPrivate(c)
    PROVE  BuilderInv'
<1>1. client' = c /\ UNCHANGED <<request, body, preparationErr>>
  BY DEF Option
<1>2. Valid(client)' /\ AllPrivate(client)'
  BY <1>1 DEF Valid, AllPrivate, InSync
<1>3. Valid(request)'
  BY <1>1 DEF BuilderInv, Valid, InSync
<1> QED BY <1>1, <1>2, <1>3 DEF BuilderInv

\* A call on the request.
LEMMA CallStep ==
    ASSUME BuilderInv, NEW r, NEW b, Call(r, b), Valid(r), b \in Selected
    PROVE  BuilderInv'
<1>1. request' = r /\ body' = b /\ UNCHANGED <<client, preparationErr>>
  BY DEF Call
<1>2. Valid(request)'
  BY <1>1 DEF Valid, InSync
<1>3. Valid(client)' /\ AllPrivate(client)'
  BY <1>1 DEF BuilderInv, Valid, InSync, AllPrivate
<1> QED BY <1>1, <1>2, <1>3 DEF BuilderInv

\* A step that changes none of the metadata.
LEMMA SameStep ==
    ASSUME BuilderInv, UNCHANGED <<client, request, body>>,
           preparationErr' \in {"none", "config", "form"}
    PROVE  BuilderInv'
  BY DEF BuilderInv, Valid, InSync, AllPrivate

\* A call that is refused.
LEMMA ErrorStep ==
    ASSUME BuilderInv, NEW class, class \in {"config", "form"}, setPreparationError(class)
    PROVE  BuilderInv'
<1>1. UNCHANGED <<client, request, body>> /\ preparationErr' \in {"none", "config", "form"}
  BY DEF setPreparationError, BuilderInv
<1> QED BY <1>1, SameStep

\* Taking the Content-Type from a body leaves a body.
LEMMA TakenSelected ==
    ASSUME NEW b, b \in Selected
    PROVE  [b EXCEPT !.generated = FALSE] \in Selected
<1> DEFINE u == [b EXCEPT !.generated = FALSE]
<1>1. b \in BodyTypes
  BY DEF Selected
<1>2. u \in BodyTypes /\ u.generated = FALSE /\ u.kind = b.kind /\ u.form = b.form /\ u.length = b.length
  BY <1>1 DEF BodyTypes
<1> HIDE DEF u
<1>3. u \in Selected
  BY <1>2 DEF Selected
<1> QED BY <1>3 DEF u

\* Replacing a generated type keeps headers and ordered object in step.
LEMMA SelectHeaders ==
    ASSUME BuilderInv, NEW b, b \in Selected
    PROVE  Valid(selectBodyHeaders(b))
<1> DEFINE r == IF body.generated THEN delHeader(request, Key(CT)) ELSE request
           v == <<Value(b.contentType, FALSE)>>
<1>1. Key(CT) \in Keys
  BY KeyShape
<1>2. request \in Metadata /\ InSync(request)
  BY DEF BuilderInv, Valid
<1>3. r \in Metadata /\ InSync(r)
  BY <1>1, <1>2, DelLemma DEF Changed
<1>4. b.contentType \in HeaderTexts
  BY DEF Selected, BodyTypes
<1>5. v \in Occurrences
  <2>1. FALSE \in BOOLEAN
    OBVIOUS
  <2> QED BY <1>4, <2>1, ValueType DEF Occurrences
<1> HIDE DEF r, v
<1>6. Valid(setHeaderValues(r, Key(CT), v))
  BY <1>1, <1>3, <1>5, SetLemma, ChangedValid
<1>7. selectBodyHeaders(b) = IF b.contentType # <<>> THEN setHeaderValues(r, Key(CT), v) ELSE r
  BY DEF selectBodyHeaders, r, v
<1> QED BY <1>3, <1>6, <1>7 DEF Valid

\* A call that selects a body.
LEMMA SelectStep ==
    ASSUME BuilderInv, NEW b, b \in Selected, selectBody(b)
    PROVE  BuilderInv'
  BY SelectHeaders, CallStep DEF selectBody

\* A form selects a body.
LEMMA FormBodyLemma ==
    ASSUME NEW form, form \in Seq(FormFields)
    PROVE  [FormBody EXCEPT !.form = form] \in Selected
<1> DEFINE b == [FormBody EXCEPT !.form = form]
           F == [name: STRING, raw: Nat, enc: Nat, public: BOOLEAN]
<1>1. NoBody \in BodyTypes
  BY NoBodyLemma
<1>2. NoBody.length = -1
  BY DEF NoBody
<1> HIDE DEF NoBody
<1>3. form \in Seq(F)
  <2>1. FormFields \subseteq F
    BY DEF FormFields
  <2> HIDE DEF F
  <2> QED BY <2>1
<1>4. <<"form">> \in HeaderTexts
  BY DEF HeaderTexts, Words
<1>5. /\ b.kind = "form" /\ b.contentType = <<"form">> /\ b.generated = TRUE /\ b.form = form
      /\ b.length = -1
  BY <1>1, <1>2 DEF FormBody, BodyTypes
<1>6. b \in BodyTypes
  <2>1. ASSUME NEW t \in HeaderTexts, NEW k, k = "form", NEW g \in BOOLEAN
        PROVE  [[NoBody EXCEPT !.kind = k, !.contentType = t, !.generated = g] EXCEPT !.form = form] \in BodyTypes
    BY <1>1, <1>3, <2>1 DEF BodyTypes
  <2>2. TRUE \in BOOLEAN
    OBVIOUS
  <2> QED BY <1>4, <2>1, <2>2 DEF FormBody
<1> HIDE DEF b
<1>7. b \in Selected
  BY <1>5, <1>6 DEF Selected
<1> QED BY <1>7 DEF b

\* A form with other fields is still the selected body.
LEMMA FormSet ==
    ASSUME NEW b, b \in Selected, b.kind = "form", NEW form, form \in Seq(FormFields)
    PROVE  [b EXCEPT !.form = form] \in Selected
<1> DEFINE u == [b EXCEPT !.form = form]
           F == [name: STRING, raw: Nat, enc: Nat, public: BOOLEAN]
<1>1. b \in BodyTypes
  BY DEF Selected
<1>2. form \in Seq(F)
  <2>1. FormFields \subseteq F
    BY DEF FormFields
  <2> HIDE DEF F
  <2> QED BY <2>1
<1>3. u \in BodyTypes /\ u.generated = b.generated /\ u.kind = b.kind /\ u.form = form
      /\ u.length = b.length /\ u.contentType = b.contentType
  BY <1>1, <1>2 DEF BodyTypes
<1> HIDE DEF u
<1>4. u \in Selected
  BY <1>3 DEF Selected
<1> QED BY <1>4 DEF u

\* A call on one header of the request.
LEMMA HeaderStep ==
    ASSUME BuilderInv, NEW key, key \in Keys, NEW r, NEW v, Changed(r, request, key.name, v),
           Call(r, TakeContentType(key))
    PROVE  BuilderInv'
<1>1. TakeContentType(key) \in Selected
  BY TakenSelected DEF TakeContentType, BuilderInv
<1> QED BY <1>1, ChangedValid, CallStep

\* WithHeader.
LEMMA ClientHeaderStep ==
    ASSUME BuilderInv, WithHeader
    PROVE  BuilderInv'
<1>1. PICK key \in Keys : \E text \in ClientTexts[key.name] :
          Option(setHeaderValues(client, key, <<Value(text, FALSE)>>))
  BY DEF WithHeader
<1>p. PICK text \in ClientTexts[key.name] :
          Option(setHeaderValues(client, key, <<Value(text, FALSE)>>))
  BY <1>1
<1> DEFINE v == <<Value(text, FALSE)>>
           c == setHeaderValues(client, key, v)
<1>2. v \in Occurrences /\ Len(v) = 1 /\ v[1].public = FALSE
  <2>1. FALSE \in BOOLEAN
    OBVIOUS
  <2>2. text \in HeaderTexts
    BY InputTypes
  <2>3. v \in Occurrences /\ Value(text, FALSE).public = FALSE
    BY <2>1, <2>2, ValueType DEF Occurrences
  <2> QED BY <2>3
<1> HIDE DEF v
<1>3. Valid(client) /\ AllPrivate(client) /\ key.name \in HeaderNames
  BY KeyShape DEF BuilderInv
<1>4. Changed(c, client, key.name, v)
  BY <1>2, <1>3, SetLemma DEF Valid
<1>5. \A i \in DOMAIN v : ~v[i].public
  <2>1. DOMAIN v = 1..1
    BY <1>2, SeqShape DEF Occurrences
  <2> QED BY <1>2, <2>1
<1> HIDE DEF c
<1>6. AllPrivate(c)
  BY <1>3, <1>4, <1>5 DEF Changed, AllPrivate
<1>7. Option(c)
  BY <1>p DEF c, v
<1> QED BY <1>4, <1>6, <1>7, ChangedValid, ClientStep

\* WithHeaders.
LEMMA ClientHeadersStep ==
    ASSUME BuilderInv, WithHeaders
    PROVE  BuilderInv'
<1>1. PICK headers \in ClientHeaders :
          Option([client EXCEPT !.headers = [n \in HeaderNames |-> Private(headers[n])],
                                !.ordered = NilObject])
  BY DEF WithHeaders
<1> DEFINE h == [n \in HeaderNames |-> Private(headers[n])]
           c == [client EXCEPT !.headers = h, !.ordered = NilObject]
<1>2. client \in Metadata /\ AllPrivate(client)
  BY DEF BuilderInv, Valid
<1>3. ASSUME NEW n \in HeaderNames
      PROVE  h[n] \in Occurrences /\ \A i \in DOMAIN h[n] : ~h[n][i].public
  <2>1. headers[n] \in Seq(HeaderTexts)
    BY InputTypes
  <2>2. Private(headers[n]) \in Occurrences
    BY <2>1, PrivateType DEF Occurrences
  <2>3. \A i \in DOMAIN Private(headers[n]) : ~Private(headers[n])[i].public
    BY DEF Private, Value
  <2> QED BY <2>2, <2>3
<1>4. h \in [HeaderNames -> Occurrences]
  BY <1>3
<1>5. NilObject \in OrderedStates /\ ~NilObject.active
  BY EmptySingle, ObjectIs DEF OrderedStates
<1> HIDE DEF h
<1>6. c \in Metadata /\ c.headers = h /\ c.ordered = NilObject /\ c.cookies = client.cookies
  BY <1>2, <1>4, <1>5 DEF Metadata
<1>7. Option(c)
  BY <1>1 DEF c, h
<1> HIDE DEF c
<1>8. Valid(c)
  BY <1>5, <1>6 DEF Valid, InSync
<1>9. AllPrivate(c)
  BY <1>2, <1>3, <1>6 DEF AllPrivate
<1> QED BY <1>7, <1>8, <1>9, ClientStep

\* WithOrderedHeaders.
LEMMA ClientOrderedStep ==
    ASSUME BuilderInv, WithOrderedHeaders
    PROVE  BuilderInv'
<1>1. PICK object \in ClientObjects \cup {NilObject} : Option(setOrderedHeaders(client, object))
  BY DEF WithOrderedHeaders
<1> DEFINE c == setOrderedHeaders(client, object)
<1>2. client \in Metadata /\ AllPrivate(client)
  BY DEF BuilderInv, Valid
<1>3. object \in [active: BOOLEAN, entries: Seq(Rows(AnyNames, HeaderTexts))]
      /\ (~object.active => object.entries = <<>>)
  BY InputTypes
<1>4. /\ c \in Metadata /\ InSync(c) /\ c.cookies = client.cookies
      /\ \A n \in HeaderNames : \A i \in DOMAIN c.headers[n] : ~c.headers[n][i].public
  BY <1>2, <1>3, OrderedLemma
<1> HIDE DEF c
<1>5. AllPrivate(c) /\ Valid(c)
  BY <1>2, <1>4 DEF AllPrivate, Valid
<1> QED BY <1>1, <1>5, ClientStep DEF c

\* WithCookies.
LEMMA ClientCookieStep ==
    ASSUME BuilderInv, WithCookies
    PROVE  BuilderInv'
<1>1. PICK c \in ClientCookies :
        Option([client EXCEPT !.cookies = Append(WithoutCookie(client.cookies, c), Value(c, FALSE))])
  BY DEF WithCookies
<1> DEFINE k == WithoutCookie(client.cookies, c)
           x == Value(c, FALSE)
           cs == Append(k, x)
           u == [client EXCEPT !.cookies = cs]
<1>2. Valid(client) /\ AllPrivate(client) /\ client.cookies \in CookieOccurrences
  BY MetadataShape DEF BuilderInv, Valid
<1>3. k \in Seq(Tagged(Words)) /\ \A i \in DOMAIN k : ~k[i].public
  BY <1>2, KeptType DEF AllPrivate, CookieOccurrences
<1>4. x \in Tagged(Words) /\ x.public = FALSE
  <2>1. FALSE \in BOOLEAN
    OBVIOUS
  <2>2. c \in Words
    BY InputTypes
  <2> QED BY <2>1, <2>2, ValueType
<1> HIDE DEF k, x
<1>5. cs \in CookieOccurrences
  BY <1>3, <1>4 DEF CookieOccurrences
<1>6. \A i \in DOMAIN cs : ~cs[i].public
  BY <1>3, <1>4
<1>7. Option(u)
  BY <1>1 DEF k, x
<1> HIDE DEF cs
<1>8. Valid(u) /\ u.headers = client.headers /\ u.cookies = cs
  BY <1>2, <1>5, CookieSet
<1> HIDE DEF u
<1>9. AllPrivate(u)
  BY <1>2, <1>6, <1>8 DEF AllPrivate
<1> QED BY <1>7, <1>8, <1>9, ClientStep

\* WithAuth.
LEMMA ClientAuthStep ==
    ASSUME BuilderInv, WithAuth
    PROVE  BuilderInv'
<1>1. PICK a \in ClientAuths : Option([client EXCEPT !.auth = a])
  BY DEF WithAuth
<1> DEFINE u == [client EXCEPT !.auth = a]
<1>2. Valid(client) /\ AllPrivate(client)
  BY DEF BuilderInv
<1>3. a \in AuthStates
  BY InputTypes
<1>4. Valid(u) /\ u.headers = client.headers /\ u.cookies = client.cookies
  BY <1>2, <1>3, AuthSet
<1> HIDE DEF u
<1>5. AllPrivate(u)
  BY <1>2, <1>4 DEF AllPrivate
<1> QED BY <1>1, <1>4, <1>5, ClientStep DEF u

\* The calls on headers.
LEMMA RequestHeaderSteps ==
    ASSUME BuilderInv, Header \/ AddHeader \/ DelHeader \/ Headers
    PROVE  BuilderInv'
<1>0. request \in Metadata /\ InSync(request)
  BY DEF BuilderInv, Valid
<1>1. CASE Header
  <2>1. PICK key \in Keys, public \in Disclosures : \E text \in RequestTexts[key.name] :
          Call(setHeaderValues(request, key, <<Value(text, public)>>), TakeContentType(key))
    BY <1>1 DEF Header
  <2>p. PICK text \in RequestTexts[key.name] :
          Call(setHeaderValues(request, key, <<Value(text, public)>>), TakeContentType(key))
    BY <2>1
  <2> DEFINE v == <<Value(text, public)>>
  <2>2. v \in Occurrences
    BY InputTypes, ValueType DEF Occurrences
  <2>3. Call(setHeaderValues(request, key, v), TakeContentType(key))
    BY <2>p
  <2> HIDE DEF v
  <2> QED BY <1>0, <2>2, <2>3, SetLemma, HeaderStep
<1>2. CASE AddHeader
  <2>1. PICK key \in Keys, public \in Disclosures : \E text \in RequestTexts[key.name] :
          Call(addHeaderValue(request, key, Value(text, public)), TakeContentType(key))
    BY <1>2 DEF AddHeader
  <2>p. PICK text \in RequestTexts[key.name] :
          Call(addHeaderValue(request, key, Value(text, public)), TakeContentType(key))
    BY <2>1
  <2> DEFINE x == Value(text, public)
  <2>2. x \in Tagged(HeaderTexts)
    BY InputTypes, ValueType
  <2>3. Call(addHeaderValue(request, key, x), TakeContentType(key))
    BY <2>p
  <2> HIDE DEF x
  <2>4. Changed(addHeaderValue(request, key, x), request, key.name, Append(request.headers[key.name], x))
    BY <1>0, <2>2, AddLemma
  <2> QED BY <2>3, <2>4, HeaderStep
<1>3. CASE DelHeader
  <2>1. PICK key \in Keys : Call(delHeader(request, key), TakeContentType(key))
    BY <1>3 DEF DelHeader
  <2>2. Changed(delHeader(request, key), request, key.name, <<>>)
    BY <1>0, DelLemma
  <2> QED BY <2>1, <2>2, HeaderStep
<1>4. CASE Headers
  <2>1. PICK key \in Keys : \E texts \in {<<>>} \cup {<<t>> : t \in RequestTexts[key.name]} :
          Call(setHeaderValues(request, key, Private(texts)), TakeContentType(key))
    BY <1>4 DEF Headers
  <2>p. PICK texts \in {<<>>} \cup {<<t>> : t \in RequestTexts[key.name]} :
          Call(setHeaderValues(request, key, Private(texts)), TakeContentType(key))
    BY <2>1
  <2>a. \A t \in RequestTexts[key.name] : t \in HeaderTexts
    BY InputTypes
  <2>b. texts = <<>> \/ \E t \in HeaderTexts : texts = <<t>>
    BY <2>a
  <2>2. texts \in Seq(HeaderTexts)
    <3>1. <<>> \in Seq(HeaderTexts)
      OBVIOUS
    <3>2. \A t \in HeaderTexts : <<t>> \in Seq(HeaderTexts)
      OBVIOUS
    <3> QED BY <2>b, <3>1, <3>2
  <2> DEFINE v == Private(texts)
  <2>3. v \in Occurrences
    BY <2>2, PrivateType DEF Occurrences
  <2>4. Call(setHeaderValues(request, key, v), TakeContentType(key))
    BY <2>p
  <2> HIDE DEF v
  <2> QED BY <1>0, <2>3, <2>4, SetLemma, HeaderStep
<1> QED BY <1>1, <1>2, <1>3, <1>4

\* The call on the whole ordered object.
LEMMA RequestOrderedStep ==
    ASSUME BuilderInv, OrderedHeadersCall
    PROVE  BuilderInv'
<1>1. PICK object \in RequestObjects \cup {NilObject} :
        Call(setOrderedHeaders(request, object), [body EXCEPT !.generated = FALSE])
  BY DEF OrderedHeadersCall
<1> DEFINE r == setOrderedHeaders(request, object)
<1>2. request \in Metadata /\ body \in Selected
  BY DEF BuilderInv, Valid
<1>3. object \in [active: BOOLEAN, entries: Seq(Rows(AnyNames, HeaderTexts))]
      /\ (~object.active => object.entries = <<>>)
  BY InputTypes
<1>4. r \in Metadata /\ InSync(r)
  BY <1>2, <1>3, OrderedLemma
<1>5. [body EXCEPT !.generated = FALSE] \in Selected
  BY <1>2, TakenSelected
<1> HIDE DEF r
<1>6. Valid(r)
  BY <1>4 DEF Valid
<1> QED BY <1>1, <1>5, <1>6, CallStep DEF r

\* The calls on cookies and authentication.
LEMMA RequestCookieSteps ==
    ASSUME BuilderInv, Cookie \/ DelCookie \/ Auth \/ SpoilAuth
    PROVE  BuilderInv'
<1>0. Valid(request) /\ request \in Metadata /\ body \in Selected /\ request.cookies \in CookieOccurrences
      /\ request.auth \in AuthStates
  BY MetadataShape DEF BuilderInv, Valid
<1>1. ASSUME NEW cs, cs \in CookieOccurrences, Call([request EXCEPT !.cookies = cs], body) PROVE BuilderInv'
  BY <1>0, <1>1, CookieSet, CallStep
<1>2. ASSUME NEW a, a \in AuthStates, Call([request EXCEPT !.auth = a], body) PROVE BuilderInv'
  BY <1>0, <1>2, AuthSet, CallStep
<1>3. CASE Cookie
  <2>1. PICK c \in RequestCookies, public \in Disclosures :
          Call([request EXCEPT !.cookies = Append(request.cookies, Value(c, public))], body)
    BY <1>3 DEF Cookie
  <2>2. Value(c, public) \in Tagged(Words)
    BY InputTypes, ValueType
  <2>3. Append(request.cookies, Value(c, public)) \in CookieOccurrences
    BY <1>0, <2>2 DEF CookieOccurrences
  <2> QED BY <1>1, <2>1, <2>3
<1>4. CASE DelCookie
  <2>1. PICK c \in RequestCookies :
          Call([request EXCEPT !.cookies = WithoutCookie(request.cookies, c)], body)
    BY <1>4 DEF DelCookie
  <2>2. WithoutCookie(request.cookies, c) \in CookieOccurrences
    BY <1>0, KeptType
  <2> QED BY <1>1, <2>1, <2>2
<1>5. CASE Auth
  BY <1>2, <1>5, InputTypes, ErrorStep DEF Auth
<1>6. CASE SpoilAuth
  <2>1. Call([request EXCEPT !.auth = [request.auth EXCEPT !.valid = FALSE]], body)
    BY <1>6 DEF SpoilAuth
  <2>2. [request.auth EXCEPT !.valid = FALSE] \in AuthStates
    BY <1>0 DEF AuthStates
  <2> QED BY <1>2, <2>1, <2>2
<1> QED BY <1>3, <1>4, <1>5, <1>6

\* The calls on the body.
LEMMA BodySteps ==
    ASSUME BuilderInv, SetBody \/ SizedReader \/ RefusedSetting \/ Form \/ FormField \/ DelFormField
    PROVE  BuilderInv'
<1>0. Valid(request) /\ body \in Selected /\ body \in BodyTypes
  BY DEF BuilderInv, Selected
<1>1. CASE SetBody
  BY <1>1, InputTypes, SelectStep DEF SetBody
<1>2. CASE SizedReader
  <2>1. ASSUME NEW b \in Bodies, b.kind = "reader", NEW n \in 0..2, selectBody([b EXCEPT !.length = n])
        PROVE  BuilderInv'
    <3> DEFINE u == [b EXCEPT !.length = n]
    <3>1. b \in Selected /\ b \in BodyTypes
      BY InputTypes DEF Selected
    <3>i. n \in Int
      OBVIOUS
    <3>2. u \in BodyTypes /\ u.kind = "reader"
      BY <2>1, <3>i, <3>1 DEF BodyTypes
    <3> HIDE DEF u
    <3>3. u \in Selected
      BY <3>2 DEF Selected
    <3> QED BY <2>1, <3>3, SelectStep DEF u
  <2> QED BY <1>2, <2>1, ErrorStep DEF SizedReader
<1>3. CASE RefusedSetting
  BY <1>3, ErrorStep DEF RefusedSetting
<1>f. ASSUME NEW f \in Fields, NEW p \in BOOLEAN PROVE <<Field(f, p)>> \in Seq(FormFields)
  BY InputTypes
<1>4. CASE Form
  <2>1. ASSUME NEW f \in Fields, selectBody([FormBody EXCEPT !.form = <<Field(f, FALSE)>>])
        PROVE  BuilderInv'
    <3>1. <<Field(f, FALSE)>> \in Seq(FormFields)
      BY <1>f
    <3> QED BY <2>1, <3>1, FormBodyLemma, SelectStep
  <2> QED BY <1>4, <2>1, ErrorStep DEF Form
<1>5. CASE FormField
  <2>1. PICK f \in Fields, public \in Disclosures :
            IF body.kind = "form"
            THEN Call(request, [body EXCEPT !.form = Append(body.form, Field(f, public))])
            ELSE selectBody([FormBody EXCEPT !.form = <<Field(f, public)>>])
    BY <1>5 DEF FormField
  <2>2. public \in BOOLEAN
    BY InputTypes
  <2>3. CASE body.kind = "form"
    <3>1. body.form \in Seq(FormFields) /\ Field(f, public) \in FormFields
      BY <1>0, <2>2, <2>3, InputTypes DEF Selected
    <3>2. Append(body.form, Field(f, public)) \in Seq(FormFields)
      BY <3>1
    <3> QED BY <1>0, <2>1, <2>3, <3>2, FormSet, CallStep
  <2>4. CASE body.kind # "form"
    <3>1. <<Field(f, public)>> \in Seq(FormFields)
      BY <1>f, <2>2
    <3> QED BY <2>1, <2>4, <3>1, FormBodyLemma, SelectStep
  <2> QED BY <2>3, <2>4
<1>6. CASE DelFormField
  <2>1. PICK f \in Fields : body.kind = "form" /\
          Call(request, [body EXCEPT !.form =
                Keep(body.form, {i \in DOMAIN body.form : body.form[i].name # f.name})])
    BY <1>6 DEF DelFormField
  <2> DEFINE I == {i \in DOMAIN body.form : body.form[i].name # f.name}
             k == Keep(body.form, I)
  <2>2. body.form \in Seq(FormFields)
    BY <1>0, <2>1 DEF Selected
  <2>3. Call(request, [body EXCEPT !.form = k])
    BY <2>1
  <2> HIDE DEF I
  <2>4. k \in Seq(FormFields)
    BY <2>2, KeepType
  <2> HIDE DEF k
  <2> QED BY <1>0, <2>1, <2>3, <2>4, FormSet, CallStep
<1> QED BY <1>1, <1>2, <1>3, <1>4, <1>5, <1>6

\* A new client and a new request satisfy the invariant.
LEMMA BuilderInit ==
    ASSUME Init
    PROVE  BuilderInv
  BY EmptyMetadataLemma DEF Init, BuilderInv

\* Every call keeps it.
LEMMA BuilderNext ==
    ASSUME BuilderInv, BuilderStep
    PROVE  BuilderInv'
<1>1. CASE UNCHANGED <<client, request, body, preparationErr>>
  BY <1>1, SameStep DEF BuilderInv
<1> QED
  BY <1>1, ClientHeaderStep, ClientHeadersStep, ClientOrderedStep, ClientCookieStep, ClientAuthStep,
     RequestHeaderSteps, RequestOrderedStep, RequestCookieSteps, BodySteps DEF BuilderStep, Next

-----------------------------------------------------------------------------
(* Who owns the Content-Type of a request.                                  *)

\* The shape of a metadata record, whatever its ordered object and cookies.
IsMetadata(m) ==
    /\ DOMAIN m = {"headers", "ordered", "cookies", "auth"}
    /\ DOMAIN m.headers = HeaderNames

IsBody(b) == DOMAIN b = {"kind", "contentType", "generated", "public", "size", "source",
                         "length", "form", "multipart"}

\* GeneratedTypeIsSole with the shapes it needs; it is inductive because no
\* call changes the Content-Type header and leaves the mark, except
\* selectBody, which writes both.
OwnershipInv ==
    /\ IsMetadata(request)
    /\ IsBody(body)
    /\ GeneratedTypeIsSole

\* An update of the headers and the ordered object keeps the shape, and the
\* header updated is the only one that changes.
Updated(m, name, values, object) ==
    [m EXCEPT !.headers = [m.headers EXCEPT ![name] = values], !.ordered = object]

\* What such an update does.
LEMMA HeaderLemma ==
    ASSUME NEW m, IsMetadata(m), NEW name \in HeaderNames, NEW values, NEW object
    PROVE  /\ IsMetadata(Updated(m, name, values, object))
           /\ Updated(m, name, values, object).headers[name] = values
           /\ \A n \in HeaderNames \ {name} :
                Updated(m, name, values, object).headers[n] = m.headers[n]
<1> DEFINE u == Updated(m, name, values, object)
<1>1. u.headers = [m.headers EXCEPT ![name] = values]
  BY DEF IsMetadata, Updated
<1>2. IsMetadata(u)
  BY <1>1 DEF IsMetadata, Updated
<1> QED
  BY <1>1, <1>2 DEF IsMetadata

\* selectBody removes a generated type, writes the new one, and nothing else
\* can be left in the header when the new body marks it.
LEMMA SelectBodyLemma ==
    ASSUME OwnershipInv, NEW b, IsBody(b), selectBody(b)
    PROVE  /\ OwnershipInv'
           /\ body' = b
           /\ body.generated => request'.headers[CT] =
                IF b.contentType = <<>> THEN <<>> ELSE <<Value(b.contentType, FALSE)>>
<1> DEFINE r == IF body.generated THEN delHeader(request, Key(CT)) ELSE request
           u == setHeaderValues(r, Key(CT), <<Value(b.contentType, FALSE)>>)
<1>1. Key(CT).name = CT /\ CT \in HeaderNames
  BY DEF Key, HeaderNames
<1>2. /\ IsMetadata(delHeader(request, Key(CT)))
      /\ delHeader(request, Key(CT)).headers[CT] = <<>>
  <2> DEFINE d == delHeader(request, Key(CT))
             object == Ordered(request, deleteOrderedHeader(request.ordered.entries, Key(CT)))
  <2>1. d = Updated(request, CT, <<>>, object)
    BY <1>1 DEF delHeader, Updated
  <2>2. IsMetadata(request)
    BY DEF OwnershipInv
  <2> HIDE DEF d, object
  <2>3. IsMetadata(d) /\ d.headers[CT] = <<>>
    BY <1>1, <2>1, <2>2, HeaderLemma
  <2> QED BY <2>3 DEF d
<1>3. IsMetadata(r) /\ (body.generated => r.headers[CT] = <<>>)
  BY <1>2 DEF OwnershipInv
<1>4. IsMetadata(u) /\ u.headers[CT] = <<Value(b.contentType, FALSE)>>
  <2> DEFINE values == <<Value(b.contentType, FALSE)>>
             object == Ordered(r, setOrderedHeaderValues(r.ordered.entries, Key(CT), Raw(values)))
  <2> HIDE DEF r
  <2>1. u = Updated(r, CT, values, object)
    BY <1>1 DEF setHeaderValues, Updated
  <2> HIDE DEF u, object, values
  <2>2. IsMetadata(u) /\ u.headers[CT] = values
    BY <1>1, <1>3, <2>1, HeaderLemma
  <2> QED BY <2>2 DEF values
<1>5. request' = (IF b.contentType # <<>> THEN u ELSE r) /\ body' = b
  BY DEF selectBody, selectBodyHeaders, Call
<1> HIDE DEF r, u
<1> QED
  BY <1>3, <1>4, <1>5 DEF OwnershipInv, GeneratedTypeIsSole

\* A call on one header keeps the shape and, on Content-Type, takes the mark.
LEMMA HeaderCallLemma ==
    ASSUME OwnershipInv, NEW key \in Keys, NEW values, NEW object,
           Call(Updated(request, key.name, values, object), TakeContentType(key))
    PROVE  OwnershipInv'
<1> DEFINE u == Updated(request, key.name, values, object)
<1>1. key.name \in HeaderNames
  BY DEF Keys
<1>2. /\ IsMetadata(u)
      /\ \A n \in HeaderNames \ {key.name} : u.headers[n] = request.headers[n]
  <2>1. IsMetadata(request)
    BY DEF OwnershipInv
  <2> QED BY <1>1, <2>1, HeaderLemma
<1>3. request' = u /\ body' = TakeContentType(key)
  BY DEF Call
<1> HIDE DEF u
<1>4. IsBody(body')
  BY <1>3 DEF OwnershipInv, IsBody, TakeContentType
<1>5. CASE key.name = CT
  <2>1. body'.generated = FALSE
    BY <1>3, <1>5 DEF OwnershipInv, IsBody, TakeContentType
  <2> QED BY <1>2, <1>3, <1>4, <2>1 DEF OwnershipInv, GeneratedTypeIsSole
<1>6. CASE key.name # CT
  <2>1. CT \in HeaderNames \ {key.name}
    BY <1>6 DEF HeaderNames
  <2>2. request'.headers[CT] = request.headers[CT] /\ body' = body
    BY <1>2, <1>3, <1>6, <2>1 DEF TakeContentType
  <2> QED BY <1>2, <1>3, <1>4, <2>2 DEF OwnershipInv, GeneratedTypeIsSole
<1> QED
  BY <1>5, <1>6

\* A new request satisfies it, and every call keeps it.
LEMMA OwnershipInit ==
    Init => OwnershipInv
  BY DEF Init, OwnershipInv, IsMetadata, IsBody, EmptyMetadata, NoBody, GeneratedTypeIsSole

\* Calls that leave headers and body alone.
LEMMA SameHeadersLemma ==
    ASSUME OwnershipInv, IsMetadata(request'), request'.headers = request.headers,
           IsBody(body'), body'.generated = body.generated, body'.contentType = body.contentType
    PROVE  OwnershipInv'
  BY DEF OwnershipInv, GeneratedTypeIsSole

\* Only selectBody changes the kind of the body.
LEMMA KindLemma ==
    ASSUME OwnershipInv, BuilderStep, body'.kind # body.kind
    PROVE  \E b : IsBody(b) /\ selectBody(b)
<1> USE BuilderAssumption
<1>1. \A b \in Bodies : IsBody(b)
  BY DEF BuilderAssumption, BodyPlans, IsBody
<1>2. \A form : IsBody([FormBody EXCEPT !.form = form])
  BY DEF FormBody, NoBody, IsBody
<1>3. ~ \E class : setPreparationError(class)
  BY DEF setPreparationError
<1>4. ~ \E r, form : Call(r, [body EXCEPT !.form = form])
  BY DEF Call, OwnershipInv, IsBody
<1>5. ~ \E r : Call(r, body) \/ Call(r, [body EXCEPT !.generated = FALSE])
  BY DEF Call, OwnershipInv, IsBody
<1>6. ~ UNCHANGED body
  OBVIOUS
<1>7. CASE SetBody
  BY <1>1, <1>7 DEF SetBody
<1>8. CASE SizedReader
  <2>1. PICK b \in Bodies, n \in 0..2 : selectBody([b EXCEPT !.length = n])
    BY <1>3, <1>8 DEF SizedReader
  <2>2. IsBody([b EXCEPT !.length = n])
    BY <1>1 DEF IsBody
  <2> QED BY <2>1, <2>2
<1>9. CASE Form
  BY <1>2, <1>3, <1>9 DEF Form
<1>10. CASE FormField
  BY <1>2, <1>4, <1>10 DEF FormField
<1>11. ~ (DelFormField \/ RefusedSetting)
  BY <1>3, <1>4 DEF DelFormField, RefusedSetting
<1>12. ~ (Cookie \/ DelCookie \/ Auth \/ SpoilAuth)
  BY <1>3, <1>5 DEF Cookie, DelCookie, Auth, SpoilAuth
<1>13. ~ (Header \/ AddHeader \/ DelHeader \/ Headers \/ OrderedHeadersCall)
  BY <1>5 DEF Header, AddHeader, DelHeader, Headers, OrderedHeadersCall, TakeContentType
<1>14. ~ (WithHeader \/ WithHeaders \/ WithOrderedHeaders \/ WithCookies \/ WithAuth)
  BY <1>6 DEF WithHeader, WithHeaders, WithOrderedHeaders, WithCookies, WithAuth, Option
<1> QED
  BY <1>6, <1>7, <1>8, <1>9, <1>10, <1>11, <1>12, <1>13, <1>14 DEF Next, BuilderStep

\* One step for each call.
LEMMA OwnershipNext ==
    ASSUME OwnershipInv, BuilderStep
    PROVE  OwnershipInv'
<1> USE BuilderAssumption
<1>1. CASE WithHeader \/ WithHeaders \/ WithOrderedHeaders \/ WithCookies \/ WithAuth
  <2>1. UNCHANGED <<request, body>>
    BY <1>1 DEF WithHeader, WithHeaders, WithOrderedHeaders, WithCookies, WithAuth, Option
  <2> QED BY <2>1 DEF OwnershipInv, IsMetadata, IsBody, GeneratedTypeIsSole
<1>2. CASE UNCHANGED <<client, request, body, preparationErr>>
  BY <1>2 DEF OwnershipInv, IsMetadata, IsBody, GeneratedTypeIsSole
<1>3. ASSUME NEW class, setPreparationError(class) PROVE OwnershipInv'
  BY <1>3 DEF setPreparationError, OwnershipInv, IsMetadata, IsBody, GeneratedTypeIsSole
<1>4. CASE Header
  BY <1>4, HeaderCallLemma DEF Header, setHeaderValues, Updated
<1>5. CASE AddHeader
  BY <1>5, HeaderCallLemma DEF AddHeader, addHeaderValue, Updated
<1>6. CASE DelHeader
  BY <1>6, HeaderCallLemma DEF DelHeader, delHeader, Updated
<1>7. CASE Headers
  BY <1>7, HeaderCallLemma DEF Headers, setHeaderValues, Updated
<1>8. CASE OrderedHeadersCall
  <2>1. PICK object : Call(setOrderedHeaders(request, object), [body EXCEPT !.generated = FALSE])
    BY <1>8 DEF OrderedHeadersCall
  <2>2. request' = setOrderedHeaders(request, object) /\ body' = [body EXCEPT !.generated = FALSE]
    BY <2>1 DEF Call
  <2>3. IsMetadata(request')
    BY <2>2 DEF setOrderedHeaders, OwnershipInv, IsMetadata
  <2>4. IsBody(body') /\ body'.generated = FALSE
    BY <2>2 DEF OwnershipInv, IsBody
  <2> QED BY <2>3, <2>4 DEF OwnershipInv, GeneratedTypeIsSole
<1>9. ASSUME NEW cookies, Call([request EXCEPT !.cookies = cookies], body) PROVE OwnershipInv'
  <2>1. request' = [request EXCEPT !.cookies = cookies] /\ body' = body
    BY <1>9 DEF Call
  <2> QED BY <2>1, SameHeadersLemma DEF OwnershipInv, IsMetadata
<1>10. CASE Cookie \/ DelCookie
  BY <1>9, <1>10 DEF Cookie, DelCookie
<1>11. ASSUME NEW auth, Call([request EXCEPT !.auth = auth], body) PROVE OwnershipInv'
  <2>1. request' = [request EXCEPT !.auth = auth] /\ body' = body
    BY <1>11 DEF Call
  <2> QED BY <2>1, SameHeadersLemma DEF OwnershipInv, IsMetadata
<1>12. CASE Auth
  BY <1>3, <1>11, <1>12 DEF Auth
<1>13. CASE SpoilAuth
  <2>1. Call([request EXCEPT !.auth = [request.auth EXCEPT !.valid = FALSE]], body)
    BY <1>13 DEF SpoilAuth
  <2> QED BY <1>11, <2>1
<1>14. ASSUME NEW b, IsBody(b), selectBody(b) PROVE OwnershipInv'
  BY <1>14, SelectBodyLemma
<1>15. \A b \in Bodies : IsBody(b)
  BY DEF BuilderAssumption, BodyPlans, IsBody
<1>16. CASE SetBody
  BY <1>14, <1>15, <1>16 DEF SetBody
<1>17. CASE SizedReader
  <2>1. ASSUME NEW b \in Bodies, NEW n, selectBody([b EXCEPT !.length = n]) PROVE OwnershipInv'
    <3>1. IsBody([b EXCEPT !.length = n])
      BY <1>15 DEF IsBody
    <3> QED BY <1>14, <2>1, <3>1
  <2> QED BY <1>3, <1>17, <2>1 DEF SizedReader
<1>18. CASE RefusedSetting
  BY <1>3, <1>18 DEF RefusedSetting
<1>19. \A form : IsBody([FormBody EXCEPT !.form = form])
  BY DEF FormBody, NoBody, IsBody
<1>20. CASE Form
  <2>1. ASSUME NEW f \in Fields, selectBody([FormBody EXCEPT !.form = <<Field(f, FALSE)>>])
        PROVE  OwnershipInv'
    BY <1>14, <1>19, <2>1
  <2> QED BY <1>3, <1>20, <2>1 DEF Form
<1>21. ASSUME NEW form, Call(request, [body EXCEPT !.form = form]) PROVE OwnershipInv'
  <2>1. request' = request /\ body' = [body EXCEPT !.form = form]
    BY <1>21 DEF Call
  <2> QED BY <2>1, SameHeadersLemma DEF OwnershipInv, IsMetadata, IsBody
<1>22. CASE FormField
  <2>1. PICK f \in Fields, public \in Disclosures :
            IF body.kind = "form"
            THEN Call(request, [body EXCEPT !.form = Append(@, Field(f, public))])
            ELSE selectBody([FormBody EXCEPT !.form = <<Field(f, public)>>])
    BY <1>22 DEF FormField
  <2>2. CASE body.kind = "form"
    BY <1>21, <2>1, <2>2
  <2>3. CASE body.kind # "form"
    BY <1>14, <1>19, <2>1, <2>3
  <2> QED BY <2>2, <2>3
<1>23. CASE DelFormField
  BY <1>21, <1>23 DEF DelFormField
<1> QED
  BY <1>1, <1>2, <1>4, <1>5, <1>6, <1>7, <1>8, <1>10, <1>12, <1>13, <1>16, <1>17, <1>18,
     <1>20, <1>22, <1>23 DEF Next, BuilderStep

-----------------------------------------------------------------------------
(* The layers of the headers.                                               *)

\* OrderedInSync is a part of it.
LEMMA InSyncConsequence ==
    ASSUME BuilderInv
    PROVE  OrderedInSync
<1> SUFFICES ASSUME NEW m, m \in {client, request}, m.ordered.active
             PROVE  /\ \A n \in HeaderNames : ValuesOf(m.ordered, n) = Raw(m.headers[n])
                    /\ OneEntryPerName(m.ordered)
  BY DEF OrderedInSync
<1>1. m \in Metadata /\ InSync(m)
  BY DEF BuilderInv, Valid
<1>2. m.ordered.entries \in Seq(Rows(AnyNames, HeaderTexts)) /\ OnePer(m.ordered.entries)
  BY <1>1, MetadataShape DEF Single
<1>3. OneEntryPerName(m.ordered)
  <2> DEFINE e == m.ordered.entries
  <2>1. DOMAIN e = 1..Len(e) /\ DOMAIN NamesOf(e) = 1..Len(e)
        /\ \A i \in 1..Len(e) : NamesOf(e)[i] = e[i].key.name
    BY <1>2, NamesShape
  <2>2. \A i, j \in DOMAIN NamesOf(e) : NamesOf(e)[i] = NamesOf(e)[j] => i = j
    BY <1>2 DEF OnePer, Distinct
  <2> HIDE DEF e
  <2>3. \A i, j \in DOMAIN e : e[i].key.name = e[j].key.name => i = j
    BY <2>1, <2>2
  <2> QED BY <2>3 DEF e, OneEntryPerName
<1> QED BY <1>1, <1>3 DEF InSync

\* What a layer has under a name, in the ordered object or else in the map,
\* are the values of the header.
Layer(m, n) == IF HasName(m.ordered, n) THEN ValuesOf(m.ordered, n) ELSE Raw(m.headers[n])

\* The layer a client or a request contributes is its header values, whether
\* they come from the ordered object or not.
LEMMA LayerIs ==
    ASSUME NEW m, Valid(m), NEW n, n \in HeaderNames
    PROVE  Layer(m, n) = Raw(m.headers[n]) /\ Raw(m.headers[n]) \in Seq(HeaderTexts)
           /\ (Raw(m.headers[n]) = <<>> <=> m.headers[n] = <<>>)
           /\ (HasName(m.ordered, n) => m.ordered.active)
<1>1. m \in Metadata /\ InSync(m)
  BY DEF Valid
<1>2. m.headers[n] \in Occurrences
  BY <1>1, MetadataShape
<1>3. Raw(m.headers[n]) \in Seq(HeaderTexts) /\ (Raw(m.headers[n]) = <<>> <=> m.headers[n] = <<>>)
  BY <1>2, RawType DEF Occurrences
<1>4. HasName(m.ordered, n) => m.ordered.active
  <2>1. (~m.ordered.active => m.ordered.entries = <<>>)
    BY <1>1, MetadataShape
  <2> QED BY <2>1 DEF HasName
<1>5. HasName(m.ordered, n) => ValuesOf(m.ordered, n) = Raw(m.headers[n])
  BY <1>1, <1>4 DEF InSync
<1> QED BY <1>3, <1>4, <1>5 DEF Layer

\* A method of authentication writes one header.
LEMMA ApplyIs ==
    ASSUME NEW a, a \in AuthStates, NEW h, DOMAIN h = HeaderNames
    PROVE  /\ DOMAIN Apply(a, h) = HeaderNames
           /\ \A n \in HeaderNames :
                Apply(a, h)[n] = IF Active(a, n) THEN <<a.value>> ELSE h[n]
           /\ a.value \in HeaderTexts /\ <<a.value>> \in Seq(HeaderTexts)
<1>1. a.kind \in {"none", "basic", "token", "caller"} /\ a.sets \in HeaderNames /\ a.value \in HeaderTexts
      /\ a.valid \in BOOLEAN
  BY DEF AuthStates
<1>2. CASE a.kind = "none" \/ (a.kind = "token" /\ ~a.valid)
  BY <1>1, <1>2 DEF Apply, Active
<1>3. CASE ~(a.kind = "none" \/ (a.kind = "token" /\ ~a.valid))
  <2>1. Apply(a, h) = [h EXCEPT ![a.sets] = <<a.value>>]
    BY <1>3 DEF Apply
  <2>2. \A n : Active(a, n) <=> a.sets = n
    BY <1>1, <1>3 DEF Active
  <2> QED BY <1>1, <2>1, <2>2
<1> QED BY <1>2, <1>3

\* The overlay takes the request's values where it has a name.
LEMMA OverlayIs ==
    ASSUME NEW m, Valid(m), NEW d, DOMAIN d = HeaderNames,
           \A n \in HeaderNames : d[n] \in Seq(HeaderTexts)
    PROVE  LET o == overlayHeaderValues(d, headerValues(m.headers), m.ordered)
           IN  /\ DOMAIN o = HeaderNames
               /\ \A n \in HeaderNames :
                    o[n] = IF m.headers[n] # <<>> \/ HasName(m.ordered, n)
                           THEN Raw(m.headers[n]) ELSE d[n]
<1> DEFINE h == headerValues(m.headers)
           k == [n \in DOMAIN d |-> IF h[n] # <<>> \/ HasName(m.ordered, n) THEN <<>> ELSE d[n]]
           o == overlayHeaderValues(d, h, m.ordered)
<1>1. DOMAIN k = HeaderNames /\ \A n \in HeaderNames : h[n] = Raw(m.headers[n])
  BY DEF headerValues
<1>2. o = addHeaderValues(k, h, m.ordered)
  BY DEF overlayHeaderValues
<1>3. \A n \in HeaderNames : k[n] = IF h[n] # <<>> \/ HasName(m.ordered, n) THEN <<>> ELSE d[n]
  OBVIOUS
<1> HIDE DEF k, h
<1>4. DOMAIN o = HeaderNames /\ \A n \in HeaderNames :
        o[n] = k[n] \o (IF HasName(m.ordered, n) THEN ValuesOf(m.ordered, n) ELSE h[n])
  BY <1>1, <1>2 DEF addHeaderValues
<1> HIDE DEF o
<1>5. ASSUME NEW n \in HeaderNames
      PROVE  o[n] = IF m.headers[n] # <<>> \/ HasName(m.ordered, n) THEN Raw(m.headers[n]) ELSE d[n]
  <2> DEFINE v == Raw(m.headers[n])
  <2>1. Layer(m, n) = v /\ v \in Seq(HeaderTexts) /\ (v = <<>> <=> m.headers[n] = <<>>)
    BY LayerIs
  <2>2. o[n] = k[n] \o v
    BY <1>1, <1>4, <2>1 DEF Layer
  <2>3. d[n] \in Seq(HeaderTexts)
    OBVIOUS
  <2> HIDE DEF v
  <2>4. CASE m.headers[n] # <<>> \/ HasName(m.ordered, n)
    <3>1. k[n] = <<>>
      BY <1>1, <1>3, <2>1, <2>4 DEF v
    <3>2. o[n] = v
      BY <2>1, <2>2, <3>1, EmptyConcat
    <3> QED BY <2>4, <3>2 DEF v
  <2>5. CASE ~(m.headers[n] # <<>> \/ HasName(m.ordered, n))
    <3>1. k[n] = d[n] /\ v = <<>>
      BY <1>1, <1>3, <2>1, <2>5 DEF v
    <3>2. o[n] = d[n]
      BY <2>2, <2>3, <3>1, EmptyConcat
    <3> QED BY <2>5, <3>2
  <2> QED BY <2>4, <2>5
<1> QED BY <1>4, <1>5 DEF o, h

\* The first layer is the client's headers.
LEMMA BaseIs ==
    ASSUME NEW m, Valid(m)
    PROVE  LET b == addHeaderValues([n \in HeaderNames |-> <<>>], headerValues(m.headers), m.ordered)
           IN  /\ DOMAIN b = HeaderNames
               /\ \A n \in HeaderNames : b[n] = Raw(m.headers[n]) /\ b[n] \in Seq(HeaderTexts)
<1> DEFINE h == headerValues(m.headers)
           k == [n \in HeaderNames |-> <<>>]
           b == addHeaderValues(k, h, m.ordered)
<1>1. \A n \in HeaderNames : h[n] = Raw(m.headers[n])
  BY DEF headerValues
<1>2. DOMAIN k = HeaderNames /\ \A n \in HeaderNames : k[n] = <<>>
  OBVIOUS
<1> HIDE DEF k, h
<1>3. DOMAIN b = HeaderNames /\ \A n \in HeaderNames :
        b[n] = k[n] \o (IF HasName(m.ordered, n) THEN ValuesOf(m.ordered, n) ELSE h[n])
  BY <1>2 DEF addHeaderValues
<1> HIDE DEF b
<1>4. ASSUME NEW n \in HeaderNames PROVE b[n] = Raw(m.headers[n]) /\ b[n] \in Seq(HeaderTexts)
  <2> DEFINE v == Raw(m.headers[n])
  <2>1. Layer(m, n) = v /\ v \in Seq(HeaderTexts)
    BY LayerIs
  <2>2. b[n] = <<>> \o v
    BY <1>1, <1>2, <1>3, <2>1 DEF Layer
  <2> HIDE DEF v
  <2>3. b[n] = v
    BY <2>1, <2>2, EmptyConcat
  <2> QED BY <2>1, <2>3 DEF v
<1> QED BY <1>3, <1>4 DEF b, k, h

\* The values that the layers below the body and the request's method give.
Overlaid(n) ==
    IF request.headers[n] # <<>> \/ HasName(request.ordered, n) THEN Raw(request.headers[n])
    ELSE IF Active(client.auth, n) THEN <<client.auth.value>> ELSE Raw(client.headers[n])

\* The headers sent, layer by layer: the request's method, then cookies, then
\* the type of the body, then what the request and the client set.
LEMMA DeliveredIs ==
    ASSUME BuilderInv
    PROVE  /\ DOMAIN DeliveredHeader = HeaderNames
           /\ \A n \in HeaderNames :
                /\ Overlaid(n) \in Seq(HeaderTexts)
                /\ DeliveredHeader[n] =
                    IF Active(request.auth, n) THEN <<request.auth.value>>
                    ELSE IF n = COOKIE THEN AddCookies(PlanCookies)
                    ELSE IF n = CT /\ ReplacesContentType THEN <<DeliveredBody.contentType>>
                    ELSE Overlaid(n)
<1> DEFINE first == addHeaderValues([n \in HeaderNames |-> <<>>], headerValues(client.headers), client.ordered)
           authed == Apply(client.auth, first)
           overlaid == overlayHeaderValues(authed, headerValues(request.headers), request.ordered)
           typed == IF ReplacesContentType
                    THEN [overlaid EXCEPT ![CT] = <<DeliveredBody.contentType>>] ELSE overlaid
           cooked == [deleteHeaderValues(typed, COOKIE) EXCEPT ![COOKIE] = AddCookies(PlanCookies)]
<1>1. DeliveredHeader = Apply(request.auth, cooked)
  BY DEF DeliveredHeader
<1>2. Valid(client) /\ Valid(request) /\ client.auth \in AuthStates /\ request.auth \in AuthStates
  BY MetadataShape DEF BuilderInv, Valid
<1>3. DOMAIN first = HeaderNames /\ \A n \in HeaderNames : first[n] = Raw(client.headers[n]) /\ first[n] \in Seq(HeaderTexts)
  BY <1>2, BaseIs
<1> HIDE DEF first
<1>4. /\ DOMAIN authed = HeaderNames
      /\ \A n \in HeaderNames : authed[n] = IF Active(client.auth, n) THEN <<client.auth.value>> ELSE Raw(client.headers[n])
  BY <1>2, <1>3, ApplyIs
<1> HIDE DEF authed
<1>t. \A n \in HeaderNames : authed[n] \in Seq(HeaderTexts)
  <2>1. <<client.auth.value>> \in Seq(HeaderTexts)
    BY <1>2, <1>3, ApplyIs
  <2> QED BY <1>3, <1>4, <2>1
<1>5. DOMAIN overlaid = HeaderNames /\ \A n \in HeaderNames :
        overlaid[n] = IF request.headers[n] # <<>> \/ HasName(request.ordered, n)
                      THEN Raw(request.headers[n]) ELSE authed[n]
  BY <1>2, <1>4, <1>t, OverlayIs
<1>6. ASSUME NEW n \in HeaderNames PROVE overlaid[n] = Overlaid(n) /\ Overlaid(n) \in Seq(HeaderTexts)
  <2>1. overlaid[n] = Overlaid(n)
    BY <1>4, <1>5 DEF Overlaid
  <2>2. Raw(request.headers[n]) \in Seq(HeaderTexts)
    BY <1>2, LayerIs
  <2> QED BY <2>1, <2>2, <1>4, <1>t DEF Overlaid
<1> HIDE DEF overlaid
<1>7. DOMAIN typed = HeaderNames /\ \A n \in HeaderNames :
        typed[n] = IF n = CT /\ ReplacesContentType THEN <<DeliveredBody.contentType>> ELSE Overlaid(n)
  BY <1>5, <1>6
<1> HIDE DEF typed
<1>8. DOMAIN cooked = HeaderNames /\ \A n \in HeaderNames :
        cooked[n] = IF n = COOKIE THEN AddCookies(PlanCookies) ELSE typed[n]
  BY <1>7 DEF deleteHeaderValues
<1> HIDE DEF cooked
<1>9. DOMAIN DeliveredHeader = HeaderNames /\ \A n \in HeaderNames :
        DeliveredHeader[n] = IF Active(request.auth, n) THEN <<request.auth.value>> ELSE cooked[n]
  BY <1>1, <1>2, <1>8, ApplyIs
<1> QED BY <1>6, <1>7, <1>8, <1>9

\* LaterLayerReplaces follows.
LEMMA LaterLayerConsequence ==
    ASSUME BuilderInv
    PROVE  LaterLayerReplaces
  BY DeliveredIs DEF LaterLayerReplaces, Overlaid

-----------------------------------------------------------------------------
(* Exits, bodies and budgets.                                               *)

\* ExitsAgree follows: the exits share their checks.
LEMMA ExitsConsequence ==
    ASSUME BuilderInv
    PROVE  ExitsAgree
<1>1. ASSUME NEW budget \in Budgets, PrepareErr(budget) = "none" PROVE PreviewErr = "none"
  <2>1. /\ preparationErr = "none"
        /\ validatePreparationBodyShape(body, headerValues(request.headers)) = "none"
        /\ multipartManifestErr(body) = "none"
        /\ builtInAuthShape(client.auth) \notin {"invalid", "unknown"}
        /\ builtInAuthShape(request.auth) \notin {"invalid", "unknown"}
    BY <1>1 DEF PrepareErr
  <2>2. AuthShapes \cap {"invalid", "unknown"} = {}
    BY <2>1 DEF AuthShapes
  <2>3. previewBodyErr(body, headerValues(request.headers)) = "none"
    BY <2>1 DEF validatePreparationBodyShape, multipartManifestErr, previewBodyErr
  <2> QED BY <2>1, <2>2, <2>3 DEF PreviewErr
<1>2. ASSUME PreviewErr = "none" PROVE DeliveryPreflight = "none"
  <2>1. preparationErr = "none" /\ previewBodyErr(body, headerValues(request.headers)) = "none"
    BY <1>2 DEF PreviewErr
  <2> QED BY <2>1 DEF DeliveryPreflight, previewBodyErr, validateDeliveryPreflightFacts
<1> QED BY <1>1, <1>2 DEF ExitsAgree, Prepares

\* The parts of a selected body.
LEMMA SelectedShape ==
    ASSUME NEW b, b \in Selected
    PROVE  /\ b.kind \in {"none", "json", "xml", "yaml", "text", "bytes", "reader", "form", "multipart"}
           /\ b.size \in Nat /\ b.length \in Int /\ b.generated \in BOOLEAN /\ b.public \in BOOLEAN
           /\ b.contentType \in HeaderTexts
           /\ b.form \in Seq([name: STRING, raw: Nat, enc: Nat, public: BOOLEAN])
           /\ b.multipart.replay \in BOOLEAN /\ b.multipart.fits \in BOOLEAN
           /\ b.kind = "form" => b.form \in Seq(FormFields)
           /\ b.kind # "reader" => b.length = -1
           /\ b.kind = "none" => ~b.generated
  BY DEF Selected, BodyTypes

\* What buildDeliveryBody gives when it does not fail.
LEMMA OpenedBody ==
    ASSUME NEW b, b \in Selected, NEW h, buildDeliveryBody(b, h).err = "none"
    PROVE  /\ b.kind = "none" => buildDeliveryBody(b, h) = OneShot(0, <<>>)
           /\ b.kind \in Typed => buildDeliveryBody(b, h) = Replayable(EncodedSize, Get(h, CT))
                                  /\ Get(h, CT) # <<>>
           /\ b.kind \in {"text", "bytes"} => buildDeliveryBody(b, h) = Replayable(b.size, Get(h, CT))
           /\ b.kind = "form" => buildDeliveryBody(b, h) = Replayable(EncodedLength(b.form), Get(h, CT))
           /\ b.kind = "reader" => \/ b.length >= 0 /\ buildDeliveryBody(b, h) = OneShot(b.length, Get(h, CT))
                                   \/ b.length < 0 /\ buildDeliveryBody(b, h).contentType = Get(h, CT)
           /\ b.kind = "multipart" =>
                /\ buildDeliveryBody(b, h).getBody = b.multipart.replay
                /\ buildDeliveryBody(b, h).contentType =
                        IF b.generated THEN <<"multipart", "boundary">> ELSE <<>>
<1> DEFINE d == buildDeliveryBody(b, h)
<1>1. b.kind \in {"none", "json", "xml", "yaml", "text", "bytes", "reader", "form", "multipart"}
      /\ b.length \in Int /\ b.multipart.replay \in BOOLEAN
  BY SelectedShape
<1>2. ASSUME NEW e, e # "none" PROVE Refused(e).err # "none"
  BY <1>2 DEF Refused, OneShot
<1>n. CASE b.kind = "none"
  BY <1>n DEF buildDeliveryBody, Typed
<1>j. CASE b.kind \in Typed
  <2>1. d = IF Get(h, CT) = <<>> THEN Refused("unsupported")
            ELSE IF b.source = "broken" THEN Refused("encode")
            ELSE Replayable(EncodedSize, Get(h, CT))
    BY <1>j DEF buildDeliveryBody, Typed
  <2> QED BY <1>2, <1>j, <2>1 DEF Typed
<1>t. CASE b.kind \in {"text", "bytes"}
  BY <1>t DEF buildDeliveryBody, Typed
<1>f. CASE b.kind = "form"
  BY <1>f DEF buildDeliveryBody, Typed
<1>r. CASE b.kind = "reader"
  <2>1. d = IF b.length >= 0 THEN OneShot(b.length, Get(h, CT))
            ELSE IF b.source = "broken" THEN Refused("read")
            ELSE IF b.source = "sized" THEN Replayable(b.size, Get(h, CT))
            ELSE OneShot(Unknown, Get(h, CT))
    BY <1>r DEF buildDeliveryBody, Typed
  <2> QED BY <1>1, <1>2, <1>r, <2>1 DEF Typed, OneShot, Replayable
<1>m. CASE b.kind = "multipart"
  <2> DEFINE t == IF b.generated THEN <<"multipart", "boundary">> ELSE <<>>
  <2>1. d = IF ~b.multipart.replay THEN OneShot(Unknown, t)
            ELSE IF ~b.multipart.fits THEN Refused("read")
            ELSE Replayable(EncodedSize, t)
    BY <1>m DEF buildDeliveryBody, Typed
  <2> HIDE DEF t, d
  <2>2. d.getBody = b.multipart.replay /\ d.contentType = t
    <3>0. d.err = "none"
      BY DEF d
    <3>1. CASE ~b.multipart.replay
      <4>1. d = OneShot(Unknown, t)
        BY <2>1, <3>1
      <4>2. d.getBody = FALSE /\ d.contentType = t
        BY <4>1 DEF OneShot
      <4> QED BY <1>1, <3>1, <4>2
    <3>2. CASE b.multipart.replay
      <4>1. d = Replayable(EncodedSize, t)
        BY <1>2, <2>1, <3>0, <3>2
      <4>2. d.getBody = TRUE /\ d.contentType = t
        BY <4>1 DEF Replayable
      <4> QED BY <1>1, <3>2, <4>2
    <3> QED BY <3>1, <3>2
  <2> QED BY <1>m, <2>2 DEF Typed, t, d
<1> QED BY <1>1, <1>n, <1>j, <1>t, <1>f, <1>r, <1>m DEF Typed

\* PreviewBodyTruthful follows.
LEMMA PreviewBodyConsequence ==
    ASSUME BuilderInv
    PROVE  PreviewBodyTruthful
<1> SUFFICES ASSUME DeliveredBody.err = "none"
             PROVE  /\ previewBody(body).lengthKnown => previewBody(body).length = DeliveredBody.length
                    /\ previewBody(body).replayabilityKnown =>
                        previewBody(body).replayable = DeliveredBody.getBody
  BY DEF PreviewBodyTruthful, Sends
<1> DEFINE d == DeliveredBody
           p == previewBody(body)
<1>1. body \in Selected
  BY DEF BuilderInv
<1>2. /\ body.kind \in {"none", "json", "xml", "yaml", "text", "bytes", "reader", "form", "multipart"}
      /\ body.length \in Int /\ body.size \in Nat /\ body.multipart.replay \in BOOLEAN
      /\ (body.kind # "reader" => body.length = -1)
  BY <1>1, SelectedShape
<1>3. /\ p.lengthKnown <=> body.kind \in {"text", "bytes"} \/ body.length >= 0
      /\ p.length = IF body.kind = "reader" THEN body.length ELSE body.size
      /\ p.replayable <=> \/ body.kind \in Typed \cup {"text", "bytes", "form"}
                          \/ body.kind = "multipart" /\ body.multipart.replay
      /\ p.replayabilityKnown <=> body.kind \notin {"none", "reader"} \/ body.length >= 0
      /\ p.replayable \in BOOLEAN
  BY DEF previewBody
<1>4. ASSUME NEW l, NEW t PROVE /\ Replayable(l, t).length = l /\ Replayable(l, t).getBody = TRUE
                                /\ OneShot(l, t).length = l /\ OneShot(l, t).getBody = FALSE
  BY DEF Replayable, OneShot
<1> DEFINE h == headerValues(request.headers)
<1>5. d = buildDeliveryBody(body, h) /\ d.err = "none"
  BY DEF DeliveredBody
<1> HIDE DEF d, h, p
<1>n. CASE body.kind = "none"
  <2>1. ~p.lengthKnown /\ ~p.replayabilityKnown
    BY <1>2, <1>3, <1>n
  <2> QED BY <2>1 DEF p
<1>j. CASE body.kind \in Typed
  <2>1. d = Replayable(EncodedSize, Get(h, CT))
    BY <1>1, <1>5, <1>j, OpenedBody
  <2>2. ~p.lengthKnown /\ p.replayable = TRUE
    BY <1>2, <1>3, <1>j DEF Typed
  <2> QED BY <1>4, <2>1, <2>2 DEF d, p
<1>t. CASE body.kind \in {"text", "bytes"}
  <2>1. d = Replayable(body.size, Get(h, CT))
    BY <1>1, <1>5, <1>t, OpenedBody
  <2>2. p.length = body.size /\ p.replayable = TRUE
    BY <1>2, <1>3, <1>t
  <2> QED BY <1>4, <2>1, <2>2 DEF d, p
<1>f. CASE body.kind = "form"
  <2>1. d = Replayable(EncodedLength(body.form), Get(h, CT))
    BY <1>1, <1>5, <1>f, OpenedBody
  <2>2. ~p.lengthKnown /\ p.replayable = TRUE
    BY <1>2, <1>3, <1>f
  <2> QED BY <1>4, <2>1, <2>2 DEF d, p
<1>r. CASE body.kind = "reader"
  <2>1. CASE body.length >= 0
    <3>1. d = OneShot(body.length, Get(h, CT))
      BY <1>1, <1>2, <1>5, <1>r, <2>1, OpenedBody
    <3>2. p.length = body.length /\ p.replayable = FALSE
      BY <1>3, <1>r DEF Typed
    <3> QED BY <1>4, <3>1, <3>2 DEF d, p
  <2>2. CASE ~(body.length >= 0)
    BY <1>3, <1>r, <2>2 DEF p
  <2> QED BY <2>1, <2>2
<1>m. CASE body.kind = "multipart"
  <2>1. d.getBody = body.multipart.replay
    BY <1>1, <1>5, <1>m, OpenedBody
  <2>2. ~p.lengthKnown /\ p.replayable = body.multipart.replay
    BY <1>2, <1>3, <1>m DEF Typed
  <2> QED BY <2>1, <2>2 DEF d, p
<1> QED BY <1>2, <1>n, <1>j, <1>t, <1>f, <1>r, <1>m DEF Typed

\* The early bound on a form never exceeds its encoded length.
LEMMA RawIsLeast ==
    ASSUME NEW form, form \in Seq(FormFields)
    PROVE  RawLength(form) \in Nat /\ EncodedLength(form) \in Nat /\ RawLength(form) <= EncodedLength(form)
<1> DEFINE s == [i \in DOMAIN form |-> form[i].raw + 1]
           t == [i \in DOMAIN form |-> form[i].enc + 1]
           k == IF form = <<>> THEN 0 ELSE Len(form) - 1
<1>1. DOMAIN form = 1..Len(form) /\ Len(form) \in Nat /\ (form = <<>> <=> Len(form) = 0)
      /\ \A i \in 1..Len(form) : form[i] \in FormFields
  BY SeqShape
<1>2. \A i \in 1..Len(form) : form[i].raw \in Nat /\ form[i].enc \in Nat /\ form[i].raw <= form[i].enc
  BY <1>1 DEF FormFields
<1>3. s \in Seq(Nat) /\ t \in Seq(Nat) /\ Len(s) = Len(form) /\ Len(t) = Len(form)
  BY <1>1, <1>2
<1>4. \A i \in 1..Len(s) : s[i] <= t[i]
  BY <1>1, <1>2, <1>3
<1>5. k \in Nat
  BY <1>1
<1>6. RawLength(form) = Total(s) + k /\ EncodedLength(form) = Total(t) + k
  BY DEF RawLength, EncodedLength
<1> HIDE DEF s, t, k
<1>7. Total(s) \in Nat /\ Total(t) \in Nat /\ Total(s) <= Total(t)
  BY <1>3, <1>4, TotalMonotone
<1> QED BY <1>5, <1>6, <1>7

\* What PrepareErr finds before it looks at the size of the body.
Checked(budget) ==
    /\ preparationErr = "none" /\ budget >= 0
    /\ validatePreparationBodyShape(body, headerValues(request.headers)) = "none"
    /\ builtInAuthShape(client.auth) \notin {"invalid", "unknown"}
    /\ builtInAuthShape(request.auth) \notin {"invalid", "unknown"}

\* When PrepareErr is tooLarge and when it is none.
LEMMA PrepareCases ==
    ASSUME BuilderInv, NEW budget, budget \in Int
    PROVE  /\ PrepareErr(budget) = "tooLarge" <=> Checked(budget) /\ BodyTooLarge(budget)
           /\ PrepareErr(budget) = "none" <=>
                Checked(budget) /\ ~BodyTooLarge(budget) /\ multipartManifestErr(body) = "none"
<1>1. preparationErr \in {"none", "config", "form"}
  BY DEF BuilderInv
<1>2. validatePreparationBodyShape(body, headerValues(request.headers)) \in {"unsupported", "config", "none"}
  BY DEF validatePreparationBodyShape
<1>3. multipartManifestErr(body) \in {"config", "none"}
  BY DEF multipartManifestErr
<1> QED BY <1>1, <1>2, <1>3 DEF PrepareErr, Checked

\* BudgetExact follows.
LEMMA BudgetConsequence ==
    ASSUME BuilderInv
    PROVE  BudgetExact
<1> DEFINE Shown == \/ body.kind \in {"text", "bytes"} /\ body.public
                    \/ body.kind = "form" /\ body.form # <<>>
                         /\ ~\E i \in DOMAIN body.form : ~body.form[i].public
<1> SUFFICES ASSUME NEW budget \in Budgets, budget >= 0
             PROVE  (PrepareErr(budget) = "tooLarge") <=>
                        /\ PrepareErr(LeastBudget) = "none"
                        /\ DeliveredBody.length > budget
                        /\ Shown
  BY DEF BudgetExact
<1>1. budget \in Int
  BY BudgetAssumption DEF BudgetAssumption
<1>2. BodyShown <=> Shown
  BY DEF BodyShown, preparedFormAllPublic
<1>3. body \in Selected
  BY DEF BuilderInv
<1>4. body.size \in Nat /\ (body.kind = "form" => body.form \in Seq(FormFields))
  BY <1>3, SelectedShape
<1> DEFINE l == DeliveredBody.length
<1>5. ASSUME Shown
      PROVE  /\ l \in Nat /\ LeastBudget = l /\ multipartManifestErr(body) = "none"
             /\ \A b \in Nat : BodyTooLarge(b) <=> l > b
  <2> HIDE DEF Shown
  <2>1. CASE body.kind \in {"text", "bytes"}
    <3>1. DeliveredBody = Replayable(body.size, Get(headerValues(request.headers), CT))
      BY <2>1 DEF DeliveredBody, buildDeliveryBody, Typed
    <3>2. l = body.size
      BY <3>1 DEF Replayable
    <3> HIDE DEF l
    <3>3. multipartManifestErr(body) = "none"
      BY <2>1 DEF multipartManifestErr
    <3>4. \A b \in Nat : BodyTooLarge(b) <=> l > b
      BY <1>2, <1>5, <2>1, <3>2 DEF BodyTooLarge
    <3>5. LeastBudget = l
      BY <1>4, <3>2 DEF LeastBudget, l
    <3> QED BY <1>4, <3>2, <3>3, <3>4, <3>5
  <2>2. CASE body.kind = "form"
    <3>1. DeliveredBody = Replayable(EncodedLength(body.form), Get(headerValues(request.headers), CT))
      BY <2>2 DEF DeliveredBody, buildDeliveryBody, Typed
    <3>2. l = EncodedLength(body.form)
      BY <3>1 DEF Replayable
    <3> HIDE DEF l
    <3>3. multipartManifestErr(body) = "none"
      BY <2>2 DEF multipartManifestErr
    <3>r. RawLength(body.form) \in Nat /\ l \in Nat /\ RawLength(body.form) <= l
      BY <1>4, <2>2, <3>2, RawIsLeast
    <3>4. \A b \in Nat : BodyTooLarge(b) <=> l > b
      BY <1>2, <1>5, <2>2, <3>2, <3>r DEF BodyTooLarge
    <3>5. LeastBudget = l
      BY <3>r DEF LeastBudget, l
    <3> QED BY <3>r, <3>3, <3>4, <3>5
  <2> QED BY <1>5, <2>1, <2>2 DEF Shown
<1> HIDE DEF l, Shown
<1>6. BodyTooLarge(budget) => Shown
  BY <1>2 DEF BodyTooLarge
<1>7. ASSUME PrepareErr(budget) = "tooLarge" PROVE PrepareErr(LeastBudget) = "none" /\ l > budget /\ Shown
  <2>1. Checked(budget) /\ BodyTooLarge(budget)
    BY <1>1, <1>7, PrepareCases
  <2>2. Shown
    BY <1>6, <2>1
  <2>3. /\ l \in Nat /\ LeastBudget = l /\ multipartManifestErr(body) = "none"
        /\ \A b \in Nat : BodyTooLarge(b) <=> l > b
    BY <1>5, <2>2
  <2>4. l > budget
    BY <1>1, <2>1, <2>3
  <2>5. Checked(LeastBudget)
    BY <2>1, <2>3 DEF Checked
  <2>6. ~BodyTooLarge(LeastBudget) /\ LeastBudget \in Int
    BY <2>3
  <2> QED BY <2>2, <2>3, <2>4, <2>5, <2>6, PrepareCases
<1>8. ASSUME PrepareErr(LeastBudget) = "none", l > budget, Shown PROVE PrepareErr(budget) = "tooLarge"
  <2>3. /\ l \in Nat /\ LeastBudget = l
        /\ \A b \in Nat : BodyTooLarge(b) <=> l > b
    BY <1>5, <1>8
  <2>4. Checked(LeastBudget)
    BY <1>8, <2>3, PrepareCases
  <2>5. Checked(budget)
    BY <2>4 DEF Checked
  <2>6. BodyTooLarge(budget)
    BY <1>1, <1>8, <2>3
  <2> QED BY <1>1, <2>5, <2>6, PrepareCases
<1> QED BY <1>7, <1>8 DEF l

-----------------------------------------------------------------------------
(* Cookies.                                                                 *)

CookieNames(s) == {CookieName[x.value] : x \in ToSet(s)}
\* p has the cookies of s whose names are not in W.
From(p, s, W) == \A x : x \in ToSet(p) <=> x \in ToSet(s) /\ CookieName[x.value] \notin W
Both(a, b) == a \cup b

\* The cookies whose names are not in a set.
LEMMA KeepFrom ==
    ASSUME NEW s, s \in CookieOccurrences, NEW I, NEW W,
           \A i \in 1..Len(s) : i \in I <=> CookieName[s[i].value] \notin W
    PROVE  Keep(s, I) \in CookieOccurrences /\ From(Keep(s, I), s, W)
<1>0. s \in Seq(Tagged(Words)) /\ DOMAIN s = 1..Len(s)
  BY SeqShape DEF CookieOccurrences
<1> DEFINE k == Keep(s, I)
<1>1. k \in CookieOccurrences
  BY <1>0, KeepType DEF CookieOccurrences
<1>k. k = Keep(s, I)
  OBVIOUS
<1> HIDE DEF k
<1>2. /\ \A j \in DOMAIN k : \E i \in I \cap 1..Len(s) : k[j] = s[i]
      /\ \A i \in I \cap 1..Len(s) : \E j \in DOMAIN k : k[j] = s[i]
  BY <1>0, <1>k, KeepMembers
<1>3. \A x : x \in ToSet(k) <=> \E j \in DOMAIN k : x = k[j]
  BY DEF ToSet
<1>4. \A x : x \in ToSet(s) <=> \E j \in 1..Len(s) : x = s[j]
  BY <1>0 DEF ToSet
<1>5. From(k, s, W)
  BY <1>2, <1>3, <1>4 DEF From
<1> QED BY <1>1, <1>5 DEF k

\* Of four layers, the last is kept whole and the others without the names of
\* later ones.
MergesTo(u, a, b, c, d, p, q, r) ==
    /\ p \in CookieOccurrences /\ q \in CookieOccurrences /\ r \in CookieOccurrences
    /\ IsMerged(u, p, q, r, d)
    /\ From(p, a, Both(Both(CookieNames(b), CookieNames(c)), CookieNames(d)))
    /\ From(q, b, Both(CookieNames(c), CookieNames(d)))
    /\ From(r, c, CookieNames(d))

\* Of each layer the merge keeps the names that no later layer has.
LEMMA MergeFour ==
    ASSUME NEW a, a \in CookieOccurrences, NEW b, b \in CookieOccurrences,
           NEW c, c \in CookieOccurrences, NEW d, d \in CookieOccurrences
    PROVE  \E p, q, r : MergesTo(mergeCookieOccurrences(<<a, b, c, d>>), a, b, c, d, p, q, r)
<1> DEFINE L == <<a, b, c, d>>
           J(l) == {i \in DOMAIN L[l] : ~\E k \in DOMAIN L : k > l /\
                        \E j \in DOMAIN L[k] : CookieName[L[k][j].value] = CookieName[L[l][i].value]}
           F == [l \in DOMAIN L |-> Keep(L[l], J(l))]
           u == mergeCookieOccurrences(L)
<1>1. u = FlattenSeq(F)
  BY DEF mergeCookieOccurrences
<1>2. DOMAIN L = 1..4 /\ L[1] = a /\ L[2] = b /\ L[3] = c /\ L[4] = d
  OBVIOUS
<1>3. /\ DOMAIN a = 1..Len(a) /\ DOMAIN b = 1..Len(b) /\ DOMAIN c = 1..Len(c) /\ DOMAIN d = 1..Len(d)
  BY SeqShape DEF CookieOccurrences
<1>n. ASSUME NEW s, NEW n
      PROVE n \in CookieNames(s) <=> \E j \in DOMAIN s : CookieName[s[j].value] = n
  BY DEF CookieNames, ToSet
<1> HIDE DEF L
<1>4. \A i \in 1..Len(a) : i \in J(1) <=>
        CookieName[a[i].value] \notin Both(Both(CookieNames(b), CookieNames(c)), CookieNames(d))
  <2> TAKE i \in 1..Len(a)
  <2> DEFINE n == CookieName[a[i].value]
  <2>1. i \in J(1) <=> ~\E k \in DOMAIN L : k > 1 /\ \E j \in DOMAIN L[k] : CookieName[L[k][j].value] = n
    BY <1>2, <1>3
  <2> HIDE DEF J, n
  <2>2. i \in J(1) <=> ~\E k \in DOMAIN L : k > 1 /\ n \in CookieNames(L[k])
    BY <2>1, <1>n
  <2>3. (\E k \in DOMAIN L : k > 1 /\ n \in CookieNames(L[k])) <=>
            n \in CookieNames(b) \/ n \in CookieNames(c) \/ n \in CookieNames(d)
    BY <1>2
  <2> QED BY <2>2, <2>3 DEF Both, n
<1>5. \A i \in 1..Len(b) : i \in J(2) <=>
        CookieName[b[i].value] \notin Both(CookieNames(c), CookieNames(d))
  <2> TAKE i \in 1..Len(b)
  <2> DEFINE n == CookieName[b[i].value]
  <2>1. i \in J(2) <=> ~\E k \in DOMAIN L : k > 2 /\ \E j \in DOMAIN L[k] : CookieName[L[k][j].value] = n
    BY <1>2, <1>3
  <2> HIDE DEF J, n
  <2>2. i \in J(2) <=> ~\E k \in DOMAIN L : k > 2 /\ n \in CookieNames(L[k])
    BY <2>1, <1>n
  <2>3. (\E k \in DOMAIN L : k > 2 /\ n \in CookieNames(L[k])) <=>
            n \in CookieNames(c) \/ n \in CookieNames(d)
    BY <1>2
  <2> QED BY <2>2, <2>3 DEF Both, n
<1>6. \A i \in 1..Len(c) : i \in J(3) <=> CookieName[c[i].value] \notin CookieNames(d)
  <2> TAKE i \in 1..Len(c)
  <2> DEFINE n == CookieName[c[i].value]
  <2>1. i \in J(3) <=> ~\E k \in DOMAIN L : k > 3 /\ \E j \in DOMAIN L[k] : CookieName[L[k][j].value] = n
    BY <1>2, <1>3
  <2> HIDE DEF J, n
  <2>2. i \in J(3) <=> ~\E k \in DOMAIN L : k > 3 /\ n \in CookieNames(L[k])
    BY <2>1, <1>n
  <2>3. (\E k \in DOMAIN L : k > 3 /\ n \in CookieNames(L[k])) <=> n \in CookieNames(d)
    BY <1>2
  <2> QED BY <2>2, <2>3 DEF n
<1>7. \A i \in 1..Len(d) : i \in J(4)
  <2> TAKE i \in 1..Len(d)
  <2>1. ~\E k \in DOMAIN L : k > 4
    BY <1>2
  <2> QED BY <1>2, <1>3, <2>1
<1> HIDE DEF J
<1> DEFINE p == Keep(a, J(1))
           q == Keep(b, J(2))
           r == Keep(c, J(3))
<1>8. p \in CookieOccurrences /\ From(p, a, Both(Both(CookieNames(b), CookieNames(c)), CookieNames(d)))
  BY <1>4, KeepFrom
<1>9. q \in CookieOccurrences /\ From(q, b, Both(CookieNames(c), CookieNames(d)))
  BY <1>5, KeepFrom
<1>10. r \in CookieOccurrences /\ From(r, c, CookieNames(d))
  BY <1>6, KeepFrom
<1>11. Keep(d, J(4)) = d
  BY <1>7, KeepAll DEF CookieOccurrences
<1>12. DOMAIN F = 1..4 /\ F[1] = p /\ F[2] = q /\ F[3] = r /\ F[4] = d
  BY <1>2, <1>11
<1> HIDE DEF p, q, r
<1>13. F = <<p, q, r, d>>
  <2>1. F = [l \in 1..4 |-> F[l]]
    BY <1>2
  <2> HIDE DEF F
  <2>2. F \in Seq(CookieOccurrences) /\ Len(F) = 4
    <3>1. \A l \in 1..4 : F[l] \in CookieOccurrences
      BY <1>8, <1>9, <1>10, <1>12
    <3> QED BY <2>1, <3>1
  <2>3. <<p, q, r, d>> \in Seq(CookieOccurrences) /\ Len(<<p, q, r, d>>) = 4
    BY <1>8, <1>9, <1>10
  <2>4. \A l \in 1..4 : F[l] = <<p, q, r, d>>[l]
    BY <1>12
  <2> QED BY <2>2, <2>3, <2>4, SeqEqual
<1>14. IsMerged(u, p, q, r, d)
  <2>1. p \in Seq(Tagged(Words)) /\ q \in Seq(Tagged(Words)) /\ r \in Seq(Tagged(Words))
        /\ d \in Seq(Tagged(Words))
    BY <1>8, <1>9, <1>10 DEF CookieOccurrences
  <2>2. u = FlattenSeq(<<p, q, r, d>>)
    BY <1>1, <1>13
  <2> HIDE DEF u
  <2> QED BY <2>1, <2>2, FlattenFour
<1>15. MergesTo(u, a, b, c, d, p, q, r)
  BY <1>8, <1>9, <1>10, <1>14 DEF MergesTo
<1> QED BY <1>15 DEF L

\* A concatenation, by name.
LEMMA JoinedShape ==
    ASSUME NEW A, NEW s, s \in Seq(A), NEW t, t \in Seq(A), NEW u, Joined(u, s, t)
    PROVE  IsConcat(u, s, t) /\ u \in Seq(A)
  BY ConcatShape DEF Joined

\* Its members.
LEMMA ConcatMembers ==
    ASSUME NEW A, NEW s, s \in Seq(A), NEW t, t \in Seq(A), NEW u, Joined(u, s, t)
    PROVE  \A x : x \in ToSet(u) <=> x \in ToSet(s) \/ x \in ToSet(t)
<1>1. IsConcat(u, s, t) /\ u \in Seq(A)
  BY JoinedShape
<1>2. DOMAIN s = 1..Len(s) /\ DOMAIN t = 1..Len(t) /\ DOMAIN u = 1..Len(u)
  BY <1>1, SeqShape
<1>3. /\ \A x : x \in ToSet(u) <=> \E i \in 1..Len(u) : u[i] = x
      /\ \A x : x \in ToSet(s) <=> \E i \in 1..Len(s) : s[i] = x
      /\ \A x : x \in ToSet(t) <=> \E i \in 1..Len(t) : t[i] = x
  BY <1>2 DEF ToSet
<1>4. /\ \A i \in 1..Len(s) : u[i] = s[i] /\ i \in 1..Len(u)
      /\ \A i \in 1..Len(t) : \E k \in 1..Len(u) : u[k] = t[i]
      /\ \A i \in 1..Len(u) : (i \in 1..Len(s) /\ u[i] = s[i]) \/ \E j \in 1..Len(t) : u[i] = t[j]
  BY <1>1 DEF IsConcat
<1> QED BY <1>3, <1>4

\* The members of Raw.
LEMMA RawMembers ==
    ASSUME NEW A, NEW s, s \in Seq(Tagged(A))
    PROVE  \A x : x \in ToSet(Raw(s)) <=> \E y \in ToSet(s) : y.value = x
<1>1. DOMAIN Raw(s) = 1..Len(s) /\ DOMAIN s = 1..Len(s) /\ \A i \in 1..Len(s) : Raw(s)[i] = s[i].value
  BY RawType, SeqShape
<1> QED BY <1>1 DEF ToSet

\* Raw of a concatenation.
LEMMA RawConcat ==
    ASSUME NEW A, NEW s, s \in Seq(Tagged(A)), NEW t, t \in Seq(Tagged(A)), NEW u, Joined(u, s, t)
    PROVE  Joined(Raw(u), Raw(s), Raw(t))
<1> DEFINE rs == Raw(s)
           rt == Raw(t)
           ru == Raw(u)
           w == rs \o rt
<1>1. IsConcat(u, s, t) /\ u \in Seq(Tagged(A))
  BY JoinedShape
<1>2. /\ rs \in Seq(A) /\ Len(rs) = Len(s) /\ \A i \in 1..Len(s) : rs[i] = s[i].value
      /\ rt \in Seq(A) /\ Len(rt) = Len(t) /\ \A i \in 1..Len(t) : rt[i] = t[i].value
      /\ ru \in Seq(A) /\ Len(ru) = Len(u) /\ \A i \in 1..Len(u) : ru[i] = u[i].value
  BY <1>1, RawType
<1> HIDE DEF rs, rt, ru
<1>3. IsConcat(w, rs, rt) /\ w \in Seq(A)
  BY <1>2, ConcatShape
<1>w. Joined(w, rs, rt)
  BY DEF Joined
<1> HIDE DEF w
<1>4. Len(w) = Len(ru)
  BY <1>1, <1>2, <1>3 DEF IsConcat
<1>a. \A i \in 1..Len(s) : w[i] = ru[i]
  <2> TAKE i \in 1..Len(s)
  <2>1. u[i] = s[i] /\ i \in 1..Len(u)
    BY <1>1 DEF IsConcat
  <2>2. w[i] = rs[i]
    BY <1>2, <1>3 DEF IsConcat
  <2> QED BY <1>2, <2>1, <2>2
<1>b. \A j \in 1..Len(t) : w[Len(s) + j] = ru[Len(s) + j]
  <2> TAKE j \in 1..Len(t)
  <2>1. u[Len(s) + j] = t[j] /\ Len(s) + j \in 1..Len(u)
    BY <1>1 DEF IsConcat
  <2>2. w[Len(rs) + j] = rt[j]
    BY <1>2, <1>3 DEF IsConcat
  <2> QED BY <1>2, <2>1, <2>2
<1>c. \A i \in 1..Len(u) : w[i] = ru[i]
  BY <1>1, <1>a, <1>b DEF IsConcat
<1>5. w = ru
  BY <1>2, <1>3, <1>4, <1>c, SeqEqual
<1> QED BY <1>5, <1>w DEF rs, rt, ru

\* A part of a concatenation.
LEMMA SubJoined ==
    ASSUME NEW A, NEW s, s \in Seq(A), NEW t, t \in Seq(A), NEW u, Joined(u, s, t), NEW V
    PROVE  Joined(Sub(u, V), Sub(s, V), Sub(t, V))
<1>1. Sub(s \o t, V) = Sub(s, V) \o Sub(t, V)
  BY SubConcat
<1> QED BY <1>1 DEF Joined

\* Four layers are three concatenations.
LEMMA MergedJoins ==
    ASSUME NEW A, NEW p, p \in Seq(A), NEW q, q \in Seq(A), NEW r, r \in Seq(A), NEW d, d \in Seq(A),
           NEW u
    PROVE  IsMerged(u, p, q, r, d) <=>
            \E v, w : /\ v \in Seq(A) /\ w \in Seq(A)
                      /\ Joined(v, p, q) /\ Joined(w, v, r) /\ Joined(u, w, d)
<1> DEFINE v == p \o q
           w == v \o r
<1>1. Joined(v, p, q) /\ Joined(w, v, r) /\ (IsMerged(u, p, q, r, d) <=> Joined(u, w, d))
  BY DEF IsMerged, Joined
<1>2. \A v1, w1 : Joined(v1, p, q) /\ Joined(w1, v1, r) => v1 = v /\ w1 = w
  BY DEF Joined
<1> HIDE DEF v
<1>3. v \in Seq(A)
  BY <1>1, JoinedShape
<1> HIDE DEF w
<1>4. w \in Seq(A)
  BY <1>1, <1>3, JoinedShape
<1> QED BY <1>1, <1>2, <1>3, <1>4

\* The members of four layers.
LEMMA MergedMembers ==
    ASSUME NEW A, NEW p, p \in Seq(A), NEW q, q \in Seq(A), NEW r, r \in Seq(A), NEW d, d \in Seq(A),
           NEW u, IsMerged(u, p, q, r, d)
    PROVE  u \in Seq(A)
           /\ \A x : x \in ToSet(u) <=> x \in ToSet(p) \/ x \in ToSet(q) \/ x \in ToSet(r) \/ x \in ToSet(d)
<1>1. PICK v, w : /\ v \in Seq(A) /\ w \in Seq(A)
                  /\ Joined(v, p, q) /\ Joined(w, v, r) /\ Joined(u, w, d)
  BY MergedJoins
<1>2. \A x : x \in ToSet(v) <=> x \in ToSet(p) \/ x \in ToSet(q)
  BY <1>1, ConcatMembers
<1>3. \A x : x \in ToSet(w) <=> x \in ToSet(v) \/ x \in ToSet(r)
  BY <1>1, ConcatMembers
<1>4. \A x : x \in ToSet(u) <=> x \in ToSet(w) \/ x \in ToSet(d)
  BY <1>1, ConcatMembers
<1>5. u \in Seq(A)
  BY <1>1, JoinedShape
<1> QED BY <1>2, <1>3, <1>4, <1>5

\* Raw of four layers.
LEMMA RawMerged ==
    ASSUME NEW A, NEW p, p \in Seq(Tagged(A)), NEW q, q \in Seq(Tagged(A)), NEW r, r \in Seq(Tagged(A)),
           NEW d, d \in Seq(Tagged(A)), NEW u, IsMerged(u, p, q, r, d)
    PROVE  IsMerged(Raw(u), Raw(p), Raw(q), Raw(r), Raw(d))
<1>1. PICK v, w : /\ v \in Seq(Tagged(A)) /\ w \in Seq(Tagged(A))
                  /\ Joined(v, p, q) /\ Joined(w, v, r) /\ Joined(u, w, d)
  BY MergedJoins
<1>2. Joined(Raw(v), Raw(p), Raw(q)) /\ Joined(Raw(w), Raw(v), Raw(r)) /\ Joined(Raw(u), Raw(w), Raw(d))
  BY <1>1, RawConcat
<1>3. Raw(p) \in Seq(A) /\ Raw(q) \in Seq(A) /\ Raw(r) \in Seq(A) /\ Raw(d) \in Seq(A)
      /\ Raw(v) \in Seq(A) /\ Raw(w) \in Seq(A)
  BY <1>1, RawType
<1> QED BY <1>2, <1>3, MergedJoins

\* A part that only the last layer has.
LEMMA SubMerged ==
    ASSUME NEW A, NEW p, p \in Seq(A), NEW q, q \in Seq(A), NEW r, r \in Seq(A), NEW d, d \in Seq(A),
           NEW u, IsMerged(u, p, q, r, d), NEW V,
           Sub(p, V) = <<>>, Sub(q, V) = <<>>, Sub(r, V) = <<>>
    PROVE  Sub(u, V) = Sub(d, V)
<1>1. PICK v, w : /\ v \in Seq(A) /\ w \in Seq(A)
                  /\ Joined(v, p, q) /\ Joined(w, v, r) /\ Joined(u, w, d)
  BY MergedJoins
<1>2. Joined(Sub(v, V), Sub(p, V), Sub(q, V)) /\ Joined(Sub(w, V), Sub(v, V), Sub(r, V))
      /\ Joined(Sub(u, V), Sub(w, V), Sub(d, V))
  BY <1>1, SubJoined
<1>3. \A t : Joined(t, <<>>, <<>>) => t = <<>>
  BY DEF Joined
<1>4. Sub(w, V) = <<>>
  BY <1>2, <1>3
<1>5. Sub(d, V) \in Seq(A)
  BY SubType
<1>6. \A t, s : s \in Seq(A) /\ Joined(t, <<>>, s) => t = s
  BY EmptyConcat DEF Joined
<1> QED BY <1>2, <1>4, <1>5, <1>6

\* The cookies of a Cookie header are private.
LEMMA HeaderCookiesType ==
    ASSUME NEW m, Valid(m)
    PROVE  headerCookies(m) \in CookieOccurrences /\ \A x \in ToSet(headerCookies(m)) : ~x.public
<1> DEFINE v == Raw(m.headers[COOKIE])
           f == FlattenSeq(v)
<1>1. v \in Seq(HeaderTexts)
  BY LayerIs, KeyShape
<1> HIDE DEF v
<1>2. f \in Seq(Words)
  BY <1>1, FlattenType DEF HeaderTexts
<1>3. headerCookies(m) = Private(f)
  BY DEF headerCookies, v
<1> HIDE DEF f
<1>4. Private(f) \in CookieOccurrences
  BY <1>2, PrivateType DEF CookieOccurrences
<1>5. \A x \in ToSet(Private(f)) : ~x.public
  BY DEF ToSet, Private, Value
<1> QED BY <1>3, <1>4, <1>5

\* The layers of the cookies of a request, with what is left of each.
CookieLayers(p, q, r) ==
    /\ headerCookies(client) \in CookieOccurrences /\ client.cookies \in CookieOccurrences
    /\ headerCookies(request) \in CookieOccurrences /\ request.cookies \in CookieOccurrences
    /\ PlanCookies \in CookieOccurrences
    /\ MergesTo(PlanCookies, headerCookies(client), client.cookies, headerCookies(request),
                request.cookies, p, q, r)

\* The cookies of the plan, layer by layer.
LEMMA PlanCookiesAre ==
    ASSUME BuilderInv
    PROVE  \E p, q, r : CookieLayers(p, q, r)
<1>1. Valid(client) /\ Valid(request) /\ client \in Metadata /\ request \in Metadata
  BY DEF BuilderInv, Valid
<1> DEFINE a == headerCookies(client)
           b == client.cookies
           c == headerCookies(request)
           d == request.cookies
<1>2. a \in CookieOccurrences /\ b \in CookieOccurrences /\ c \in CookieOccurrences /\ d \in CookieOccurrences
  BY <1>1, HeaderCookiesType, MetadataShape
<1>3. PlanCookies = mergeCookieOccurrences(<<a, b, c, d>>)
  BY DEF PlanCookies
<1> HIDE DEF a, b, c, d
<1>4. PICK p, q, r : MergesTo(PlanCookies, a, b, c, d, p, q, r)
  BY <1>2, <1>3, MergeFour
<1>5. PlanCookies \in CookieOccurrences
  BY <1>2, <1>4, MergedMembers DEF MergesTo, CookieOccurrences
<1> QED BY <1>2, <1>4, <1>5 DEF CookieLayers, a, b, c, d

\* RequestCookiesWin follows.
LEMMA CookiesConsequence ==
    ASSUME BuilderInv
    PROVE  RequestCookiesWin
<1>1. PICK p, q, r : CookieLayers(p, q, r)
  BY PlanCookiesAre
<1> DEFINE a == headerCookies(client)
           b == client.cookies
           c == headerCookies(request)
           d == request.cookies
           u == PlanCookies
           sent == Raw(u)
           explicit == Raw(d)
           inHeader == Raw(c)
           both == explicit \o inHeader
           names == {CookieName[x] : x \in ToSet(both)}
           V == ToSet(explicit)
<1>2. /\ a \in Seq(Tagged(Words)) /\ b \in Seq(Tagged(Words)) /\ c \in Seq(Tagged(Words))
      /\ d \in Seq(Tagged(Words)) /\ u \in Seq(Tagged(Words))
      /\ p \in Seq(Tagged(Words)) /\ q \in Seq(Tagged(Words)) /\ r \in Seq(Tagged(Words))
      /\ IsMerged(u, p, q, r, d)
  BY <1>1 DEF CookieLayers, MergesTo, CookieOccurrences
<1>3. /\ From(p, a, Both(Both(CookieNames(b), CookieNames(c)), CookieNames(d)))
      /\ From(q, b, Both(CookieNames(c), CookieNames(d)))
      /\ From(r, c, CookieNames(d))
  BY <1>1 DEF CookieLayers, MergesTo
<1> HIDE DEF a, b, c, d, u
<1>4. \A x : x \in ToSet(u) <=> x \in ToSet(p) \/ x \in ToSet(q) \/ x \in ToSet(r) \/ x \in ToSet(d)
  BY <1>2, MergedMembers
<1>5. /\ \A x : x \in ToSet(sent) <=> \E y \in ToSet(u) : y.value = x
      /\ \A x : x \in ToSet(explicit) <=> \E y \in ToSet(d) : y.value = x
      /\ \A x : x \in ToSet(inHeader) <=> \E y \in ToSet(c) : y.value = x
      /\ \A x : x \in ToSet(Raw(b)) <=> \E y \in ToSet(b) : y.value = x
      /\ \A x : x \in ToSet(Raw(p)) <=> \E y \in ToSet(p) : y.value = x
      /\ \A x : x \in ToSet(Raw(q)) <=> \E y \in ToSet(q) : y.value = x
      /\ \A x : x \in ToSet(Raw(r)) <=> \E y \in ToSet(r) : y.value = x
  BY <1>2, RawMembers
<1>6. /\ explicit \in Seq(Words) /\ inHeader \in Seq(Words) /\ sent \in Seq(Words)
      /\ Raw(p) \in Seq(Words) /\ Raw(q) \in Seq(Words) /\ Raw(r) \in Seq(Words)
  BY <1>2, RawType
<1>7. IsMerged(sent, Raw(p), Raw(q), Raw(r), explicit)
  BY <1>2, RawMerged
<1> HIDE DEF sent, explicit, inHeader
<1>8. \A x : x \in ToSet(both) <=> x \in ToSet(explicit) \/ x \in ToSet(inHeader)
  <2>1. Joined(both, explicit, inHeader)
    BY DEF Joined
  <2> HIDE DEF both
  <2> QED BY <1>6, <2>1, ConcatMembers
<1> HIDE DEF both
<1>9. \A n : n \in names <=> n \in CookieNames(c) \/ n \in CookieNames(d)
  BY <1>5, <1>8 DEF CookieNames
<1>10. \A y : /\ y \in ToSet(p) => y \in ToSet(a) /\ CookieName[y.value] \notin names
              /\ y \in ToSet(q) <=> y \in ToSet(b) /\ CookieName[y.value] \notin names
              /\ y \in ToSet(r) => y \in ToSet(c) /\ CookieName[y.value] \notin CookieNames(d)
  <2> HIDE DEF names
  <2> QED BY <1>3, <1>9 DEF From, Both
<1>11. \A x \in ToSet(explicit) : CookieName[x] \in CookieNames(d) /\ CookieName[x] \in names
  BY <1>5, <1>9 DEF CookieNames
<1> HIDE DEF names
<1>12. \A x \in ToSet(sent) : CookieName[x] \in names => x \in ToSet(both)
  BY <1>4, <1>5, <1>8, <1>10
<1>13. \A x \in ToSet(Raw(b)) : CookieName[x] \notin names => x \in ToSet(sent)
  BY <1>4, <1>5, <1>10
<1>14. Sub(sent, V) = explicit
  <2> HIDE DEF V
  <2>1. /\ \A x \in ToSet(Raw(p)) : x \notin V
        /\ \A x \in ToSet(Raw(q)) : x \notin V
        /\ \A x \in ToSet(Raw(r)) : x \notin V
    BY <1>5, <1>10, <1>11 DEF V
  <2>2. Sub(Raw(p), V) = <<>> /\ Sub(Raw(q), V) = <<>> /\ Sub(Raw(r), V) = <<>>
    BY <1>6, <2>1, SubNone
  <2>3. Sub(sent, V) = Sub(explicit, V)
    BY <1>6, <1>7, <2>2, SubMerged
  <2>4. ToSet(explicit) \subseteq V
    BY DEF V
  <2> QED BY <1>6, <2>3, <2>4, SubAll
<1> QED BY <1>12, <1>13, <1>14
     DEF RequestCookiesWin, Sub, names, both, explicit, inHeader, sent, a, b, c, d, u

-----------------------------------------------------------------------------
(* The order of the headers in the plan.                                    *)

\* An object with the names s that the headers sem allow.
SyncedTo(r, o, sem) ==
    /\ r \in OrderedStates /\ r.active = o.active
    /\ NamesOf(r.entries) = Sub(NamesOf(o.entries), Synced(sem, AnyNames))
    /\ Mirror(r.entries, sem)

\* Synchronising an object of a client or a request.
LEMMA SyncObject ==
    ASSUME NEW o, o \in OrderedStates, NEW sem, \A n \in HeaderNames : sem[n] \in Seq(HeaderTexts)
    PROVE  SyncedTo(syncOrderedHeaderValues(o, sem), o, sem)
<1>1. o \in Objects(AnyNames, HeaderTexts) /\ \A n \in AnyNames \ PseudoNames : sem[n] \in Seq(HeaderTexts)
  BY KeyShape DEF OrderedStates
<1> DEFINE r == syncOrderedHeaderValues(o, sem)
<1>2. /\ r \in Objects(AnyNames, HeaderTexts) /\ r.active = o.active
      /\ NamesOf(r.entries) = Sub(NamesOf(o.entries), Synced(sem, AnyNames))
      /\ Mirror(r.entries, sem)
  BY <1>1, SyncIs
<1> HIDE DEF r
<1>3. SyncedTo(r, o, sem)
  BY <1>2 DEF SyncedTo, OrderedStates
<1> QED BY <1>3 DEF r

\* The names that stay.
LEMMA SyncedNames ==
    ASSUME NEW sem, NEW n, n \in AnyNames
    PROVE  n \in Synced(sem, AnyNames) <=> n \in PseudoNames \/ sem[n] # <<>>
  BY DEF Synced

\* The names of such an object.
LEMMA StateNames ==
    ASSUME NEW o, o \in OrderedStates
    PROVE  /\ o.entries \in Single(AnyNames, HeaderTexts) /\ o.entries \in Seq(Rows(AnyNames, HeaderTexts))
           /\ OnePer(o.entries) /\ NamesOf(o.entries) \in Seq(AnyNames)
           /\ Distinct(NamesOf(o.entries)) /\ ToSet(NamesOf(o.entries)) \subseteq AnyNames
           /\ \A n : HasName(o, n) <=> n \in ToSet(NamesOf(o.entries))
<1>1. /\ o.entries \in Single(AnyNames, HeaderTexts) /\ o.entries \in Seq(Rows(AnyNames, HeaderTexts))
      /\ OnePer(o.entries)
  BY ObjectShape DEF OrderedStates
<1>2. /\ NamesOf(o.entries) \in Seq(AnyNames) /\ Distinct(NamesOf(o.entries))
      /\ ToSet(NamesOf(o.entries)) \subseteq AnyNames
  BY <1>1, SingleShape
<1>3. \A n : HasName(o, n) <=> n \in ToSet(NamesOf(o.entries))
  BY <1>1, HasNameIs
<1> QED BY <1>1, <1>2, <1>3

\* The values of the plan under a name.
Chosen(n) == IF request.headers[n] # <<>> THEN request.headers[n] ELSE client.headers[n]

\* The headers of the plan are the chosen ones; only the value
\* of a credential can be replaced by a private one.
LEMMA PlanHeadersAre ==
    ASSUME BuilderInv, NEW n, n \in HeaderNames
    PROVE  /\ PlanHeaders[n] \in Occurrences /\ Chosen(n) \in Occurrences
           /\ Raw(PlanHeaders[n]) = Raw(Chosen(n)) /\ headerValues(PlanHeaders)[n] = Raw(Chosen(n))
           /\ Raw(Chosen(n)) \in Seq(HeaderTexts) /\ (Raw(Chosen(n)) = <<>> <=> Chosen(n) = <<>>)
           /\ (PlanHeaders[n] = <<>> <=> Chosen(n) = <<>>)
           /\ ~isCredentialRequestHeader(n) => PlanHeaders[n] = Chosen(n)
<1> DEFINE c == Chosen(n)
           h == PlanHeaders[n]
<1>0. request.headers[n] \in Occurrences /\ client.headers[n] \in Occurrences
  BY MetadataShape DEF BuilderInv, Valid
<1>1. c \in Seq(Tagged(HeaderTexts))
  BY <1>0 DEF Chosen, Occurrences
<1>2. h = [i \in DOMAIN c |-> IF isCredentialRequestHeader(n) THEN Value(c[i].value, FALSE) ELSE c[i]]
  BY DEF PlanHeaders, Chosen
<1>3. Raw(c) \in Seq(HeaderTexts) /\ (Raw(c) = <<>> <=> c = <<>>)
  BY <1>1, RawType
<1> HIDE DEF c, h
<1>4. DOMAIN c = 1..Len(c) /\ Len(c) \in Nat /\ \A i \in 1..Len(c) : c[i] \in Tagged(HeaderTexts)
  BY <1>1, SeqShape
<1>5. DOMAIN h = 1..Len(c) /\ \A i \in 1..Len(c) : h[i] \in Tagged(HeaderTexts) /\ h[i].value = c[i].value
  <2>1. DOMAIN h = 1..Len(c) /\ \A i \in 1..Len(c) :
            h[i] = IF isCredentialRequestHeader(n) THEN Value(c[i].value, FALSE) ELSE c[i]
    BY <1>2, <1>4
  <2>2. \A i \in 1..Len(c) : c[i].value \in HeaderTexts
    BY <1>4 DEF Tagged
  <2>3. FALSE \in BOOLEAN
    OBVIOUS
  <2>4. \A i \in 1..Len(c) : Value(c[i].value, FALSE) \in Tagged(HeaderTexts)
                             /\ Value(c[i].value, FALSE).value = c[i].value
    BY <2>2, <2>3, ValueType
  <2> QED BY <1>4, <2>1, <2>4
<1>6. h \in Seq(Tagged(HeaderTexts)) /\ Len(h) = Len(c)
  <2>1. h = [i \in 1..Len(c) |-> h[i]]
    BY <1>2, <1>4
  <2> QED BY <1>4, <1>5, <2>1
<1>7. Raw(h) = Raw(c)
  <2>1. /\ Raw(h) \in Seq(HeaderTexts) /\ Len(Raw(h)) = Len(h) /\ \A i \in 1..Len(h) : Raw(h)[i] = h[i].value
        /\ Raw(c) \in Seq(HeaderTexts) /\ Len(Raw(c)) = Len(c) /\ \A i \in 1..Len(c) : Raw(c)[i] = c[i].value
    BY <1>1, <1>6, RawType
  <2> QED BY <1>5, <1>6, <2>1, SeqEqual
<1>8. h = <<>> <=> c = <<>>
  BY <1>1, <1>6, SeqShape
<1>9. ~isCredentialRequestHeader(n) => h = c
  BY <1>1, <1>6, <1>2, <1>4, SeqEqual
<1>10. headerValues(PlanHeaders)[n] = Raw(h)
  BY DEF headerValues, h
<1> QED BY <1>1, <1>3, <1>6, <1>7, <1>8, <1>9, <1>10 DEF c, h, Occurrences

\* Names with a plain header and no ordered entry in the request.
PlainNames == {n \in HeaderNames : request.headers[n] # <<>> /\ ~HasName(request.ordered, n)}
NotPlain == AnyNames \ PlainNames

\* The names that are not plain headers of the request.
LEMMA NotPlainIs ==
    ASSUME NEW n, n \in AnyNames
    PROVE  n \in NotPlain <=> ~(n \in HeaderNames /\ request.headers[n] # <<>> /\ ~HasName(request.ordered, n))
  BY DEF NotPlain, PlainNames

\* The order that compileOrderedHeaders gives.
LEMMA CompiledIs ==
    ASSUME BuilderInv
    PROVE  /\ compileOrderedHeaders \in OrderedStates
           /\ NamesOf(compileOrderedHeaders.entries)
                = Sub(MergeNames(NamesOf(client.ordered.entries), NamesOf(request.ordered.entries), AnyNames),
                      NotPlain)
<1> DEFINE merged == mergeOrderedHeaders(client.ordered, request.ordered)
           plain == {n \in HeaderNames : request.headers[n] # <<>> /\ ~HasName(request.ordered, n)}
           keys == {Key(n) : n \in plain}
           kept == deleteOrderedHeaders(merged.entries, keys)
           mn == MergeNames(NamesOf(client.ordered.entries), NamesOf(request.ordered.entries), AnyNames)
           o == compileOrderedHeaders
<1>1. client.ordered \in Objects(AnyNames, HeaderTexts) /\ request.ordered \in Objects(AnyNames, HeaderTexts)
  BY MetadataShape DEF BuilderInv, Valid, OrderedStates
<1>2. merged \in OrderedStates /\ NamesOf(merged.entries) = mn
  BY <1>1, MergeIs DEF OrderedStates
<1>3. o = IF ~merged.active \/ \A n \in HeaderNames : request.headers[n] = <<>> THEN merged
          ELSE IF kept = <<>> THEN NilObject ELSE Object(kept)
  BY DEF compileOrderedHeaders
<1>4. keys \subseteq Spelled(AnyNames) /\ Spares(NotPlain, AnyNames, keys)
  BY KeyShape DEF PlainNames, NotPlain, Spares
<1> HIDE DEF merged, keys, mn, o
<1>5. merged.entries \in Single(AnyNames, HeaderTexts) /\ merged.entries \in Seq(Rows(AnyNames, HeaderTexts))
      /\ OnePer(merged.entries) /\ mn \in Seq(AnyNames) /\ Distinct(mn) /\ ToSet(mn) \subseteq AnyNames
  BY <1>2, StateNames
<1>6. kept \in Seq(Rows(AnyNames, HeaderTexts)) /\ NamesOf(kept) = Sub(mn, NotPlain)
  <2>1. kept = deleteOrderedHeaders(merged.entries, keys)
    OBVIOUS
  <2> HIDE DEF kept
  <2>2. kept \in Seq(Rows(AnyNames, HeaderTexts)) /\ NamesOf(kept) = Sub(NamesOf(merged.entries), NotPlain)
    BY <1>4, <1>5, <2>1, DeleteManyIs
  <2> QED BY <1>2, <2>2
<1>7. kept \in Single(AnyNames, HeaderTexts)
  <2>1. Distinct(Sub(mn, NotPlain))
    BY <1>5, KeepDistinct DEF Sub
  <2> QED BY <1>6, <2>1 DEF Single, OnePer
<1>8. CASE ~merged.active
  <2>1. o = merged /\ merged.entries = <<>>
    BY <1>2, <1>3, <1>8, ObjectShape DEF OrderedStates
  <2>2. mn = <<>>
    BY <1>2, <2>1, EmptySingle
  <2>3. Sub(mn, NotPlain) = mn
    <3>1. ToSet(mn) \subseteq NotPlain
      BY <2>2 DEF ToSet
    <3> QED BY <1>5, <3>1, SubAll
  <2> QED BY <1>2, <2>1, <2>3 DEF o, mn
<1>9. CASE \A n \in HeaderNames : request.headers[n] = <<>>
  <2>1. o = merged
    BY <1>3, <1>9
  <2>2. PlainNames = {}
    BY <1>9 DEF PlainNames
  <2>3. ToSet(mn) \subseteq NotPlain
    BY <1>5, <2>2 DEF NotPlain
  <2>4. Sub(mn, NotPlain) = mn
    BY <1>5, <2>3, SubAll
  <2> QED BY <1>2, <2>1, <2>4 DEF o, mn
<1>10. CASE ~(~merged.active \/ \A n \in HeaderNames : request.headers[n] = <<>>)
  <2> HIDE DEF kept
  <2>1. CASE kept = <<>>
    <3>1. o = NilObject
      BY <1>3, <1>10, <2>1
    <3>2. o \in OrderedStates /\ o.entries = kept
      BY <1>7, <2>1, <3>1, ObjectIs DEF OrderedStates
    <3> QED BY <1>6, <3>2 DEF o, mn
  <2>2. CASE kept # <<>>
    <3>1. o = Object(kept)
      BY <1>3, <1>10, <2>2
    <3>2. o \in OrderedStates /\ o.entries = kept
      BY <1>7, <3>1, ObjectIs DEF OrderedStates
    <3> QED BY <1>6, <3>2 DEF o, mn
  <2> QED BY <2>1, <2>2
<1> QED BY <1>8, <1>9, <1>10

\* The names in the objects of the client and of the request, and the names
\* the plan has values for.
ClientOrder == NamesOf(client.ordered.entries)
RequestOrder == NamesOf(request.ordered.entries)
MergedOrder == MergeNames(ClientOrder, RequestOrder, AnyNames)
PlanSynced == Synced(headerValues(PlanHeaders), AnyNames)

\* The orders asked for and their merge.
LEMMA OrdersAre ==
    ASSUME BuilderInv
    PROVE  /\ ClientOrder \in Seq(AnyNames) /\ RequestOrder \in Seq(AnyNames) /\ Distinct(RequestOrder)
           /\ MergedOrder \in Seq(AnyNames)
           /\ \A n : n \in ToSet(ClientOrder) <=> HasName(client.ordered, n)
           /\ \A n : n \in ToSet(RequestOrder) <=> HasName(request.ordered, n)
           /\ \A n : n \in ToSet(MergedOrder) <=> n \in ToSet(ClientOrder) \/ n \in ToSet(RequestOrder)
<1>1. client.ordered \in OrderedStates /\ request.ordered \in OrderedStates
  BY MetadataShape DEF BuilderInv, Valid
<1>2. /\ ClientOrder \in Seq(AnyNames) /\ RequestOrder \in Seq(AnyNames) /\ Distinct(RequestOrder)
      /\ ToSet(ClientOrder) \subseteq AnyNames
      /\ \A n : n \in ToSet(ClientOrder) <=> HasName(client.ordered, n)
      /\ \A n : n \in ToSet(RequestOrder) <=> HasName(request.ordered, n)
  BY <1>1, StateNames DEF ClientOrder, RequestOrder
<1> DEFINE W == AnyNames \ ToSet(RequestOrder)
           s == Sub(ClientOrder, W)
<1>3. Joined(MergedOrder, s, RequestOrder)
  BY DEF Joined, MergedOrder, MergeNames
<1>4. s \in Seq(AnyNames) /\ ToSet(s) = ToSet(ClientOrder) \cap W
  <2> HIDE DEF W
  <2> QED BY <1>2, SubType, SubMembers
<1>5. \A n : n \in ToSet(s) <=> n \in ToSet(ClientOrder) /\ n \notin ToSet(RequestOrder)
  BY <1>2, <1>4
<1> HIDE DEF s
<1>6. MergedOrder \in Seq(AnyNames)
  BY <1>2, <1>3, <1>4, JoinedShape
<1>7. \A n : n \in ToSet(MergedOrder) <=> n \in ToSet(s) \/ n \in ToSet(RequestOrder)
  BY <1>2, <1>3, <1>4, ConcatMembers
<1> QED BY <1>2, <1>5, <1>6, <1>7

\* The order of the plan.
LEMMA PlanOrderedIs ==
    ASSUME BuilderInv
    PROVE  /\ PlanOrdered \in OrderedStates
           /\ NamesOf(PlanOrdered.entries) = Sub(Sub(MergedOrder, NotPlain), PlanSynced)
           /\ Mirror(PlanOrdered.entries, headerValues(PlanHeaders))
<1> DEFINE o == compileOrderedHeaders
           sem == headerValues(PlanHeaders)
           r == syncOrderedHeaderValues(o, sem)
<1>1. o \in OrderedStates /\ NamesOf(o.entries) = Sub(MergedOrder, NotPlain)
  BY CompiledIs DEF MergedOrder, ClientOrder, RequestOrder
<1>2. \A n \in HeaderNames : sem[n] \in Seq(HeaderTexts)
  BY PlanHeadersAre
<1>3. r = PlanOrdered
  BY DEF PlanOrdered
<1> HIDE DEF o, sem, r
<1>4. SyncedTo(syncOrderedHeaderValues(o, sem), o, sem)
  BY <1>1, <1>2, SyncObject
<1>5. SyncedTo(PlanOrdered, o, sem)
  BY <1>3, <1>4 DEF r
<1> QED BY <1>1, <1>5 DEF SyncedTo, PlanSynced, sem

\* The names that the headers of the plan allow.
LEMMA PlanSyncedIs ==
    ASSUME BuilderInv, NEW n, n \in AnyNames
    PROVE  n \in PlanSynced <=> n \in PseudoNames \/ Chosen(n) # <<>>
<1>1. n \in PlanSynced <=> n \in PseudoNames \/ headerValues(PlanHeaders)[n] # <<>>
  BY SyncedNames DEF PlanSynced
<1>2. n \in PseudoNames \/ n \in HeaderNames
  BY KeyShape
<1>3. CASE n \in PseudoNames
  BY <1>1, <1>3
<1>4. CASE n \in HeaderNames
  BY <1>1, <1>4, PlanHeadersAre, KeyShape
<1> QED BY <1>2, <1>3, <1>4

\* The names in the order of the plan.
LEMMA PlanHas ==
    ASSUME BuilderInv, NEW n, n \in AnyNames
    PROVE  HasName(PlanOrdered, n) <=>
            /\ HasName(client.ordered, n) \/ HasName(request.ordered, n)
            /\ n \in NotPlain /\ n \in PlanSynced
<1>1. PlanOrdered \in OrderedStates
      /\ NamesOf(PlanOrdered.entries) = Sub(Sub(MergedOrder, NotPlain), PlanSynced)
  BY PlanOrderedIs
<1>2. HasName(PlanOrdered, n) <=> n \in ToSet(NamesOf(PlanOrdered.entries))
  BY <1>1, StateNames
<1> DEFINE s == Sub(MergedOrder, NotPlain)
<1>3. /\ MergedOrder \in Seq(AnyNames)
      /\ n \in ToSet(MergedOrder) <=> HasName(client.ordered, n) \/ HasName(request.ordered, n)
  BY OrdersAre
<1>4. s \in Seq(AnyNames) /\ ToSet(s) = ToSet(MergedOrder) \cap NotPlain
  BY <1>3, SubType, SubMembers
<1> HIDE DEF s
<1>5. ToSet(Sub(s, PlanSynced)) = ToSet(s) \cap PlanSynced
  BY <1>4, SubMembers
<1> QED BY <1>1, <1>2, <1>3, <1>4, <1>5 DEF s

\* The body that is opened has a type; a type it generated is the one in the
\* request's headers, or a multipart one.
LEMMA OpenedType ==
    ASSUME BuilderInv, DeliveredBody.err = "none"
    PROVE  /\ DeliveredBody.contentType \in HeaderTexts
           /\ body.kind # "multipart" /\ ReplacesContentType =>
                DeliveredBody.contentType = Get(headerValues(request.headers), CT)
<1> DEFINE h == headerValues(request.headers)
           d == buildDeliveryBody(body, h)
           c == Get(h, CT)
<1>0. body \in Selected /\ request \in Metadata
  BY DEF BuilderInv, Valid
<1>1. c \in HeaderTexts
  <2>1. h[CT] \in Seq(HeaderTexts)
    <3>1. request.headers[CT] \in Seq(Tagged(HeaderTexts)) /\ h[CT] = Raw(request.headers[CT])
      <4>1. CT \in HeaderNames
        BY KeyShape
      <4>2. request.headers[CT] \in Occurrences
        BY <1>0, <4>1, MetadataShape
      <4> QED BY <4>1, <4>2 DEF headerValues, Occurrences
    <3> HIDE DEF h
    <3> QED BY <3>1, RawType
  <2>2. <<>> \in HeaderTexts
    BY DEF HeaderTexts
  <2> HIDE DEF h
  <2>3. h[CT] # <<>> => Len(h[CT]) \in Nat /\ Len(h[CT]) # 0 /\ 1 \in 1..Len(h[CT])
    BY <2>1, SeqShape
  <2>4. h[CT] # <<>> => h[CT][1] \in HeaderTexts
    BY <2>1, <2>3, SeqShape
  <2> QED BY <2>2, <2>4 DEF Get
<1>2. d = DeliveredBody /\ d.err = "none"
  BY DEF DeliveredBody
<1> HIDE DEF h, d, c
<1>3. \A t, u : OneShot(t, u).contentType = u /\ Replayable(t, u).contentType = u
  BY DEF OneShot, Replayable
<1>4. /\ body.kind = "none" => d = OneShot(0, <<>>) /\ ~body.generated
      /\ body.kind \in Typed => d = Replayable(EncodedSize, c)
      /\ body.kind \in {"text", "bytes"} => d = Replayable(body.size, c)
      /\ body.kind = "form" => d = Replayable(EncodedLength(body.form), c)
      /\ body.kind = "reader" => d = OneShot(body.length, c) \/ d.contentType = c
      /\ body.kind = "multipart" =>
            d.contentType = IF body.generated THEN <<"multipart", "boundary">> ELSE <<>>
  BY <1>0, <1>2, OpenedBody, SelectedShape DEF d, c
<1>5. body.kind \in {"none", "json", "xml", "yaml", "text", "bytes", "reader", "form", "multipart"}
  BY <1>0, SelectedShape
<1>6. CASE body.kind = "none"
  <2>1. d.contentType = <<>> /\ <<>> \in HeaderTexts
    BY <1>3, <1>4, <1>6 DEF HeaderTexts
  <2> QED BY <1>2, <1>4, <1>6, <2>1 DEF ReplacesContentType
<1>7. CASE body.kind = "multipart"
  <2>1. <<>> \in HeaderTexts
    BY DEF HeaderTexts
  <2>2. <<"multipart", "boundary">> \in HeaderTexts
    BY DEF HeaderTexts, Words
  <2> QED BY <1>2, <1>4, <1>7, <2>1, <2>2
<1>8. CASE body.kind \notin {"none", "multipart"}
  <2>1. d.contentType = c
    BY <1>3, <1>4, <1>5, <1>8 DEF Typed
  <2> QED BY <1>1, <1>2, <2>1 DEF c, h
<1> QED BY <1>6, <1>7, <1>8

\* The type of a header sent.
LEMMA DeliveredType ==
    ASSUME BuilderInv, DeliveredBody.err = "none", NEW n, n \in HeaderNames
    PROVE  DeliveredHeader[n] \in Seq(HeaderTexts)
<1>1. /\ Overlaid(n) \in Seq(HeaderTexts)
      /\ DeliveredHeader[n] =
            IF Active(request.auth, n) THEN <<request.auth.value>>
            ELSE IF n = COOKIE THEN AddCookies(PlanCookies)
            ELSE IF n = CT /\ ReplacesContentType THEN <<DeliveredBody.contentType>>
            ELSE Overlaid(n)
  BY DeliveredIs
<1>2. <<request.auth.value>> \in Seq(HeaderTexts)
  <2>1. request.auth.value \in HeaderTexts
    BY MetadataShape DEF BuilderInv, Valid, AuthStates
  <2> HIDE DEF HeaderTexts
  <2> QED BY <2>1
<1>3. AddCookies(PlanCookies) \in Seq(HeaderTexts)
  <2>1. PlanCookies \in CookieOccurrences
    BY PlanCookiesAre DEF CookieLayers
  <2>2. Raw(PlanCookies) \in HeaderTexts
    BY <2>1, RawType DEF CookieOccurrences, HeaderTexts
  <2> QED BY <2>2 DEF AddCookies
<1>4. <<DeliveredBody.contentType>> \in Seq(HeaderTexts)
  <2>1. DeliveredBody.contentType \in HeaderTexts
    BY OpenedType
  <2> QED BY <2>1
<1> QED BY <1>1, <1>2, <1>3, <1>4

-----------------------------------------------------------------------------
(* Values that Prepare shows.                                               *)

\* The methods of the package set Authorization and nothing else.
LEMMA ActiveOnly ==
    ASSUME NEW a, a \in AuthStates, builtInAuthShape(a) \notin {"invalid", "unknown"}, NEW n
    PROVE  /\ Active(a, n) <=> n = AUTH /\ builtInAuthShape(a) # "none"
           /\ builtInAuthShape(a) \in {"none", "builtIn"}
           /\ builtInAuthShape(a) = "none" <=> a.kind = "none"
  BY DEF AuthStates, builtInAuthShape, Active

\* A request that can be prepared has such methods only.
LEMMA PreparesShape ==
    ASSUME BuilderInv, Prepares, NEW n, n # AUTH
    PROVE  ~Active(request.auth, n) /\ ~Active(client.auth, n)
<1>1. PICK budget \in Budgets : PrepareErr(budget) = "none"
  BY DEF Prepares
<1>2. budget \in Int
  BY BudgetAssumption DEF BudgetAssumption
<1>3. Checked(budget)
  BY <1>1, <1>2, PrepareCases
<1>4. client.auth \in AuthStates /\ request.auth \in AuthStates
  BY MetadataShape DEF BuilderInv, Valid
<1> QED BY <1>3, <1>4, ActiveOnly DEF Checked

\* A type that the body generated is what is sent.
LEMMA MediaTypeIsSent ==
    ASSUME BuilderInv, GeneratedTypeIsSole, Sends, ~Active(request.auth, CT),
           preparedBodyMediaType(body) # <<>>
    PROVE  /\ body.generated /\ preparedBodyMediaType(body) = <<body.kind>>
           /\ DOMAIN DeliveredHeader[CT] = {1} /\ DeliveredHeader[CT][1][1] = body.kind
<1>1. body.generated /\ body.kind \notin {"none", "bytes", "reader"}
      /\ preparedBodyMediaType(body) = <<body.kind>>
  BY DEF preparedBodyMediaType
<1>2. DeliveredBody.err = "none" /\ body \in Selected /\ request \in Metadata
  BY DEF Sends, BuilderInv, Valid
<1>3. DeliveredBody.contentType # <<>> /\ DeliveredBody.contentType[1] = body.kind
  <2>1. CASE body.kind = "multipart"
    <3>1. DeliveredBody.contentType = <<"multipart", "boundary">>
      BY <1>1, <1>2, <2>1, OpenedBody DEF DeliveredBody
    <3> QED BY <2>1, <3>1
  <2>2. CASE body.kind # "multipart"
    <3>1. body.contentType = <<body.kind>>
      BY <1>1, <1>2, <2>2 DEF Selected
    <3>2. request.headers[CT] = <<Value(body.contentType, FALSE)>>
      BY <1>1, <3>1 DEF GeneratedTypeIsSole
    <3>3. Get(headerValues(request.headers), CT) = <<body.kind>>
      <4>1. Raw(request.headers[CT]) = <<body.contentType>>
        BY <3>2 DEF Raw, Value
      <4>2. headerValues(request.headers)[CT] = <<body.contentType>>
        BY <4>1, KeyShape DEF headerValues
      <4> QED BY <3>1, <4>2 DEF Get
    <3>4. body.kind \in Typed \/ body.kind \in {"text", "form"}
      BY <1>1, <1>2, <2>2, SelectedShape DEF Typed
    <3>5. DeliveredBody.contentType = <<body.kind>>
      BY <1>2, <3>3, <3>4, OpenedBody DEF DeliveredBody, Replayable
    <3> QED BY <3>5
  <2> QED BY <2>1, <2>2
<1>4. DeliveredHeader[CT] = <<DeliveredBody.contentType>>
  <2>1. ReplacesContentType
    BY <1>1, <1>3 DEF ReplacesContentType
  <2> QED BY <2>1, DeliveredIs, KeyShape
<1>5. DOMAIN DeliveredHeader[CT] = {1} /\ DeliveredHeader[CT][1] = DeliveredBody.contentType
  BY <1>4
<1> QED BY <1>1, <1>3, <1>5

\* A public value of an ordinary header is the request's and is sent.
LEMMA PublicIsSent ==
    ASSUME BuilderInv, NEW n, n \in HeaderNames, ~isCredentialRequestHeader(n), n \notin {COOKIE, CT},
           ~Active(request.auth, n), NEW i, i \in DOMAIN PlanHeaders[n], PlanHeaders[n][i].public
    PROVE  /\ i \in DOMAIN DeliveredHeader[n] /\ DeliveredHeader[n][i] = PlanHeaders[n][i].value
           /\ request.headers[n][i] = Value(PlanHeaders[n][i].value, TRUE)
<1>1. PlanHeaders[n] = Chosen(n) /\ Chosen(n) \in Occurrences
  BY PlanHeadersAre
<1>2. request.headers[n] # <<>> /\ Chosen(n) = request.headers[n]
  BY <1>1 DEF Chosen, BuilderInv, AllPrivate
<1>3. DeliveredHeader[n] = Raw(request.headers[n])
  BY <1>2, DeliveredIs DEF Overlaid
<1> DEFINE h == request.headers[n]
<1>4. h \in Seq(Tagged(HeaderTexts)) /\ i \in DOMAIN h /\ h[i].public /\ PlanHeaders[n][i] = h[i]
  BY <1>1, <1>2 DEF Occurrences
<1>5. DeliveredHeader[n] = Raw(h)
  BY <1>3
<1> HIDE DEF h
<1>6. DOMAIN h = 1..Len(h) /\ h[i] \in Tagged(HeaderTexts)
  BY <1>4, SeqShape
<1>7. i \in DOMAIN Raw(h) /\ Raw(h)[i] = h[i].value
  BY <1>4, <1>6, RawType
<1>8. h[i] = Value(h[i].value, TRUE)
  BY <1>4, <1>6 DEF Tagged, Value
<1> QED BY <1>4, <1>5, <1>7, <1>8 DEF h

\* A header value shown by Prepare is sent.
LEMMA PreparedHeaderIsSent ==
    ASSUME BuilderInv, GeneratedTypeIsSole, Sends, Prepares, NEW n, n \in HeaderNames,
           NEW i, i \in DOMAIN PreparedHeaders[n], PreparedHeaders[n][i].present
    PROVE  ShownIsSent(n, i, PreparedHeaders[n][i], DeliveredHeader)
<1> DEFINE v == PreparedHeaders[n][i]
           h == PlanHeaders[n]
           t == preparedBodyMediaType(body)
<1>1. h # <<>> /\ PreparedHeaders[n] = [j \in DOMAIN h |->
                CASE isCredentialRequestHeader(n) \/ n = COOKIE -> Redacted
                  [] n = CT -> IF j = 1 /\ t # <<>> THEN Present(t) ELSE Redacted
                  [] OTHER -> preparedStringFromValue(h[j])]
  <2>1. PreparedHeaders[n] = IF h # <<>> \/ (n = AUTH /\ AuthShapes # {"none"})
                             THEN projectPreparedHeaderValues(n) ELSE <<>>
    BY DEF PreparedHeaders
  <2>2. projectPreparedHeaderValues(n) = IF h = <<>> THEN <<Redacted>>
            ELSE [j \in DOMAIN h |->
                CASE isCredentialRequestHeader(n) \/ n = COOKIE -> Redacted
                  [] n = CT -> IF j = 1 /\ t # <<>> THEN Present(t) ELSE Redacted
                  [] OTHER -> preparedStringFromValue(h[j])]
    BY DEF projectPreparedHeaderValues
  <2> HIDE DEF h, t
  <2>3. ~ (PreparedHeaders[n] = <<>>)
    OBVIOUS
  <2>4. ~ (PreparedHeaders[n] = <<Redacted>>)
    BY DEF Redacted
  <2> QED BY <2>1, <2>2, <2>3, <2>4
<1>2. i \in DOMAIN h /\ v = CASE isCredentialRequestHeader(n) \/ n = COOKIE -> Redacted
                             [] n = CT -> IF i = 1 /\ t # <<>> THEN Present(t) ELSE Redacted
                             [] OTHER -> preparedStringFromValue(h[i])
  <2> HIDE DEF h, t
  <2> QED BY <1>1
<1>3. v.present /\ ~Redacted.present
  BY DEF Redacted
<1> HIDE DEF v, h, t
<1>4. ~isCredentialRequestHeader(n) /\ n # COOKIE
  <2> SUFFICES ASSUME isCredentialRequestHeader(n) \/ n = COOKIE PROVE FALSE
    OBVIOUS
  <2>1. n # CT
    BY DEF isCredentialRequestHeader, AUTH, COOKIE, CT
  <2>2. v = Redacted
    BY <1>2, <2>1
  <2> QED BY <1>3, <2>2
<1>5. ~Active(request.auth, n)
  BY <1>4, PreparesShape DEF isCredentialRequestHeader
<1>6. CASE n = CT
  <2>1. i = 1 /\ t # <<>> /\ v = Present(t)
    BY <1>2, <1>3, <1>4, <1>6
  <2>2. body.generated /\ t = <<body.kind>> /\ DOMAIN DeliveredHeader[CT] = {1}
        /\ DeliveredHeader[CT][1][1] = body.kind
    BY <1>5, <1>6, <2>1, MediaTypeIsSent DEF t
  <2>3. v.value[1] = body.kind
    BY <2>1, <2>2 DEF Present
  <2> QED BY <1>6, <2>1, <2>2, <2>3 DEF ShownIsSent, v
<1>7. CASE n # CT
  <2>1. v = preparedStringFromValue(h[i])
    BY <1>2, <1>4, <1>7
  <2>2. h[i].public /\ v.value = h[i].value
    BY <1>3, <2>1 DEF preparedStringFromValue, Present
  <2>3. /\ i \in DOMAIN DeliveredHeader[n] /\ DeliveredHeader[n][i] = h[i].value
        /\ request.headers[n][i] = Value(h[i].value, TRUE)
    BY <1>2, <1>4, <1>5, <1>7, <2>2, PublicIsSent DEF h
  <2> QED BY <1>4, <1>7, <2>2, <2>3 DEF ShownIsSent, v, isCredentialRequestHeader, AUTH
<1> QED BY <1>6, <1>7

\* So is one in the ordered object.
LEMMA PreparedOrderedIsSent ==
    ASSUME BuilderInv, GeneratedTypeIsSole, Sends, Prepares, NEW e, e \in ToSet(PreparedOrdered),
           NEW i, i \in DOMAIN e.values, e.values[i].present
    PROVE  ShownIsSent(e.key.name, i, e.values[i], DeliveredHeader)
<1> DEFINE es == PlanOrdered.entries
           sem(k) == IF isPseudoHeader(es[k].key) THEN <<>> ELSE PreparedHeaders[es[k].key.name]
           vs(k) == [j \in DOMAIN es[k].values |-> IF j \in DOMAIN sem(k) THEN sem(k)[j] ELSE Redacted]
<1>1. PreparedOrdered = [k \in DOMAIN es |-> Entry(es[k].key, vs(k))]
  BY DEF PreparedOrdered
<1>2. PICK k \in DOMAIN es : e = Entry(es[k].key, vs(k))
  <2> HIDE DEF vs, es
  <2> QED BY <1>1 DEF ToSet
<1>3. e.key = es[k].key /\ e.values = vs(k)
  <2> HIDE DEF vs, es
  <2> QED BY <1>2 DEF Entry
<1>4. es[k].key.name \in AnyNames
  <2>1. es \in Seq(Rows(AnyNames, HeaderTexts))
    BY PlanOrderedIs, StateNames
  <2> HIDE DEF es
  <2> QED BY <2>1, NamesShape
<1>5. ~Redacted.present
  BY DEF Redacted
<1>6. i \in DOMAIN sem(k) /\ e.values[i] = sem(k)[i]
  <2> HIDE DEF sem, es
  <2> QED BY <1>3, <1>5
<1>7. ~isPseudoHeader(es[k].key)
  <2> HIDE DEF es
  <2> QED BY <1>6
<1>8. es[k].key.name \in HeaderNames
  <2> HIDE DEF es
  <2> QED BY <1>4, <1>7, KeyShape DEF isPseudoHeader
<1>9. sem(k) = PreparedHeaders[es[k].key.name]
  BY <1>7
<1> HIDE DEF es, sem
<1> QED BY <1>3, <1>6, <1>8, <1>9, PreparedHeaderIsSent

\* So is a cookie, and the request made it public.
LEMMA PreparedCookieIsSent ==
    ASSUME BuilderInv, Prepares, NEW i, i \in DOMAIN PreparedCookies, PreparedCookies[i].present
    PROVE  /\ PreparedCookies[i].value = <<DeliveredHeader[COOKIE][1][i]>>
           /\ Value(DeliveredHeader[COOKIE][1][i], TRUE) \in ToSet(request.cookies)
<1> DEFINE u == PlanCookies
<1>1. PICK p, q, r : CookieLayers(p, q, r)
  BY PlanCookiesAre
<1>2. /\ u \in CookieOccurrences
      /\ MergesTo(u, headerCookies(client), client.cookies, headerCookies(request),
                  request.cookies, p, q, r)
      /\ client.cookies \in CookieOccurrences /\ request.cookies \in CookieOccurrences
  BY <1>1 DEF CookieLayers
<1>3. i \in DOMAIN u /\ u[i].public /\ PreparedCookies[i].value = <<u[i].value>>
  <2>1. PreparedCookies = [j \in DOMAIN u |-> IF u[j].public THEN Present(<<u[j].value>>) ELSE Redacted]
    BY DEF PreparedCookies
  <2> HIDE DEF u
  <2> QED BY <2>1 DEF Present, Redacted
<1>4. DeliveredHeader[COOKIE] = AddCookies(u)
  BY PreparesShape, DeliveredIs, KeyShape
<1> HIDE DEF u
<1>5. DOMAIN u = 1..Len(u) /\ Len(u) \in Nat /\ u[i] \in Tagged(Words) /\ u[i] \in ToSet(u)
  BY <1>2, <1>3, SeqShape DEF CookieOccurrences, ToSet
<1>6. DeliveredHeader[COOKIE][1][i] = u[i].value
  <2>1. u # <<>>
    BY <1>3, <1>5
  <2>2. DeliveredHeader[COOKIE][1] = Raw(u)
    BY <1>4, <2>1 DEF AddCookies
  <2>3. Raw(u)[i] = u[i].value
    BY <1>2, <1>3, <1>5, RawType DEF CookieOccurrences
  <2> QED BY <2>2, <2>3
<1>7. u[i] = Value(u[i].value, TRUE)
  BY <1>3, <1>5 DEF Tagged, Value
<1>8. u[i] \in ToSet(request.cookies)
  <2>1. u[i] \in ToSet(p) \/ u[i] \in ToSet(q) \/ u[i] \in ToSet(r) \/ u[i] \in ToSet(request.cookies)
    BY <1>2, <1>5, MergedMembers DEF MergesTo, CookieOccurrences
  <2>2. u[i] \notin ToSet(p)
    <3>1. \A x \in ToSet(p) : x \in ToSet(headerCookies(client))
      BY <1>2 DEF MergesTo, From
    <3> QED BY <1>3, <3>1, HeaderCookiesType DEF BuilderInv
  <2>3. u[i] \notin ToSet(q)
    <3>1. \A x \in ToSet(q) : x \in ToSet(client.cookies)
      BY <1>2 DEF MergesTo, From
    <3>2. \A x \in ToSet(client.cookies) : ~x.public
      BY DEF BuilderInv, AllPrivate, ToSet
    <3> QED BY <1>3, <3>1, <3>2
  <2>4. u[i] \notin ToSet(r)
    <3>1. \A x \in ToSet(r) : x \in ToSet(headerCookies(request))
      BY <1>2 DEF MergesTo, From
    <3> QED BY <1>3, <3>1, HeaderCookiesType DEF BuilderInv
  <2> QED BY <2>1, <2>2, <2>3, <2>4
<1> QED BY <1>3, <1>6, <1>7, <1>8

\* PreparedValuesAreSent follows.
LEMMA PreparedValuesConsequence ==
    ASSUME BuilderInv, GeneratedTypeIsSole
    PROVE  PreparedValuesAreSent
  BY PreparedHeaderIsSent, PreparedOrderedIsSent, PreparedCookieIsSent
     DEF PreparedValuesAreSent, AllShownIsSent

-----------------------------------------------------------------------------
(* The order of the headers sent.                                           *)

\* Picking a part of a part.
LEMMA SubWithin ==
    ASSUME NEW A, NEW s, s \in Seq(A), NEW V, NEW W, W \subseteq V
    PROVE  Sub(Sub(s, V), W) = Sub(s, W)
<1>1. Sub(Sub(s, V), W) = Sub(s, V \cap W)
  BY SubSub
<1>2. V \cap W = W
  OBVIOUS
<1> QED BY <1>1, <1>2

\* A part that only the second of two sequences has.
LEMMA SubSecond ==
    ASSUME NEW A, NEW s, s \in Seq(A), NEW t, t \in Seq(A), NEW u, Joined(u, s, t), NEW W,
           \A x \in ToSet(s) : x \notin W
    PROVE  Sub(u, W) = Sub(t, W)
<1>1. Joined(Sub(u, W), Sub(s, W), Sub(t, W))
  BY SubJoined
<1>2. Sub(s, W) = <<>>
  BY SubNone
<1>3. Sub(t, W) \in Seq(A)
  BY SubType
<1> QED BY <1>1, <1>2, <1>3, EmptyConcat DEF Joined

\* A part that the last member is not in.
LEMMA SubFirst ==
    ASSUME NEW A, NEW s, s \in Seq(A), NEW x, x \in A, NEW u, Extended(u, s, x), NEW W, x \notin W
    PROVE  Sub(u, W) = Sub(s, W)
<1> DEFINE t == <<x>>
<1>1. t \in Seq(A) /\ Append(s, x) = s \o t
  OBVIOUS
<1>2. ToSet(t) = {x}
  BY DEF ToSet
<1>3. Joined(u, s, t)
  BY <1>1 DEF Joined, Extended
<1> HIDE DEF t
<1>4. Joined(Sub(u, W), Sub(s, W), Sub(t, W))
  BY <1>1, <1>3, SubJoined
<1>5. Sub(t, W) = <<>>
  BY <1>1, <1>2, SubNone
<1>6. Sub(s, W) \in Seq(A)
  BY SubType
<1> QED BY <1>4, <1>5, <1>6, EmptyConcat DEF Joined

\* The metadata with the type of the body.
TypedObject == NilIfEmpty(TypedOrdered(PlanOrdered, DeliveredBody.contentType))
PlanOrder == NamesOf(PlanOrdered.entries)
TypedOrder == NamesOf(TypedObject.entries)

\* The names it has.
TypedNames(t, p) ==
    \/ ~ReplacesContentType /\ t = p
    \/ ReplacesContentType /\ request.ordered.active /\ CT \in ToSet(p) /\ t = p
    \/ ReplacesContentType /\ request.ordered.active /\ CT \notin ToSet(p) /\ Extended(t, p, CT)
    \/ ReplacesContentType /\ ~request.ordered.active /\ t = Sub(p, Others(AnyNames, CT))

\* An object without entries is no object.
LEMMA NilIfEmptyIs ==
    ASSUME NEW o, o \in OrderedStates
    PROVE  NilIfEmpty(o) \in OrderedStates /\ NilIfEmpty(o).entries = o.entries
<1>1. o.entries \in Single(AnyNames, HeaderTexts)
  BY StateNames
<1> QED BY <1>1, ObjectIs DEF NilIfEmpty, OrderedStates

\* Writing a value under a name.
LEMMA SetNames ==
    ASSUME NEW N, NEW V, NEW e, e \in Single(N, V), NEW key, key \in Spelled(N), NEW v, v \in Seq(V),
           NEW u, u = setOrderedHeaderValues(e, key, v)
    PROVE  /\ u \in Single(N, V)
           /\ \/ key.name \in ToSet(NamesOf(e)) /\ NamesOf(u) = NamesOf(e)
              \/ key.name \notin ToSet(NamesOf(e)) /\ Extended(NamesOf(u), NamesOf(e), key.name)
<1>1. e \in Seq(Rows(N, V)) /\ OnePer(e) /\ u = Put(e, KnownKey(e, key), v)
  BY DEF Single, setOrderedHeaderValues
<1>2. u \in Single(N, V)
  BY <1>1, PutOnePer DEF Single
<1>3. ToSet(NamesOf(e)) = {e[i].key.name : i \in 1..Len(e)}
  BY <1>1, NamesShape
<1>4. CASE key.name \in ToSet(NamesOf(e))
  <2>1. PICK i \in 1..Len(e) : e[i].key.name = key.name
    BY <1>3, <1>4
  <2>2. NamesOf(u) = NamesOf(e)
    BY <1>1, <2>1, PutKnown DEF Replaces
  <2> QED BY <1>2, <1>4, <2>2
<1>5. CASE key.name \notin ToSet(NamesOf(e))
  <2>1. \A i \in 1..Len(e) : e[i].key.name # key.name
    BY <1>3, <1>5
  <2>2. Extended(NamesOf(u), NamesOf(e), key.name)
    BY <1>1, <2>1, PutNew DEF Extended
  <2> QED BY <1>2, <1>5, <2>2
<1> QED BY <1>4, <1>5

\* The type of the body adds at most its own name to the order.
LEMMA TypedIs ==
    ASSUME BuilderInv, DeliveredBody.err = "none"
    PROVE  TypedObject \in OrderedStates /\ TypedNames(TypedOrder, PlanOrder)
<1> DEFINE o == PlanOrdered
           t == DeliveredBody.contentType
           x == TypedOrdered(o, t)
<1>0. o \in OrderedStates /\ o.entries \in Single(AnyNames, HeaderTexts)
  BY PlanOrderedIs, StateNames
<1>1. Key(CT) \in Spelled(AnyNames) /\ Key(CT).name = CT
  BY KeyShape
<1>2. <<t>> \in Seq(HeaderTexts)
  <2>1. t \in HeaderTexts
    BY OpenedType
  <2> QED BY <2>1
<1>3. TypedObject = NilIfEmpty(x)
  BY DEF TypedObject
<1>4. x \in OrderedStates /\ TypedNames(NamesOf(x.entries), NamesOf(o.entries))
  <2>1. CASE ~ReplacesContentType
    <3>1. x = o
      BY <2>1 DEF TypedOrdered
    <3> QED BY <1>0, <2>1, <3>1 DEF TypedNames
  <2>2. CASE ReplacesContentType /\ request.ordered.active
    <3> DEFINE w == <<t>>
               e == o.entries
               key == Key(CT)
               u == setOrderedHeaderValues(e, key, w)
    <3>1. x = Object(u)
      BY <2>2 DEF TypedOrdered
    <3>2. /\ u = setOrderedHeaderValues(e, key, w) /\ w \in Seq(HeaderTexts) /\ key.name = CT
          /\ key \in Spelled(AnyNames) /\ e \in Single(AnyNames, HeaderTexts)
      BY <1>0, <1>1, <1>2
    <3> HIDE DEF u, w, e, key
    <3>3. /\ u \in Single(AnyNames, HeaderTexts)
          /\ \/ key.name \in ToSet(NamesOf(e)) /\ NamesOf(u) = NamesOf(e)
             \/ key.name \notin ToSet(NamesOf(e)) /\ Extended(NamesOf(u), NamesOf(e), key.name)
      BY <3>2, SetNames
    <3> HIDE DEF x, o
    <3>4. x \in OrderedStates /\ x.entries = u
      BY <3>1, <3>3, ObjectIs DEF OrderedStates
    <3> QED BY <2>2, <3>2, <3>3, <3>4 DEF TypedNames, e
  <2>3. CASE ReplacesContentType /\ ~request.ordered.active
    <3> DEFINE u == deleteOrderedHeader(o.entries, Key(CT))
    <3>1. x = [o EXCEPT !.entries = u]
      BY <2>3 DEF TypedOrdered
    <3> HIDE DEF o, t, x
    <3>2. u \in Single(AnyNames, HeaderTexts) /\ NamesOf(u) = Sub(NamesOf(o.entries), Others(AnyNames, CT))
      BY <1>0, <1>1, DeleteSingle
    <3>3. o.entries = <<>> => u = <<>>
      <4>1. ASSUME o.entries = <<>> PROVE NamesOf(u) = <<>>
        <5>1. NamesOf(<<>>) = <<>> /\ <<>> \in Seq(AnyNames) /\ \A y \in ToSet(<<>>) : y \notin Others(AnyNames, CT)
          BY EmptySingle DEF ToSet
        <5>2. Sub(<<>>, Others(AnyNames, CT)) = <<>>
          BY <5>1, SubNone
        <5> QED BY <3>2, <4>1, <5>1, <5>2
      <4>2. u \in Seq(Rows(AnyNames, HeaderTexts))
        BY <3>2, SingleShape
      <4> HIDE DEF u
      <4>3. NamesOf(u) = <<>> => u = <<>>
        BY <4>2, NamesShape, SeqShape
      <4> QED BY <4>1, <4>3
    <3> HIDE DEF u
    <3>4. /\ o.active \in BOOLEAN /\ (~o.active => o.entries = <<>>)
          /\ o = [active |-> o.active, entries |-> o.entries]
      BY <1>0, ObjectShape DEF OrderedStates
    <3>5. x = [active |-> o.active, entries |-> u]
      BY <3>1, <3>4
    <3>6. x \in OrderedStates /\ x.entries = u
      BY <3>2, <3>3, <3>4, <3>5 DEF OrderedStates, Objects
    <3> QED BY <2>3, <3>2, <3>6 DEF TypedNames
  <2> QED BY <2>1, <2>2, <2>3
<1> HIDE DEF x
<1>5. TypedObject \in OrderedStates /\ TypedObject.entries = x.entries
  BY <1>3, <1>4, NilIfEmptyIs
<1> QED BY <1>4, <1>5 DEF TypedOrder, PlanOrder

\* The names that are sent.
SentSynced == Synced(DeliveredHeader, AnyNames)

\* The order sent.
LEMMA DeliveredOrderedIs ==
    ASSUME BuilderInv, DeliveredBody.err = "none"
    PROVE  /\ DeliveredOrdered \in OrderedStates
           /\ NamesOf(DeliveredOrdered.entries) = Sub(TypedOrder, SentSynced)
           /\ Mirror(DeliveredOrdered.entries, DeliveredHeader)
<1> DEFINE r == syncOrderedHeaderValues(TypedObject, DeliveredHeader)
<1>1. TypedObject \in OrderedStates
  BY TypedIs
<1>2. SyncedTo(r, TypedObject, DeliveredHeader)
  BY <1>1, DeliveredType, SyncObject
<1>3. DeliveredOrdered = cloneOrderedHeaders(r)
  BY DEF DeliveredOrdered, TypedObject
<1> HIDE DEF r
<1>4. r \in OrderedStates
  BY <1>2 DEF SyncedTo
<1>5. DeliveredOrdered = r
  BY <1>3, <1>4, CloneObject DEF OrderedStates
<1> QED BY <1>2, <1>4, <1>5 DEF SyncedTo, TypedOrder, SentSynced

\* The names of an object that are in a set.
LEMMA NamesAmongIs ==
    ASSUME NEW o, o \in OrderedStates, NEW Q
    PROVE  NamesAmong(o, Q) = Sub(NamesOf(o.entries), Q)
<1> DEFINE e == o.entries
           I == {i \in DOMAIN e : e[i].key.name \in Q}
<1>1. e \in Seq(Rows(AnyNames, HeaderTexts))
  BY StateNames
<1>2. NamesAmong(o, Q) = NamesOf(Keep(e, I))
  BY DEF NamesAmong, NamesOf
<1> HIDE DEF e
<1>3. DOMAIN e = 1..Len(e)
  BY <1>1, SeqShape
<1>4. \A i \in 1..Len(e) : i \in I <=> e[i].key.name \in Q
  BY <1>3
<1> HIDE DEF I
<1>5. NamesOf(Keep(e, I)) = Sub(NamesOf(e), Q)
  BY <1>1, <1>4, NamesOfSub
<1> QED BY <1>2, <1>5 DEF e

\* Each name once, with the values of the headers.
LEMMA OnceAndMirrored ==
    ASSUME NEW o, o \in OrderedStates, NEW h, Mirror(o.entries, h)
    PROVE  OneEntryPerName(o) /\ Mirrors(o, h)
<1> DEFINE e == o.entries
<1>1. e \in Seq(Rows(AnyNames, HeaderTexts)) /\ Distinct(NamesOf(e))
  BY StateNames
<1>2. \A i, j \in DOMAIN e : e[i].key.name = e[j].key.name => i = j
  <2> HIDE DEF e
  <2> QED BY <1>1, NamesShape DEF Distinct
<1>3. Mirrors(o, h)
  BY DEF Mirrors, Mirror, isPseudoHeader
<1> QED BY <1>2, <1>3 DEF OneEntryPerName

\* What the caller asked for and is sent.
AskedSet ==
    {n \in AnyNames : n \in PseudoNames \/ (ValuesOf(request.ordered, n) # <<>> /\ DeliveredHeader[n] # <<>>)}
Asked == Sub(RequestOrder, AskedSet)
Wanted == ToSet(Asked)

\* The names the request asked for, in its order.
LEMMA AskedIs ==
    ASSUME BuilderInv
    PROVE  /\ AskedNames(request.ordered, DeliveredHeader) = Asked
           /\ Wanted = ToSet(RequestOrder) \cap AskedSet
<1>1. request.ordered \in OrderedStates
  BY MetadataShape DEF BuilderInv, Valid
<1>2. AskedNames(request.ordered, DeliveredHeader) = NamesAmong(request.ordered, AskedSet)
  BY DEF AskedNames, AskedSet
<1>3. NamesAmong(request.ordered, AskedSet) = Asked
  BY <1>1, NamesAmongIs DEF Asked, RequestOrder
<1>4. RequestOrder \in Seq(AnyNames)
  BY OrdersAre
<1>5. Wanted = ToSet(RequestOrder) \cap AskedSet
  BY <1>4, SubMembers DEF Wanted, Asked
<1> QED BY <1>2, <1>3, <1>5

\* None of the filters removes what is wanted.
LEMMA WantedStays ==
    ASSUME BuilderInv
    PROVE  /\ Wanted \subseteq NotPlain /\ Wanted \subseteq PlanSynced /\ Wanted \subseteq SentSynced
           /\ \A n \in Wanted : n \in AnyNames /\ HasName(request.ordered, n)
                                /\ request.ordered.active /\ HasName(PlanOrdered, n)
<1> SUFFICES ASSUME NEW n, n \in Wanted
             PROVE  /\ n \in NotPlain /\ n \in PlanSynced /\ n \in SentSynced
                    /\ n \in AnyNames /\ HasName(request.ordered, n)
                    /\ request.ordered.active /\ HasName(PlanOrdered, n)
  OBVIOUS
<1>1. n \in ToSet(RequestOrder) /\ n \in AskedSet
  BY AskedIs
<1>2. n \in AnyNames /\ HasName(request.ordered, n)
  BY <1>1, OrdersAre DEF AskedSet
<1>3. n \in PseudoNames \/ (ValuesOf(request.ordered, n) # <<>> /\ DeliveredHeader[n] # <<>>)
  BY <1>1 DEF AskedSet
<1>4. n \in NotPlain
  BY <1>2, NotPlainIs
<1>5. n \in SentSynced
  BY <1>2, <1>3, SyncedNames DEF SentSynced
<1>6. request.ordered.active
  <2>1. request.ordered \in OrderedStates /\ (~request.ordered.active => request.ordered.entries = <<>>)
    BY MetadataShape DEF BuilderInv, Valid
  <2>2. request.ordered.entries # <<>>
    BY <1>2 DEF HasName
  <2> QED BY <2>1, <2>2
<1>7. n \in PlanSynced
  <2>1. CASE n \in PseudoNames
    BY <1>2, <2>1, PlanSyncedIs
  <2>2. CASE n \notin PseudoNames
    <3>1. n \in HeaderNames
      BY <1>2, <2>2, KeyShape
    <3>2. Raw(request.headers[n]) # <<>>
      BY <1>3, <1>6, <2>2, <3>1 DEF BuilderInv, Valid, InSync
    <3>3. request.headers[n] # <<>>
      BY <3>1, <3>2, LayerIs DEF BuilderInv
    <3> QED BY <1>2, <3>3, PlanSyncedIs DEF Chosen
  <2> QED BY <2>1, <2>2
<1>8. HasName(PlanOrdered, n)
  BY <1>2, <1>4, <1>7, PlanHas
<1> QED BY <1>2, <1>4, <1>5, <1>6, <1>7, <1>8

\* The plan has the wanted names in the order the request gave them.
LEMMA PlanKeepsWanted ==
    ASSUME BuilderInv
    PROVE  Sub(PlanOrder, Wanted) = Asked /\ PlanOrder \in Seq(AnyNames)
           /\ \A n : n \in ToSet(PlanOrder) <=> HasName(PlanOrdered, n)
<1> DEFINE s == Sub(MergedOrder, NotPlain)
<1>1. PlanOrder = Sub(s, PlanSynced) /\ PlanOrdered \in OrderedStates
  BY PlanOrderedIs DEF PlanOrder
<1>2. PlanOrder \in Seq(AnyNames) /\ \A n : n \in ToSet(PlanOrder) <=> HasName(PlanOrdered, n)
  BY <1>1, StateNames DEF PlanOrder
<1>3. MergedOrder \in Seq(AnyNames) /\ ClientOrder \in Seq(AnyNames) /\ RequestOrder \in Seq(AnyNames)
  BY OrdersAre
<1>4. s \in Seq(AnyNames) /\ Sub(s, Wanted) = Sub(MergedOrder, Wanted)
  BY <1>3, WantedStays, SubType, SubWithin
<1>5. Sub(Sub(s, PlanSynced), Wanted) = Sub(s, Wanted)
  <2> HIDE DEF s
  <2> QED BY <1>4, WantedStays, SubWithin
<1> DEFINE R == AnyNames \ ToSet(RequestOrder)
           c == Sub(ClientOrder, R)
<1>6. Joined(MergedOrder, c, RequestOrder)
  BY DEF Joined, MergedOrder, MergeNames
<1>7. c \in Seq(AnyNames) /\ ToSet(c) = ToSet(ClientOrder) \cap R
  <2> HIDE DEF R
  <2> QED BY <1>3, SubType, SubMembers
<1>8. \A n \in ToSet(c) : n \notin Wanted
  BY <1>7, AskedIs
<1> HIDE DEF c, R
<1>9. Sub(MergedOrder, Wanted) = Sub(RequestOrder, Wanted)
  BY <1>3, <1>6, <1>7, <1>8, SubSecond
<1>10. Sub(RequestOrder, Wanted) = Asked
  <2>1. \A n \in ToSet(RequestOrder) : n \in Wanted <=> n \in AskedSet
    BY AskedIs
  <2> QED BY <1>3, <2>1, SubSame DEF Asked
<1> QED BY <1>1, <1>2, <1>4, <1>5, <1>9, <1>10

\* OrderedIntentKept follows.
LEMMA IntentConsequence ==
    ASSUME BuilderInv
    PROVE  OrderedIntentKept
<1> SUFFICES ASSUME Sends PROVE KeepsIntent(DeliveredOrdered, DeliveredHeader)
  BY DEF OrderedIntentKept
<1>1. DeliveredBody.err = "none"
  BY DEF Sends
<1>2. /\ DeliveredOrdered \in OrderedStates /\ Mirror(DeliveredOrdered.entries, DeliveredHeader)
      /\ NamesOf(DeliveredOrdered.entries) = Sub(TypedOrder, SentSynced)
  BY <1>1, DeliveredOrderedIs
<1>3. TypedOrder \in Seq(AnyNames) /\ TypedNames(TypedOrder, PlanOrder)
  BY <1>1, TypedIs, StateNames DEF TypedOrder
<1>4. Sub(TypedOrder, Wanted) = Sub(PlanOrder, Wanted)
  <2>1. CASE TypedOrder = PlanOrder
    BY <2>1
  <2>2. CASE CT \notin ToSet(PlanOrder) /\ Extended(TypedOrder, PlanOrder, CT)
    <3>1. CT \notin Wanted
      BY <2>2, WantedStays, PlanKeepsWanted
    <3>2. CT \in AnyNames
      BY KeyShape
    <3> QED BY <2>2, <3>1, <3>2, PlanKeepsWanted, SubFirst
  <2>3. CASE ~request.ordered.active
    <3>1. \A n : n \notin Wanted
      BY <2>3, WantedStays
    <3>2. Sub(TypedOrder, Wanted) = <<>>
      BY <1>3, <3>1, SubNone
    <3>3. Sub(PlanOrder, Wanted) = <<>>
      BY <3>1, PlanKeepsWanted, SubNone
    <3> QED BY <3>2, <3>3
  <2> QED BY <1>3, <2>1, <2>2, <2>3 DEF TypedNames
<1>5. Sub(NamesOf(DeliveredOrdered.entries), Wanted) = Asked
  <2>1. Sub(Sub(TypedOrder, SentSynced), Wanted) = Sub(TypedOrder, Wanted)
    BY <1>3, WantedStays, SubWithin
  <2> QED BY <1>2, <1>4, <2>1, PlanKeepsWanted
<1>6. NamesAmong(DeliveredOrdered, Wanted) = Asked
  BY <1>2, <1>5, NamesAmongIs
<1>7. OneEntryPerName(DeliveredOrdered) /\ Mirrors(DeliveredOrdered, DeliveredHeader)
  BY <1>2, OnceAndMirrored
<1> QED BY <1>6, <1>7, AskedIs DEF KeepsIntent, Wanted

-----------------------------------------------------------------------------
(* Headers that Preview shows.                                              *)

\* The request gives the name no ordered entry without values.
Plainly(n) == ~(HasName(request.ordered, n) /\ ValuesOf(request.ordered, n) = <<>>)

\* A name in the request's object has a header, and the other way round.
LEMMA RequestSpeaks ==
    ASSUME BuilderInv, NEW n, n \in HeaderNames, Plainly(n)
    PROVE  /\ HasName(request.ordered, n) => request.headers[n] # <<>> /\ request.ordered.active
           /\ request.ordered.active /\ request.headers[n] # <<>> => HasName(request.ordered, n)
<1>1. Valid(request) /\ request \in Metadata /\ request.ordered \in OrderedStates
  BY MetadataShape DEF BuilderInv, Valid
<1>2. HasName(request.ordered, n) => request.ordered.active
  BY <1>1, LayerIs
<1>3. request.ordered.active => ValuesOf(request.ordered, n) = Raw(request.headers[n])
  BY <1>1 DEF Valid, InSync
<1>4. Raw(request.headers[n]) = <<>> <=> request.headers[n] = <<>>
  BY <1>1, LayerIs
<1>5. ~HasName(request.ordered, n) => ValuesOf(request.ordered, n) = <<>>
  <2> DEFINE o == request.ordered
  <2>1. o.entries \in Seq(Rows(AnyNames, HeaderTexts))
    BY <1>1, StateNames
  <2>2. ASSUME ~HasName(o, n) PROVE \A i \in 1..Len(o.entries) : o.entries[i].key.name # n
    BY <2>1, <2>2, SeqShape DEF HasName
  <2> HIDE DEF o
  <2>3. ~HasName(o, n) => ValuesOf(o, n) = <<>>
    BY <2>1, <2>2, ValuesMissing
  <2> QED BY <2>3 DEF o
<1> QED BY <1>2, <1>3, <1>4, <1>5 DEF Plainly

\* A request that can be previewed has methods of the package only.
LEMMA PreviewAuths ==
    ASSUME BuilderInv, PreviewErr = "none"
    PROVE  /\ \A n : n # AUTH => ~Active(request.auth, n) /\ ~Active(client.auth, n)
           /\ AuthShapes # {"none"} <=> Active(request.auth, AUTH) \/ Active(client.auth, AUTH)
<1>1. client.auth \in AuthStates /\ request.auth \in AuthStates
  BY MetadataShape DEF BuilderInv, Valid
<1>2. AuthShapes \cap {"invalid", "unknown"} = {}
  BY DEF PreviewErr
<1>3. /\ builtInAuthShape(client.auth) \notin {"invalid", "unknown"}
      /\ builtInAuthShape(request.auth) \notin {"invalid", "unknown"}
  BY <1>2 DEF AuthShapes
<1>4. \A n : /\ Active(client.auth, n) <=> n = AUTH /\ builtInAuthShape(client.auth) # "none"
             /\ Active(request.auth, n) <=> n = AUTH /\ builtInAuthShape(request.auth) # "none"
  BY <1>1, <1>3, ActiveOnly
<1>5. AuthShapes # {"none"} <=> builtInAuthShape(client.auth) # "none" \/ builtInAuthShape(request.auth) # "none"
  BY DEF AuthShapes
<1> QED BY <1>4, <1>5

\* The values Preview works with.
LEMMA SemanticIs ==
    ASSUME BuilderInv, NEW n, n \in HeaderNames
    PROVE  /\ PreviewSemantic[n] \in Seq(HeaderTexts)
           /\ n = AUTH /\ AuthShapes # {"none"} => PreviewSemantic[n] # <<>>
           /\ ~(n = AUTH /\ AuthShapes # {"none"}) => PreviewSemantic[n] = Raw(Chosen(n))
           /\ n # CT \/ ~MultipartType => PreviewHeader[n] = PreviewSemantic[n]
<1> DEFINE plan == headerValues(PlanHeaders)
           x == <<<<"redacted">>>>
<1>1. plan[n] = Raw(Chosen(n)) /\ plan[n] \in Seq(HeaderTexts)
  BY PlanHeadersAre
<1>2. DOMAIN plan = HeaderNames
  BY DEF headerValues
<1>3. PreviewSemantic = IF AuthShapes = {"none"} THEN plan ELSE [plan EXCEPT ![AUTH] = x]
  BY DEF PreviewSemantic
<1>4. x \in Seq(HeaderTexts) /\ x # <<>>
  <2>1. <<"redacted">> \in HeaderTexts
    BY DEF HeaderTexts, Words
  <2> QED BY <2>1
<1> HIDE DEF plan, x
<1>5. PreviewSemantic[n] = IF n = AUTH /\ AuthShapes # {"none"} THEN x ELSE plan[n]
  BY <1>2, <1>3
<1>6. DOMAIN PreviewSemantic = HeaderNames
  BY <1>2, <1>3
<1>7. n # CT \/ ~MultipartType => PreviewHeader[n] = PreviewSemantic[n]
  BY <1>6 DEF PreviewHeader, deleteHeaderValues
<1> QED BY <1>1, <1>4, <1>5, <1>7

\* The names in the order Preview shows.
LEMMA PreviewHas ==
    ASSUME BuilderInv, NEW n, n \in HeaderNames, ~(n = CT /\ MultipartType)
    PROVE  HasName(PreviewOrdered, n) <=> HasName(PlanOrdered, n) /\ PreviewSemantic[n] # <<>>
<1> DEFINE s == syncOrderedHeaderValues(PlanOrdered, PreviewSemantic)
           d == [s EXCEPT !.entries = deleteOrderedHeader(s.entries, Key(CT))]
<1>1. PreviewOrdered = IF MultipartType THEN d ELSE s
  BY DEF PreviewOrdered
<1>2. PlanOrdered \in OrderedStates
  BY PlanOrderedIs
<1>3. SyncedTo(s, PlanOrdered, PreviewSemantic)
  <2>1. \A k \in HeaderNames : PreviewSemantic[k] \in Seq(HeaderTexts)
    BY SemanticIs
  <2> QED BY <1>2, <2>1, SyncObject
<1> HIDE DEF s
<1>4. s \in OrderedStates /\ NamesOf(s.entries) = Sub(PlanOrder, Synced(PreviewSemantic, AnyNames))
  BY <1>3 DEF SyncedTo, PlanOrder
<1>5. HasName(s, n) <=> n \in ToSet(NamesOf(s.entries))
  BY <1>4, StateNames
<1>6. n \in AnyNames /\ n \notin PseudoNames
  BY KeyShape
<1>7. HasName(s, n) <=> HasName(PlanOrdered, n) /\ PreviewSemantic[n] # <<>>
  <2> DEFINE W == Synced(PreviewSemantic, AnyNames)
  <2>1. PlanOrder \in Seq(AnyNames) /\ (n \in ToSet(PlanOrder) <=> HasName(PlanOrdered, n))
    BY PlanKeepsWanted
  <2>2. n \in W <=> PreviewSemantic[n] # <<>>
    BY <1>6, SyncedNames
  <2> HIDE DEF W
  <2>3. ToSet(Sub(PlanOrder, W)) = ToSet(PlanOrder) \cap W
    BY <2>1, SubMembers
  <2> QED BY <1>4, <1>5, <2>1, <2>2, <2>3 DEF W
<1>8. CASE ~MultipartType
  BY <1>1, <1>7, <1>8
<1>9. CASE MultipartType
  <2> DEFINE e == s.entries
             key == Key(CT)
             u == deleteOrderedHeader(e, key)
  <2>1. e \in Single(AnyNames, HeaderTexts) /\ key \in Spelled(AnyNames) /\ key.name = CT
    BY <1>4, StateNames, KeyShape
  <2>2. NamesOf(e) \in Seq(AnyNames)
    BY <1>4, StateNames
  <2>3. u \in Single(AnyNames, HeaderTexts) /\ NamesOf(u) = Sub(NamesOf(e), Others(AnyNames, CT))
    <3> HIDE DEF e, key
    <3> QED BY <2>1, DeleteSingle
  <2>4. d.entries = u
    <3>1. s = [active |-> s.active, entries |-> s.entries]
      BY <1>4, ObjectShape DEF OrderedStates
    <3> HIDE DEF u
    <3>2. d = [s EXCEPT !.entries = u]
      BY DEF u
    <3> HIDE DEF d
    <3> QED BY <3>1, <3>2
  <2> HIDE DEF u, d
  <2>5. d.entries \in Seq(Rows(AnyNames, HeaderTexts))
    BY <2>3, <2>4, SingleShape
  <2>6. HasName(d, n) <=> n \in ToSet(NamesOf(d.entries))
    BY <2>5, HasNameIs
  <2> HIDE DEF e
  <2>7. ToSet(Sub(NamesOf(e), Others(AnyNames, CT))) = ToSet(NamesOf(e)) \cap Others(AnyNames, CT)
    BY <2>2, SubMembers
  <2>8. n \in Others(AnyNames, CT)
    BY <1>6, <1>9 DEF Others
  <2>9. HasName(d, n) <=> n \in ToSet(NamesOf(e))
    BY <2>3, <2>4, <2>6, <2>7, <2>8
  <2> QED BY <1>1, <1>5, <1>7, <1>9, <2>9 DEF e
<1> QED BY <1>8, <1>9

\* The names in the order sent.
LEMMA SentHas ==
    ASSUME BuilderInv, DeliveredBody.err = "none", NEW n, n \in HeaderNames
    PROVE  HasName(DeliveredOrdered, n) <=> DeliveredHeader[n] # <<>> /\
                IF n = CT /\ ReplacesContentType THEN request.ordered.active ELSE HasName(PlanOrdered, n)
<1>1. /\ DeliveredOrdered \in OrderedStates
      /\ NamesOf(DeliveredOrdered.entries) = Sub(TypedOrder, SentSynced)
  BY DeliveredOrderedIs
<1>2. TypedOrder \in Seq(AnyNames) /\ TypedNames(TypedOrder, PlanOrder)
  BY TypedIs, StateNames DEF TypedOrder
<1>3. PlanOrder \in Seq(AnyNames) /\ (n \in ToSet(PlanOrder) <=> HasName(PlanOrdered, n))
  BY PlanKeepsWanted
<1>4. n \in AnyNames /\ n \notin PseudoNames /\ CT \in AnyNames
  BY KeyShape
<1>5. HasName(DeliveredOrdered, n) <=> n \in ToSet(Sub(TypedOrder, SentSynced))
  BY <1>1, StateNames
<1>6. ToSet(Sub(TypedOrder, SentSynced)) = ToSet(TypedOrder) \cap SentSynced
  BY <1>2, SubMembers
<1>7. n \in SentSynced <=> DeliveredHeader[n] # <<>>
  BY <1>4, SyncedNames DEF SentSynced
<1>8. n \in ToSet(TypedOrder) <=>
        IF n = CT /\ ReplacesContentType THEN request.ordered.active ELSE n \in ToSet(PlanOrder)
  <2>1. CASE ~ReplacesContentType
    BY <1>2, <2>1 DEF TypedNames
  <2>2. CASE ReplacesContentType /\ request.ordered.active
    <3>1. CASE CT \in ToSet(PlanOrder)
      BY <1>2, <2>2, <3>1 DEF TypedNames
    <3>2. CASE CT \notin ToSet(PlanOrder)
      <4>1. Extended(TypedOrder, PlanOrder, CT)
        BY <1>2, <2>2, <3>2 DEF TypedNames
      <4> DEFINE t == <<CT>>
      <4>2. t \in Seq(AnyNames) /\ Append(PlanOrder, CT) = PlanOrder \o t /\ ToSet(t) = {CT}
        BY <1>3, <1>4 DEF ToSet
      <4>3. Joined(TypedOrder, PlanOrder, t)
        BY <4>1, <4>2 DEF Joined, Extended
      <4> HIDE DEF t
      <4>4. n \in ToSet(TypedOrder) <=> n \in ToSet(PlanOrder) \/ n \in ToSet(t)
        BY <1>3, <4>2, <4>3, ConcatMembers
      <4> QED BY <2>2, <4>2, <4>4
    <3> QED BY <3>1, <3>2
  <2>3. CASE ReplacesContentType /\ ~request.ordered.active
    <3>1. TypedOrder = Sub(PlanOrder, Others(AnyNames, CT))
      BY <1>2, <2>3 DEF TypedNames
    <3>2. ToSet(TypedOrder) = ToSet(PlanOrder) \cap Others(AnyNames, CT)
      BY <1>3, <3>1, SubMembers
    <3>3. n \in Others(AnyNames, CT) <=> n # CT
      BY <1>4 DEF Others
    <3> QED BY <2>3, <3>2, <3>3
  <2> QED BY <2>1, <2>2, <2>3
<1> QED BY <1>3, <1>5, <1>6, <1>7, <1>8

\* A type that the body generated is in the request's headers and in the
\* metadata exactly when the request has some.
LEMMA OwnTypeAgrees ==
    ASSUME BuilderInv, DeliveredBody.err = "none", ReplacesContentType, ~MultipartType, Plainly(CT)
    PROVE  /\ request.headers[CT] # <<>>
           /\ DeliveredBody.contentType = Get(headerValues(request.headers), CT)
           /\ HasName(PlanOrdered, CT) <=> request.ordered.active
<1>1. body.kind # "multipart"
  BY DEF MultipartType, ReplacesContentType
<1>2. DeliveredBody.contentType = Get(headerValues(request.headers), CT) /\ DeliveredBody.contentType # <<>>
  BY <1>1, OpenedType DEF ReplacesContentType
<1>3. CT \in HeaderNames /\ CT \in AnyNames
  BY KeyShape
<1>4. headerValues(request.headers)[CT] = Raw(request.headers[CT])
  BY <1>3 DEF headerValues
<1>5. request.headers[CT] # <<>>
  BY <1>2, <1>3, <1>4, LayerIs DEF Get, BuilderInv
<1>6. HasName(request.ordered, CT) <=> request.ordered.active
  BY <1>3, <1>5, RequestSpeaks
<1>7. CT \in PlanSynced
  BY <1>3, <1>5, PlanSyncedIs DEF Chosen
<1>8. CT \in NotPlain <=> HasName(request.ordered, CT)
  BY <1>3, <1>5, NotPlainIs
<1>9. HasName(PlanOrdered, CT) <=> HasName(request.ordered, CT)
  BY <1>3, <1>7, <1>8, PlanHas
<1> QED BY <1>2, <1>5, <1>6, <1>9

\* Without a type of the body and a method, the values are those of the plan.
LEMMA PlanValuesSent ==
    ASSUME BuilderInv, NEW n, n \in HeaderNames, n # COOKIE, Plainly(n), ~(n = CT /\ ReplacesContentType),
           ~Active(request.auth, n), ~Active(client.auth, n)
    PROVE  DeliveredHeader[n] = Raw(Chosen(n))
<1>1. DeliveredHeader[n] = Overlaid(n)
  BY DeliveredIs
<1> QED BY <1>1, RequestSpeaks DEF Overlaid, Chosen

\* A method gives Authorization a value.
LEMMA AuthorizationSent ==
    ASSUME BuilderInv, Plainly(AUTH), Active(request.auth, AUTH) \/ Active(client.auth, AUTH)
    PROVE  DeliveredHeader[AUTH] # <<>>
<1>1. AUTH \in HeaderNames /\ AUTH # CT /\ AUTH # COOKIE
  BY KeyShape
<1>2. DeliveredHeader[AUTH] = IF Active(request.auth, AUTH) THEN <<request.auth.value>> ELSE Overlaid(AUTH)
  BY <1>1, DeliveredIs
<1>3. \A x : <<x>> # <<>>
  OBVIOUS
<1>4. ~Active(request.auth, AUTH) => Overlaid(AUTH) # <<>>
  <2>1. request.headers[AUTH] # <<>> => Raw(request.headers[AUTH]) # <<>>
    BY <1>1, LayerIs DEF BuilderInv
  <2>2. HasName(request.ordered, AUTH) => request.headers[AUTH] # <<>>
    BY <1>1, RequestSpeaks
  <2> QED BY <1>3, <2>1, <2>2 DEF Overlaid
<1> QED BY <1>2, <1>3, <1>4

\* PreviewHeadersSent follows.
LEMMA PreviewHeadersConsequence ==
    ASSUME BuilderInv
    PROVE  PreviewHeadersSent
<1> SUFFICES ASSUME PreviewErr = "none", Sends, NEW n \in HeaderNames \ {COOKIE},
                    ~(HasName(request.ordered, n) /\ ValuesOf(request.ordered, n) = <<>>),
                    ~(n = CT /\ MultipartType)
             PROVE  /\ PreviewHeader[n] # <<>> <=> DeliveredHeader[n] # <<>>
                    /\ n = CT => Get(PreviewHeader, n) = Get(DeliveredHeader, n)
                    /\ HasName(PreviewOrdered, n) <=> HasName(DeliveredOrdered, n)
  BY DEF PreviewHeadersSent, HeadersAgree
<1>1. DeliveredBody.err = "none" /\ Plainly(n) /\ n \in HeaderNames /\ n # COOKIE
  BY DEF Sends, Plainly
<1>2. PreviewHeader[n] = PreviewSemantic[n]
  BY <1>1, SemanticIs
<1>3. /\ HasName(PreviewOrdered, n) <=> HasName(PlanOrdered, n) /\ PreviewSemantic[n] # <<>>
      /\ HasName(DeliveredOrdered, n) <=> DeliveredHeader[n] # <<>> /\
            IF n = CT /\ ReplacesContentType THEN request.ordered.active ELSE HasName(PlanOrdered, n)
  BY <1>1, PreviewHas, SentHas
<1>4. CT # AUTH
  BY KeyShape
<1>5. CASE n = CT /\ ReplacesContentType
  <2>1. /\ request.headers[n] # <<>> /\ DeliveredBody.contentType = Get(headerValues(request.headers), n)
        /\ HasName(PlanOrdered, n) <=> request.ordered.active
    BY <1>1, <1>5, OwnTypeAgrees
  <2>2. PreviewSemantic[n] = Raw(request.headers[n])
    BY <1>1, <1>4, <1>5, <2>1, SemanticIs DEF Chosen
  <2>3. Raw(request.headers[n]) # <<>> /\ headerValues(request.headers)[n] = Raw(request.headers[n])
    BY <1>1, <2>1, LayerIs DEF BuilderInv, headerValues
  <2>4. DeliveredHeader[n] = <<DeliveredBody.contentType>>
    BY <1>1, <1>4, <1>5, DeliveredIs, PreviewAuths
  <2>5. DeliveredHeader[n] # <<>> /\ DeliveredHeader[n][1] = DeliveredBody.contentType
    BY <2>4
  <2>6. Get(PreviewHeader, n) = Get(headerValues(request.headers), n)
    BY <1>2, <2>2, <2>3 DEF Get
  <2>7. Get(DeliveredHeader, n) = DeliveredBody.contentType
    BY <2>5 DEF Get
  <2> QED BY <1>2, <1>3, <1>5, <2>1, <2>2, <2>3, <2>5, <2>6, <2>7
<1>6. CASE n = AUTH /\ AuthShapes # {"none"}
  <2>1. PreviewSemantic[n] # <<>>
    BY <1>1, <1>6, SemanticIs
  <2>2. DeliveredHeader[n] # <<>>
    BY <1>1, <1>6, PreviewAuths, AuthorizationSent
  <2> QED BY <1>2, <1>3, <1>4, <1>6, <2>1, <2>2
<1>7. CASE ~(n = CT /\ ReplacesContentType) /\ ~(n = AUTH /\ AuthShapes # {"none"})
  <2>1. ~Active(request.auth, n) /\ ~Active(client.auth, n)
    BY <1>7, PreviewAuths
  <2>2. DeliveredHeader[n] = Raw(Chosen(n))
    BY <1>1, <1>7, <2>1, PlanValuesSent
  <2>3. PreviewSemantic[n] = Raw(Chosen(n))
    BY <1>1, <1>7, SemanticIs
  <2>4. Get(PreviewHeader, n) = Get(DeliveredHeader, n)
    BY <1>2, <2>2, <2>3 DEF Get
  <2> QED BY <1>2, <1>3, <1>7, <2>2, <2>3, <2>4
<1> QED BY <1>5, <1>6, <1>7

-----------------------------------------------------------------------------
(* The target.                                                              *)

\* The target has the shapes of its inputs.
TokenTypes == [text: Words, param: BOOLEAN]
QueryTypes == [name: Words, value: Tagged(Words)]
TemplateTypes ==
    [absolute: BOOLEAN, scheme: Seq(TokenTypes), authority: Seq(TokenTypes), path: Seq(TokenTypes),
     query: Seq([name: TokenTypes, value: TokenTypes]), malformed: BOOLEAN]

TargetInv ==
    /\ base \in [set: BOOLEAN, path: Seq(TokenTypes), query: Seq(QueryTypes)]
    /\ path \in [template: TemplateTypes, public: BOOLEAN]
    /\ \A p \in DOMAIN params : params[p] \in Tagged(Words)
    /\ queries \in Seq(QueryTypes)

\* A sequence over a larger set.
LEMMA SeqLarger ==
    ASSUME NEW A, NEW B, A \subseteq B, NEW s, s \in Seq(A)
    PROVE  s \in Seq(B)
<1>1. Len(s) \in Nat /\ s = [i \in 1..Len(s) |-> s[i]] /\ \A i \in 1..Len(s) : s[i] \in B
  BY SeqShape
<1> QED BY <1>1

\* What the assumption says of the inputs, in these types.
LEMMA TargetTypes ==
    /\ BaseURLs \subseteq [set: BOOLEAN, path: Seq(TokenTypes), query: Seq(QueryTypes)]
    /\ Templates \subseteq TemplateTypes
    /\ QueryNames \subseteq Words /\ Tags \subseteq BOOLEAN /\ "v" \in Words /\ "q" \in Words
<1> USE TargetAssumption DEF TargetAssumption
<1>1. STRING \subseteq Words /\ "v" \in Words /\ "q" \in Words
  BY DEF Words
<1>2. Tokens \subseteq TokenTypes
  BY <1>1 DEF Tokens, TokenTypes
<1>3. [name: STRING, value: [value: STRING, public: BOOLEAN]] \subseteq QueryTypes
  BY <1>1 DEF QueryTypes, Tagged
<1>4. [name: Tokens, value: Tokens] \subseteq [name: TokenTypes, value: TokenTypes]
  BY <1>2
<1> DEFINE T == Tokens
           U == [name: STRING, value: [value: STRING, public: BOOLEAN]]
           R == [name: Tokens, value: Tokens]
           R2 == [name: TokenTypes, value: TokenTypes]
<1>5. T \subseteq TokenTypes /\ U \subseteq QueryTypes /\ R \subseteq R2
  BY <1>2, <1>3, <1>4
<1>6. ASSUME NEW b \in BaseURLs
      PROVE  b \in [set: BOOLEAN, path: Seq(TokenTypes), query: Seq(QueryTypes)]
  <2>1. b \in [set: {TRUE}, path: Seq(T), query: Seq(U)]
    BY DEF QueryOccurrences
  <2> HIDE DEF T, U
  <2>2. b.set \in BOOLEAN /\ b.path \in Seq(T) /\ b.query \in Seq(U)
        /\ b = [set |-> b.set, path |-> b.path, query |-> b.query]
    BY <2>1
  <2>3. b.path \in Seq(TokenTypes)
    BY <1>5, <2>2, SeqLarger
  <2>4. b.query \in Seq(QueryTypes)
    BY <1>5, <2>2, SeqLarger
  <2> QED BY <2>2, <2>3, <2>4
<1>7. ASSUME NEW t \in Templates
      PROVE  t \in TemplateTypes
  <2>1. t \in [absolute: BOOLEAN, scheme: Seq(T), authority: Seq(T), path: Seq(T),
               query: Seq(R), malformed: BOOLEAN]
    OBVIOUS
  <2> HIDE DEF T, R, R2
  <2>2. /\ t.absolute \in BOOLEAN /\ t.scheme \in Seq(T) /\ t.authority \in Seq(T) /\ t.path \in Seq(T)
        /\ t.query \in Seq(R) /\ t.malformed \in BOOLEAN
        /\ t = [absolute |-> t.absolute, scheme |-> t.scheme, authority |-> t.authority,
                path |-> t.path, query |-> t.query, malformed |-> t.malformed]
    BY <2>1
  <2>3. t.scheme \in Seq(TokenTypes) /\ t.authority \in Seq(TokenTypes)
    BY <1>5, <2>2, SeqLarger
  <2>4. t.path \in Seq(TokenTypes)
    BY <1>5, <2>2, SeqLarger
  <2>5. t.query \in Seq(R2)
    BY <1>5, <2>2, SeqLarger
  <2> QED BY <2>2, <2>3, <2>4, <2>5 DEF TemplateTypes, R2
<1> QED BY <1>1, <1>6, <1>7

\* A new request has a target of these shapes.
LEMMA TargetInitLemma ==
    ASSUME TargetInit
    PROVE  TargetInv
<1>1. \A A : <<>> \in Seq(A)
  OBVIOUS
<1>2. NoBase \in [set: BOOLEAN, path: Seq(TokenTypes), query: Seq(QueryTypes)]
  BY <1>1 DEF NoBase
<1>3. Template(FALSE, <<>>, <<>>, <<>>) \in TemplateTypes
  BY <1>1 DEF Template, TemplateTypes
<1>4. path \in [template: TemplateTypes, public: BOOLEAN]
  BY <1>3 DEF TargetInit
<1>5. DOMAIN params = {}
  BY DEF TargetInit
<1> QED BY <1>1, <1>2, <1>4, <1>5 DEF TargetInit, TargetInv

\* Every call keeps them.
LEMMA TargetNextLemma ==
    ASSUME TargetInv, TargetNext \/ UNCHANGED targetVars
    PROVE  TargetInv'
<1>1. CASE UNCHANGED targetVars
  BY <1>1 DEF targetVars, TargetInv
<1>2. CASE WithBaseURL
  BY <1>2, TargetTypes DEF WithBaseURL, TargetInv
<1>3. CASE PathValue
  <2>1. path' \in [template: TemplateTypes, public: BOOLEAN]
    BY <1>3, TargetTypes DEF PathValue
  <2> QED BY <1>3, <2>1 DEF PathValue, TargetInv
<1>4. CASE PathParamValue
  <2>1. PICK p \in Params, public \in Tags :
            params' = [q \in DOMAIN params \cup {p} |-> IF q = p THEN Value("v", public) ELSE params[q]]
    BY <1>4 DEF PathParamValue
  <2>2. Value("v", public) \in Tagged(Words)
    BY TargetTypes, ValueType
  <2>3. \A q \in DOMAIN params' : params'[q] \in Tagged(Words)
    BY <2>1, <2>2 DEF TargetInv
  <2> QED BY <1>4, <2>3 DEF PathParamValue, TargetInv
<1>5. CASE DelPathParam
  <2>1. \A q \in DOMAIN params' : params'[q] \in Tagged(Words)
    BY <1>5 DEF DelPathParam, TargetInv
  <2> QED BY <1>5, <2>1 DEF DelPathParam, TargetInv
<1>6. CASE QueryValue
  <2>1. PICK n \in QueryNames, public \in Tags :
            queries' = Append(queries, [name |-> n, value |-> Value("q", public)])
    BY <1>6 DEF QueryValue
  <2>2. Value("q", public) \in Tagged(Words)
    BY TargetTypes, ValueType
  <2> DEFINE x == [name |-> n, value |-> Value("q", public)]
  <2>3. x \in QueryTypes
    BY <2>2, TargetTypes DEF QueryTypes
  <2> HIDE DEF x
  <2>4. Append(queries, x) \in Seq(QueryTypes)
    BY <2>3 DEF TargetInv
  <2> QED BY <1>6, <2>1, <2>4 DEF QueryValue, TargetInv, x
<1>7. CASE DelQuery
  <2>1. PICK n \in QueryNames : queries' = Keep(queries, {i \in DOMAIN queries : queries[i].name # n})
    BY <1>7 DEF DelQuery
  <2>2. queries \in Seq(QueryTypes)
    BY DEF TargetInv
  <2> DEFINE I == {i \in DOMAIN queries : queries[i].name # n}
  <2>3. queries' = Keep(queries, I)
    BY <2>1
  <2> HIDE DEF I
  <2>4. queries' \in Seq(QueryTypes)
    BY <2>2, <2>3, KeepType
  <2> QED BY <1>7, <2>4 DEF DelQuery, TargetInv
<1> QED BY <1>1, <1>2, <1>3, <1>4, <1>5, <1>6, <1>7 DEF TargetNext

NamedAt(s, n) == {i \in DOMAIN s : s[i].name = n}

\* The occurrences of a name in a concatenation.
LEMMA NamedJoined ==
    ASSUME NEW A, NEW s, s \in Seq(A), NEW t, t \in Seq(A), NEW u, Joined(u, s, t), NEW n
    PROVE  /\ Joined(Named(u, n), Named(s, n), Named(t, n))
           /\ Named(u, n) \in Seq(A) /\ Named(s, n) \in Seq(A) /\ Named(t, n) \in Seq(A)
<1>1. IsConcat(u, s, t) /\ u \in Seq(A)
  BY JoinedShape
<1>2. DOMAIN s = 1..Len(s) /\ DOMAIN t = 1..Len(t) /\ Len(s) \in Nat /\ Len(t) \in Nat
  BY SeqShape
<1> DEFINE I == NamedAt(s, n)
           J == NamedAt(t, n)
           K == NamedAt(u, n)
<1>3. Joins(K, Len(s), I, Len(t), J)
  BY <1>1, <1>2 DEF Joins, IsConcat, NamedAt
<1>4. Named(s, n) = Keep(s, I) /\ Named(t, n) = Keep(t, J) /\ Named(u, n) = Keep(u, K)
  BY DEF Named, NamedAt
<1> HIDE DEF I, J, K
<1>5. Keep(s \o t, K) = Keep(s, I) \o Keep(t, J)
  BY <1>3, KeepConcat
<1>6. u = s \o t
  BY DEF Joined
<1>7. Keep(u, K) \in Seq(A) /\ Keep(s, I) \in Seq(A) /\ Keep(t, J) \in Seq(A)
  BY <1>1, KeepType
<1> QED BY <1>4, <1>5, <1>6, <1>7 DEF Joined

\* The occurrences t are those of s, made private.
Hides(t, s) ==
    Len(t) = Len(s) /\ \A j \in 1..Len(s) : t[j].value.value = s[j].value.value /\ ~t[j].value.public

\* PrivateQuery changes the tags only.
LEMMA PrivateIs ==
    ASSUME NEW s, s \in Seq(QueryTypes)
    PROVE  /\ PrivateQuery(s) \in Seq(QueryTypes) /\ Len(PrivateQuery(s)) = Len(s)
           /\ \A i \in 1..Len(s) : /\ PrivateQuery(s)[i].name = s[i].name
                                   /\ PrivateQuery(s)[i].value.value = s[i].value.value
                                   /\ ~PrivateQuery(s)[i].value.public
<1> DEFINE t == PrivateQuery(s)
<1>1. DOMAIN s = 1..Len(s) /\ Len(s) \in Nat /\ \A i \in 1..Len(s) : s[i] \in QueryTypes
  BY SeqShape
<1>2. t = [i \in 1..Len(s) |-> [s[i] EXCEPT !.value = Value(s[i].value.value, FALSE)]]
  BY <1>1 DEF PrivateQuery
<1>3. ASSUME NEW i \in 1..Len(s)
      PROVE  /\ t[i] \in QueryTypes /\ t[i].name = s[i].name
             /\ t[i].value.value = s[i].value.value /\ ~t[i].value.public
  <2>1. s[i].name \in Words /\ s[i].value.value \in Words
        /\ s[i] = [name |-> s[i].name, value |-> s[i].value]
    BY <1>1 DEF QueryTypes, Tagged
  <2> DEFINE x == Value(s[i].value.value, FALSE)
  <2>2. x \in Tagged(Words) /\ x.value = s[i].value.value /\ ~x.public
    BY <2>1, ValueType
  <2>3. t[i] = [s[i] EXCEPT !.value = x]
    BY <1>2
  <2> HIDE DEF x, t
  <2>4. t[i] = [name |-> s[i].name, value |-> x]
    BY <2>1, <2>3
  <2> QED BY <2>1, <2>2, <2>4 DEF QueryTypes
<1>4. t \in Seq(QueryTypes) /\ Len(t) = Len(s)
  <2>1. t = [i \in 1..Len(s) |-> t[i]]
    BY <1>2
  <2> HIDE DEF t
  <2> QED BY <1>1, <1>3, <2>1
<1> QED BY <1>3, <1>4

\* So it does for one name.
LEMMA NamedPrivate ==
    ASSUME NEW s, s \in Seq(QueryTypes), NEW n
    PROVE  Hides(Named(PrivateQuery(s), n), Named(s, n))
<1> DEFINE t == PrivateQuery(s)
           I == NamedAt(s, n)
           J == NamedAt(t, n)
<1>1. /\ t \in Seq(QueryTypes) /\ Len(t) = Len(s)
      /\ \A i \in 1..Len(s) : t[i].name = s[i].name /\ t[i].value.value = s[i].value.value
                              /\ ~t[i].value.public
  BY PrivateIs
<1> HIDE DEF t
<1>2. DOMAIN s = 1..Len(s) /\ DOMAIN t = 1..Len(s) /\ Len(s) \in Nat
  BY <1>1, SeqShape
<1>3. \A i \in 1..Len(t) : i \in J <=> i \in I
  BY <1>1, <1>2 DEF NamedAt
<1>4. Named(s, n) = Keep(s, I) /\ Named(t, n) = Keep(t, J)
  BY DEF Named, NamedAt
<1> HIDE DEF I, J
<1>5. Keep(t, J) = Keep(t, I)
  BY <1>1, <1>3, KeepSame
<1>6. /\ Len(Keep(t, I)) = Len(Keep(s, I))
      /\ \A j \in 1..Len(Keep(s, I)) :
            \E i \in I \cap 1..Len(s) : Keep(s, I)[j] = s[i] /\ Keep(t, I)[j] = t[i]
  BY <1>1, KeepMap
<1>7. Hides(Keep(t, I), Keep(s, I))
  BY <1>1, <1>6 DEF Hides
<1> QED BY <1>4, <1>5, <1>7 DEF t

\* Two hidden parts make one.
LEMMA HidesJoined ==
    ASSUME NEW A, NEW a, a \in Seq(A), NEW b, b \in Seq(A), NEW c, c \in Seq(A), NEW d, d \in Seq(A),
           Hides(c, a), Hides(d, b), NEW s, Joined(s, a, b), NEW t, Joined(t, c, d)
    PROVE  Hides(t, s)
<1>1. IsConcat(s, a, b) /\ IsConcat(t, c, d)
  BY JoinedShape
<1>2. /\ Len(a) \in Nat /\ Len(b) \in Nat /\ Len(c) = Len(a) /\ Len(d) = Len(b)
      /\ Len(s) = Len(a) + Len(b) /\ Len(t) = Len(s)
  BY <1>1 DEF IsConcat, Hides
<1>3. ASSUME NEW i \in 1..Len(s)
      PROVE  t[i].value.value = s[i].value.value /\ ~t[i].value.public
  <2>1. i \in 1..Len(a) \/ \E j \in 1..Len(b) : i = Len(a) + j
    BY <1>1, <1>2 DEF IsConcat
  <2>2. CASE i \in 1..Len(a)
    <3>1. t[i] = c[i] /\ s[i] = a[i]
      BY <1>1, <1>2, <2>2 DEF IsConcat
    <3> QED BY <2>2, <3>1 DEF Hides
  <2>3. ASSUME NEW j \in 1..Len(b), i = Len(a) + j
        PROVE  t[i].value.value = s[i].value.value /\ ~t[i].value.public
    <3>1. s[Len(a) + j] = b[j]
      BY <1>1 DEF IsConcat
    <3>2. j \in 1..Len(d) /\ i = Len(c) + j
      BY <1>2, <2>3
    <3>3. t[Len(c) + j] = d[j]
      BY <1>1, <3>2 DEF IsConcat
    <3> QED BY <2>3, <3>1, <3>2, <3>3 DEF Hides
  <2> QED BY <2>1, <2>2, <2>3
<1> QED BY <1>2, <1>3 DEF Hides

\* The last part is the same.
LEMMA HidesTail ==
    ASSUME NEW A, NEW a, a \in Seq(A), NEW c, c \in Seq(A), NEW q, q \in Seq(A), Hides(c, a),
           NEW s, Joined(s, a, q), NEW t, Joined(t, c, q)
    PROVE  /\ Len(t) = Len(s)
           /\ \A i \in DOMAIN t :
                /\ t[i].value.value = s[i].value.value
                /\ t[i].value.public => s[i].value.public /\ i > Len(s) - Len(q)
<1>1. IsConcat(s, a, q) /\ IsConcat(t, c, q)
  BY JoinedShape
<1>2. /\ Len(a) \in Nat /\ Len(q) \in Nat /\ Len(c) = Len(a) /\ Len(s) = Len(a) + Len(q)
      /\ Len(t) = Len(s) /\ DOMAIN t = 1..Len(t)
  BY <1>1 DEF IsConcat, Hides
<1>3. ASSUME NEW i \in DOMAIN t
      PROVE  /\ t[i].value.value = s[i].value.value
             /\ t[i].value.public => s[i].value.public /\ i > Len(s) - Len(q)
  <2>1. i \in 1..Len(a) \/ \E j \in 1..Len(q) : i = Len(a) + j
    BY <1>1, <1>2 DEF IsConcat
  <2>2. CASE i \in 1..Len(a)
    <3>1. t[i] = c[i] /\ s[i] = a[i]
      BY <1>1, <1>2, <2>2 DEF IsConcat
    <3> QED BY <2>2, <3>1 DEF Hides
  <2>3. ASSUME NEW j \in 1..Len(q), i = Len(a) + j
        PROVE  t[i] = s[i] /\ i > Len(s) - Len(q)
    <3>1. t[Len(c) + j] = q[j] /\ s[Len(a) + j] = q[j]
      BY <1>1 DEF IsConcat
    <3> QED BY <1>2, <2>3, <3>1
  <2> QED BY <2>1, <2>2, <2>3
<1> QED BY <1>2, <1>3

\* A token resolves to a tagged value.
LEMMA ResolvedType ==
    ASSUME TargetInv, NEW t, t \in TokenTypes
    PROVE  Resolved(t) \in Tagged(Words) /\ Resolved(t).value \in Words
<1>1. t.text \in Words /\ path.public \in BOOLEAN
  BY DEF TokenTypes, TargetInv
<1>2. Value(t.text, path.public) \in Tagged(Words)
  BY <1>1, ValueType
<1>3. Resolved(t) \in Tagged(Words)
  BY <1>2 DEF Resolved, TargetInv
<1> QED BY <1>3 DEF Tagged

\* The parts of the target.
LEMMA TemplateShape ==
    ASSUME TargetInv
    PROVE  /\ path.template.path \in Seq(TokenTypes) /\ path.template.authority \in Seq(TokenTypes)
           /\ path.template.scheme \in Seq(TokenTypes)
           /\ path.template.query \in Seq([name: TokenTypes, value: TokenTypes])
           /\ path.public \in BOOLEAN /\ path.template.absolute \in BOOLEAN /\ path.template.malformed \in BOOLEAN
           /\ base.path \in Seq(TokenTypes) /\ base.query \in Seq(QueryTypes) /\ base.set \in BOOLEAN
           /\ queries \in Seq(QueryTypes)
<1>1. path.template \in TemplateTypes /\ path.public \in BOOLEAN
  BY DEF TargetInv
<1> QED BY <1>1 DEF TargetInv, TemplateTypes

\* The query of the path is a query.
LEMMA PathQueryType ==
    ASSUME TargetInv
    PROVE  PathQuery \in Seq(QueryTypes)
<1> DEFINE s == path.template.query
           P == [name: TokenTypes, value: TokenTypes]
<1>1. s \in Seq(P)
  BY TemplateShape
<1>2. PathQuery = [i \in DOMAIN s |-> [name |-> Resolved(s[i].name).value, value |-> Resolved(s[i].value)]]
  BY DEF PathQuery
<1> HIDE DEF s, P
<1>3. DOMAIN s = 1..Len(s) /\ Len(s) \in Nat /\ \A i \in 1..Len(s) : s[i] \in P
  BY <1>1, SeqShape
<1>4. \A i \in 1..Len(s) : s[i].name \in TokenTypes /\ s[i].value \in TokenTypes
  BY <1>3 DEF P
<1>5. ASSUME NEW i \in 1..Len(s) PROVE PathQuery[i] \in QueryTypes
  <2>1. Resolved(s[i].name).value \in Words /\ Resolved(s[i].value) \in Tagged(Words)
    BY <1>4, ResolvedType
  <2> QED BY <1>2, <1>3, <2>1 DEF QueryTypes
<1>6. PathQuery = [i \in 1..Len(s) |-> PathQuery[i]]
  BY <1>2, <1>3
<1> QED BY <1>3, <1>5, <1>6

\* The query Prepare shows is the one sent, and shows public values only.
LEMMA QueryConsequence ==
    ASSUME TargetInv
    PROVE  PreparedQueryIsSent
<1> DEFINE b == IF Overrides THEN <<>> ELSE base.query
           pb == IF Overrides THEN <<>> ELSE PrivateQuery(base.query)
           pp == PrivateQuery(PathQuery)
<1>1. b \in Seq(QueryTypes) /\ PathQuery \in Seq(QueryTypes) /\ queries \in Seq(QueryTypes)
  BY TemplateShape, PathQueryType
<1>2. pb = PrivateQuery(b)
  <2>1. PrivateQuery(<<>>) = <<>>
    BY DEF PrivateQuery
  <2> QED BY <2>1
<1> SUFFICES ASSUME NEW n
             PROVE  /\ Len(compileQueryOccurrences(n)) = Len(SentQuery(n))
                    /\ \A i \in DOMAIN compileQueryOccurrences(n) :
                        /\ compileQueryOccurrences(n)[i].value.value = SentQuery(n)[i].value.value
                        /\ compileQueryOccurrences(n)[i].value.public =>
                            SentQuery(n)[i].value.public /\ i > Len(SentQuery(n)) - Len(Named(queries, n))
  BY DEF PreparedQueryIsSent
<1> DEFINE t == pb \o pp
           u == t \o queries
           S == Named(b, n) \o Named(PathQuery, n)
           q == Named(queries, n)
<1>3. compileQueryOccurrences(n) = Named(u, n)
  BY DEF compileQueryOccurrences
<1>4. Joined(SentQuery(n), S, q)
  <2>1. Named(<<>>, n) = <<>>
    <3>1. <<>> \in Seq(QueryTypes)
      OBVIOUS
    <3> DEFINE I == {i \in DOMAIN <<>> : <<>>[i].name = n}
    <3>2. Named(<<>>, n) = Keep(<<>>, I)
      BY DEF Named
    <3> HIDE DEF I
    <3>3. \A i \in 1..Len(<<>>) : i \notin I
      OBVIOUS
    <3>4. Keep(<<>>, I) = <<>>
      BY <3>1, <3>3, KeepNone
    <3> QED BY <3>2, <3>4
  <2>2. Named(b, n) = IF Overrides THEN <<>> ELSE Named(base.query, n)
    BY <2>1
  <2> HIDE DEF b
  <2> QED BY <2>2 DEF SentQuery, Joined
<1>5. Joined(S, Named(b, n), Named(PathQuery, n)) /\ Joined(t, pb, pp) /\ Joined(u, t, queries)
  BY DEF Joined
<1> HIDE DEF b, pb, t, u, S
<1>6. pb \in Seq(QueryTypes) /\ pp \in Seq(QueryTypes)
  BY <1>1, <1>2, PrivateIs
<1>7. Hides(Named(pb, n), Named(b, n)) /\ Hides(Named(pp, n), Named(PathQuery, n))
  BY <1>1, <1>2, NamedPrivate
<1> HIDE DEF pp, q
<1>8. t \in Seq(QueryTypes)
  BY <1>5, <1>6, JoinedShape
<1>9. /\ Joined(Named(t, n), Named(pb, n), Named(pp, n))
      /\ Named(t, n) \in Seq(QueryTypes) /\ Named(pb, n) \in Seq(QueryTypes) /\ Named(pp, n) \in Seq(QueryTypes)
  BY <1>5, <1>6, NamedJoined
<1>10. Joined(Named(u, n), Named(t, n), q) /\ q \in Seq(QueryTypes)
  BY <1>1, <1>5, <1>8, NamedJoined DEF q
<1>11. Named(b, n) \in Seq(QueryTypes) /\ Named(PathQuery, n) \in Seq(QueryTypes) /\ S \in Seq(QueryTypes)
  <2>1. Joined(b \o PathQuery, b, PathQuery)
    BY DEF Joined
  <2>2. Named(b, n) \in Seq(QueryTypes) /\ Named(PathQuery, n) \in Seq(QueryTypes)
    BY <1>1, <2>1, NamedJoined
  <2> QED BY <1>5, <2>2, JoinedShape
<1>12. Hides(Named(t, n), S)
  BY <1>5, <1>7, <1>9, <1>11, HidesJoined
<1> DEFINE x == SentQuery(n)
           y == Named(u, n)
           z == Named(t, n)
<1>13. Joined(x, S, q) /\ Joined(y, z, q) /\ Hides(z, S) /\ z \in Seq(QueryTypes)
  BY <1>4, <1>9, <1>10, <1>12
<1> HIDE DEF x, y, z
<1>14. /\ Len(y) = Len(x)
       /\ \A i \in DOMAIN y :
            /\ y[i].value.value = x[i].value.value
            /\ y[i].value.public => x[i].value.public /\ i > Len(x) - Len(q)
  BY <1>10, <1>11, <1>13, HidesTail
<1> QED BY <1>3, <1>14 DEF x, y, q

\* A run of a sequence.
LEMMA SubSeqIs ==
    ASSUME NEW A, NEW s, s \in Seq(A), NEW m \in Nat, NEW n \in Nat, m <= n, n <= Len(s)
    PROVE  /\ SubSeq(s, m + 1, n) \in Seq(A) /\ Len(SubSeq(s, m + 1, n)) = n - m
           /\ \A i \in 1..(n - m) : SubSeq(s, m + 1, n)[i] = s[m + i] /\ m + i \in 1..n
  OBVIOUS

\* The number of slashes TrimLeft removes; the length TrimRight leaves.
LeadsWith(s, n) == (\A i \in 1..n : IsSlash(s[i])) /\ (n = Len(s) \/ ~IsSlash(s[n + 1]))
EndsAt(s, n) == (\A i \in (n + 1)..Len(s) : IsSlash(s[i])) /\ (n = 0 \/ ~IsSlash(s[n]))

\* Some number of slashes leads a path.
LEMMA SomeLead ==
    ASSUME NEW s, NEW L \in Nat, Len(s) = L
    PROVE  \E k \in 0..L : LeadsWith(s, k)
<1> DEFINE S == {k \in 0..L : k = L \/ ~IsSlash(s[k + 1])}
<1>1. S \in SUBSET Nat /\ L \in S
  OBVIOUS
<1>2. PICK k \in S : \A m \in S : k <= m
  <2> HIDE DEF S
  <2>1. S # {}
    BY <1>1
  <2> QED BY <1>1, <2>1, Least
<1>3. k \in 0..L /\ (k = L \/ ~IsSlash(s[k + 1]))
  OBVIOUS
<1>4. ASSUME NEW i \in 1..k PROVE IsSlash(s[i])
  <2> HIDE DEF S
  <2>1. i - 1 \in 0..L /\ ~(k <= i - 1) /\ i - 1 # L /\ (i - 1) + 1 = i
    BY <1>3
  <2>2. i - 1 \notin S
    BY <1>2, <2>1
  <2> QED BY <2>1, <2>2 DEF S
<1> QED BY <1>3, <1>4 DEF LeadsWith

\* Some place ends the part of a path before its last slashes.
LEMMA SomeEnd ==
    ASSUME NEW s, NEW L \in Nat, Len(s) = L
    PROVE  \E k \in 0..L : EndsAt(s, k)
<1> DEFINE S == {k \in 0..L : k = L \/ ~IsSlash(s[L - k])}
<1>1. S \in SUBSET Nat /\ L \in S
  OBVIOUS
<1>2. PICK k \in S : \A m \in S : k <= m
  <2> HIDE DEF S
  <2>1. S # {}
    BY <1>1
  <2> QED BY <1>1, <2>1, Least
<1> DEFINE e == L - k
<1>3. k \in 0..L /\ (k = L \/ ~IsSlash(s[e]))
  OBVIOUS
<1>4. e \in 0..L /\ (e = 0 \/ ~IsSlash(s[e]))
  <2> HIDE DEF S
  <2>1. e \in 0..L /\ (k = L => e = 0)
    BY <1>3
  <2> QED BY <1>3, <2>1
<1>5. ASSUME NEW i \in (e + 1)..L PROVE IsSlash(s[i])
  <2> HIDE DEF S
  <2>1. L - i \in 0..L /\ ~(k <= L - i) /\ L - i # L /\ L - (L - i) = i
    BY <1>3, <1>4
  <2>2. L - i \notin S
    BY <1>2, <2>1
  <2> QED BY <2>1, <2>2 DEF S
<1> HIDE DEF e
<1> QED BY <1>4, <1>5 DEF EndsAt

\* TrimLeft takes the leading slashes away and adds nothing.
LEMMA TrimLeftIs ==
    ASSUME NEW A, NEW s, s \in Seq(A)
    PROVE  /\ TrimLeft(s) \in Seq(A)
           /\ \A i \in 1..Len(TrimLeft(s)) : \E j \in 1..Len(s) : TrimLeft(s)[i] = s[j]
           /\ Len(TrimLeft(s)) > 0 => ~IsSlash(TrimLeft(s)[1])
<1> DEFINE L == Len(s)
           P(k) == k \in 0..L /\ LeadsWith(s, k)
           n == CHOOSE k : P(k)
           r == SubSeq(s, n + 1, L)
<1>1. TrimLeft(s) = r
  BY DEF TrimLeft, LeadsWith
<1>2. L \in Nat /\ L = Len(s)
  OBVIOUS
<1> HIDE DEF L
<1>3. \E k : P(k)
  BY <1>2, SomeLead
<1>4. P(n)
  <2> HIDE DEF P
  <2> QED BY <1>3
<1>5. n \in Nat /\ n <= L /\ LeadsWith(s, n)
  BY <1>2, <1>4
<1> HIDE DEF n, P
<1>6. /\ r \in Seq(A) /\ Len(r) = L - n
      /\ \A i \in 1..(L - n) : r[i] = s[n + i] /\ n + i \in 1..L
  BY <1>2, <1>5, SubSeqIs
<1> HIDE DEF r
<1>7. Len(r) > 0 => 1 \in 1..(L - n) /\ n # L
  BY <1>2, <1>5, <1>6
<1>8. Len(r) > 0 => ~IsSlash(r[1])
  BY <1>2, <1>5, <1>6, <1>7 DEF LeadsWith
<1> QED BY <1>1, <1>2, <1>6, <1>8

\* TrimRight leaves nothing of a path of slashes.
LEMMA TrimRightIs ==
    ASSUME NEW A, NEW s, s \in Seq(A)
    PROVE  /\ TrimRight(s) \in Seq(A)
           /\ (\A i \in 1..Len(s) : IsSlash(s[i])) => TrimRight(s) = <<>>
<1> DEFINE L == Len(s)
           P(k) == k \in 0..L /\ EndsAt(s, k)
           n == CHOOSE k : P(k)
           r == SubSeq(s, 0 + 1, n)
<1>1. TrimRight(s) = r
  <2>1. TrimRight(s) = SubSeq(s, 1, n)
    BY DEF TrimRight, EndsAt
  <2>2. 0 + 1 = 1
    OBVIOUS
  <2> HIDE DEF n
  <2> QED BY <2>1, <2>2
<1>2. L \in Nat /\ L = Len(s)
  OBVIOUS
<1> HIDE DEF L
<1>3. \E k : P(k)
  BY <1>2, SomeEnd
<1>4. P(n)
  <2> HIDE DEF P
  <2> QED BY <1>3
<1>5. n \in Nat /\ n <= L /\ EndsAt(s, n)
  BY <1>2, <1>4
<1> HIDE DEF n, P
<1>6. r \in Seq(A) /\ Len(r) = n - 0
  BY <1>2, <1>5, SubSeqIs
<1> HIDE DEF r
<1>7. (\A i \in 1..L : IsSlash(s[i])) => n = 0
  BY <1>2, <1>5 DEF EndsAt
<1>8. Len(r) = 0 => r = <<>>
  BY <1>6
<1> QED BY <1>1, <1>2, <1>5, <1>6, <1>7, <1>8

\* Resolving works token by token.
LEMMA ResolvedSeqType ==
    ASSUME TargetInv, NEW ts, ts \in Seq(TokenTypes)
    PROVE  /\ ResolvedSeq(ts) \in Seq(Tagged(Words)) /\ Len(ResolvedSeq(ts)) = Len(ts)
           /\ \A i \in 1..Len(ts) : ResolvedSeq(ts)[i] = Resolved(ts[i]) /\ ts[i] \in TokenTypes
<1> DEFINE r == ResolvedSeq(ts)
<1>1. DOMAIN ts = 1..Len(ts) /\ Len(ts) \in Nat /\ \A i \in 1..Len(ts) : ts[i] \in TokenTypes
  BY SeqShape
<1>2. r = [i \in 1..Len(ts) |-> Resolved(ts[i])]
  BY <1>1 DEF ResolvedSeq
<1>3. \A i \in 1..Len(ts) : r[i] = Resolved(ts[i])
  BY <1>2
<1>4. \A i \in 1..Len(ts) : r[i] \in Tagged(Words)
  BY <1>1, <1>3, ResolvedType
<1>5. r = [i \in 1..Len(ts) |-> r[i]]
  BY <1>2
<1> HIDE DEF r
<1>6. r \in Seq(Tagged(Words)) /\ Len(r) = Len(ts)
  BY <1>1, <1>4, <1>5
<1> QED BY <1>1, <1>3, <1>6 DEF r

\* The path of the base URL, token by token.
LEMMA BasePathType ==
    ASSUME TargetInv
    PROVE  /\ BasePath \in Seq(Tagged(Words)) /\ Len(BasePath) = Len(base.path)
           /\ \A i \in 1..Len(base.path) : BasePath[i].value = base.path[i].text
<1> DEFINE ts == base.path
           r == BasePath
<1>0. ts \in Seq(TokenTypes)
  BY TemplateShape
<1>1. r = [i \in DOMAIN ts |-> Value(ts[i].text, FALSE)]
  BY DEF BasePath
<1> HIDE DEF ts, r
<1>2. DOMAIN ts = 1..Len(ts) /\ Len(ts) \in Nat /\ \A i \in 1..Len(ts) : ts[i] \in TokenTypes
  BY <1>0, SeqShape
<1>3. \A i \in 1..Len(ts) : r[i] = Value(ts[i].text, FALSE) /\ ts[i].text \in Words
  BY <1>1, <1>2 DEF TokenTypes
<1>4. FALSE \in BOOLEAN
  OBVIOUS
<1>5. \A i \in 1..Len(ts) : r[i] \in Tagged(Words) /\ r[i].value = ts[i].text
  <2> TAKE i \in 1..Len(ts)
  <2> DEFINE x == ts[i].text
  <2>1. x \in Words /\ r[i] = Value(x, FALSE)
    BY <1>3
  <2> HIDE DEF x
  <2>2. Value(x, FALSE) \in Tagged(Words) /\ Value(x, FALSE).value = x
    BY <1>4, <2>1, ValueType
  <2> QED BY <2>1, <2>2 DEF x
<1>6. r = [i \in 1..Len(ts) |-> r[i]]
  BY <1>1, <1>2
<1>7. r \in Seq(Tagged(Words)) /\ Len(r) = Len(ts)
  BY <1>2, <1>5, <1>6
<1> QED BY <1>5, <1>7 DEF ts, r

\* A token that a public path has and that no private value fills.
LEMMA TokenShown ==
    ASSUME TargetInv, NEW ts, ts \in Seq(TokenTypes), NEW i \in 1..Len(ts)
    PROVE  ts[i].param /\ ts[i].text \in DOMAIN params => Uses(ts, ts[i].text)
<1>1. DOMAIN ts = 1..Len(ts) /\ ts[i] \in TokenTypes
  BY SeqShape
<1>2. ts[i].param => ts[i] = Param(ts[i].text)
  BY <1>1 DEF TokenTypes, Param
<1> QED BY <1>1, <1>2 DEF Uses

\* A path that is shown has public tokens only.
LEMMA PathTokensPublic ==
    ASSUME TargetInv, PathShown, NEW i \in 1..Len(path.template.path)
    PROVE  ResolvedSeq(path.template.path)[i].public
<1> DEFINE ts == path.template.path
<1>1. ts \in Seq(TokenTypes)
  BY TemplateShape
<1>2. path.public /\ \A p \in DOMAIN params : Uses(ts, p) => params[p].public
  BY DEF PathShown
<1>3. ResolvedSeq(ts)[i] = Resolved(ts[i])
  BY <1>1, ResolvedSeqType
<1>4. ts[i].param /\ ts[i].text \in DOMAIN params => Uses(ts, ts[i].text)
  BY <1>1, TokenShown
<1> HIDE DEF ts
<1>5. Resolved(ts[i]).public
  BY <1>2, <1>4 DEF Resolved, Value
<1> QED BY <1>3, <1>5 DEF ts

\* What joinEscapedURLPath makes of two paths that are not empty.
Prefix == IF Raw(BasePath) \in {<<>>, <<"/">>} THEN <<>> ELSE TrimRight(BasePath)
Rest == TrimLeft(ResolvedSeq(path.template.path))
PathParts(s, b, r, m, n) ==
    /\ b \in Seq(Tagged(Words)) /\ r \in Seq(Tagged(Words)) /\ s \in Seq(Tagged(Words))
    /\ Len(b) = m /\ Len(r) = n /\ m \in Nat /\ n \in Nat
    /\ Len(s) = m + 1 + n
    /\ s[m + 1] = Value("/", TRUE)
    /\ \A i \in 1..n : s[m + 1 + i] = r[i]

\* The path sent: the base without its last slashes, one slash, and the
\* path without its first ones.
LEMMA JoinedPath ==
    ASSUME TargetInv, ~Overrides, path.template.path # <<>>
    PROVE  PathParts(SentPath, Prefix, Rest, Len(Prefix), Len(Rest))
<1> DEFINE p == ResolvedSeq(path.template.path)
           b == Prefix
           r == Rest
           v == Value("/", TRUE)
<1>1. p \in Seq(Tagged(Words)) /\ Len(p) = Len(path.template.path) /\ p # <<>>
  <2>1. path.template.path \in Seq(TokenTypes)
    BY TemplateShape
  <2>2. p \in Seq(Tagged(Words)) /\ Len(p) = Len(path.template.path)
    BY <2>1, ResolvedSeqType
  <2> HIDE DEF p
  <2> QED BY <2>1, <2>2, SeqShape
<1>2. BasePath \in Seq(Tagged(Words))
  BY BasePathType
<1>3. b \in Seq(Tagged(Words)) /\ r \in Seq(Tagged(Words))
  <2>1. <<>> \in Seq(Tagged(Words)) /\ TrimRight(BasePath) \in Seq(Tagged(Words))
    BY <1>2, TrimRightIs
  <2> QED BY <1>1, <2>1, TrimLeftIs DEF Prefix, Rest
<1>4. v \in Tagged(Words)
  <2>1. "/" \in Words /\ TRUE \in BOOLEAN
    BY DEF Words
  <2> QED BY <2>1, ValueType
<1>5. SentPath = (b \o <<v>>) \o r
  BY <1>1 DEF SentPath, joinEscapedURLPath, Prefix, Rest
<1> HIDE DEF p, b, r, v
<1> DEFINE c == b \o <<v>>
<1>6. c \in Seq(Tagged(Words)) /\ Len(c) = Len(b) + 1 /\ c[Len(b) + 1] = v
      /\ \A i \in 1..Len(b) : c[i] = b[i]
  BY <1>3, <1>4
<1>7. Joined(SentPath, c, r)
  BY <1>5 DEF Joined
<1> HIDE DEF c
<1>8. IsConcat(SentPath, c, r) /\ SentPath \in Seq(Tagged(Words))
  BY <1>3, <1>6, <1>7, JoinedShape
<1>9. Len(b) \in Nat /\ Len(r) \in Nat
  BY <1>3
<1>10. Len(SentPath) = Len(b) + 1 + Len(r) /\ SentPath[Len(b) + 1] = v
  BY <1>6, <1>8, <1>9 DEF IsConcat
<1>11. \A i \in 1..Len(r) : SentPath[Len(b) + 1 + i] = r[i]
  BY <1>6, <1>8, <1>9 DEF IsConcat
<1>12. PathParts(SentPath, b, r, Len(b), Len(r))
  BY <1>3, <1>8, <1>9, <1>10, <1>11 DEF PathParts, v
<1> QED BY <1>12 DEF b, r

\* A base path that is empty or a slash adds nothing.
LEMMA SlashBase ==
    ASSUME TargetInv
    PROVE  /\ base.path = <<>> => BasePath = <<>> /\ Raw(BasePath) = <<>>
           /\ base.path = <<Slash>> => Len(BasePath) = 1 /\ IsSlash(BasePath[1]) /\ Raw(BasePath) = <<"/">>
           /\ Raw(BasePath) = <<"/">> => \A i \in 1..Len(BasePath) : IsSlash(BasePath[i])
           /\ Raw(BasePath) = <<>> <=> BasePath = <<>>
<1> DEFINE b == BasePath
           p == base.path
<1>1. b \in Seq(Tagged(Words)) /\ Len(b) = Len(p) /\ \A i \in 1..Len(p) : b[i].value = p[i].text
  BY BasePathType
<1>2. /\ Raw(b) \in Seq(Words) /\ Len(Raw(b)) = Len(b) /\ \A i \in 1..Len(b) : Raw(b)[i] = b[i].value
      /\ Raw(b) = <<>> <=> b = <<>>
  <2> HIDE DEF b
  <2> QED BY <1>1, RawType
<1> HIDE DEF b, p
<1>3. p = <<>> => b = <<>>
  BY <1>1
<1>4. ASSUME p = <<Slash>>
      PROVE  Len(b) = 1 /\ IsSlash(b[1]) /\ Raw(b) = <<"/">>
  <2>1. Len(p) = 1 /\ p[1] = Slash /\ Slash.text = "/"
    BY <1>4 DEF Slash, Text
  <2>2. Len(b) = 1 /\ b[1].value = "/"
    BY <1>1, <2>1
  <2>3. Len(Raw(b)) = 1 /\ Raw(b)[1] = "/"
    BY <1>2, <2>2
  <2> QED BY <1>2, <2>2, <2>3 DEF IsSlash
<1>5. ASSUME Raw(b) = <<"/">>
      PROVE  \A i \in 1..Len(b) : IsSlash(b[i])
  <2>1. Len(Raw(b)) = 1 /\ Raw(b)[1] = "/"
    BY <1>5
  <2> QED BY <1>2, <2>1 DEF IsSlash
<1> QED BY <1>2, <1>3, <1>4, <1>5 DEF b, p

\* JoinedByOneSlash follows.
LEMMA SlashConsequence ==
    ASSUME TargetInv
    PROVE  JoinedByOneSlash
<1> SUFFICES ASSUME ~Overrides, path.template.path # <<>>, BasePath # <<>>
             PROVE  /\ IsSlash(SentPath[Len(TrimRight(BasePath)) + 1])
                    /\ Len(SentPath) > Len(TrimRight(BasePath)) + 1 =>
                        ~IsSlash(SentPath[Len(TrimRight(BasePath)) + 2])
  BY DEF JoinedByOneSlash
<1> DEFINE m == Len(Prefix)
           n == Len(Rest)
<1>1. PathParts(SentPath, Prefix, Rest, m, n)
  BY JoinedPath
<1>2. Prefix = TrimRight(BasePath)
  <2>1. BasePath \in Seq(Tagged(Words))
    BY BasePathType
  <2>2. Raw(BasePath) = <<"/">> => TrimRight(BasePath) = <<>>
    BY <2>1, SlashBase, TrimRightIs
  <2>3. Raw(BasePath) # <<>>
    BY SlashBase
  <2> QED BY <2>2, <2>3 DEF Prefix
<1>3. Len(TrimRight(BasePath)) = m
  BY <1>2
<1> HIDE DEF m, n
<1>4. IsSlash(SentPath[m + 1])
  BY <1>1 DEF IsSlash, Value, PathParts
<1>5. Len(Rest) > 0 => ~IsSlash(Rest[1])
  <2>1. ResolvedSeq(path.template.path) \in Seq(Tagged(Words))
    BY TemplateShape, ResolvedSeqType
  <2> QED BY <2>1, TrimLeftIs DEF Rest
<1>6. Len(SentPath) > m + 1 => n > 0 /\ Len(Rest) = n /\ SentPath[m + 2] = Rest[1]
  <2> DEFINE L == Len(SentPath)
  <2>1. m \in Nat /\ n \in Nat /\ L = m + 1 + n
    BY <1>1 DEF PathParts
  <2> HIDE DEF L
  <2>2. L > m + 1 => n > 0 /\ 1 \in 1..n /\ m + 1 + 1 = m + 2
    BY <2>1
  <2>3. L > m + 1 => SentPath[m + 1 + 1] = Rest[1]
    BY <1>1, <2>2 DEF PathParts
  <2> QED BY <1>1, <2>2, <2>3 DEF PathParts, L
<1> QED BY <1>3, <1>4, <1>5, <1>6

\* Nothing private is in a path that Prepare shows.
LEMMA PathConsequence ==
    ASSUME TargetInv, PathShown, NEW i \in DOMAIN SentPath
    PROVE  IsSlash(SentPath[i]) \/ SentPath[i].public
<1> DEFINE p == ResolvedSeq(path.template.path)
<1>0. path.template.path \in Seq(TokenTypes)
  BY TemplateShape
<1>1. /\ p \in Seq(Tagged(Words)) /\ Len(p) = Len(path.template.path) /\ Len(p) \in Nat
      /\ DOMAIN p = 1..Len(p) /\ \A j \in 1..Len(p) : p[j].public
  <2>1. p \in Seq(Tagged(Words)) /\ Len(p) = Len(path.template.path)
    BY <1>0, ResolvedSeqType
  <2>2. \A j \in 1..Len(path.template.path) : p[j].public
    BY PathTokensPublic
  <2> HIDE DEF p
  <2> QED BY <2>1, <2>2, SeqShape
<1>2. CASE Overrides
  <2>1. SentPath = p
    BY <1>2 DEF SentPath
  <2> HIDE DEF p
  <2> QED BY <1>1, <2>1
<1>3. CASE ~Overrides
  <2>1. base.path \in {<<>>, <<Slash>>}
    <3>1. ~basePathPrivate /\ ~path.template.absolute /\ base.set
      BY <1>3, TemplateShape DEF PathShown, Overrides
    <3> QED BY <3>1 DEF basePathPrivate
  <2>2. Raw(BasePath) \in {<<>>, <<"/">>}
    BY <2>1, SlashBase
  <2>3. BasePath \in Seq(Tagged(Words))
    BY BasePathType
  <2>4. CASE path.template.path = <<>>
    <3>1. p = <<>>
      <4>1. Len(p) = 0
        BY <1>1, <2>4
      <4> HIDE DEF p
      <4> QED BY <1>1, <4>1
    <3>2. SentPath = BasePath
      BY <1>3, <3>1 DEF SentPath, joinEscapedURLPath
    <3>3. \A j \in 1..Len(BasePath) : IsSlash(BasePath[j])
      BY <2>2, SlashBase
    <3> QED BY <2>3, <3>2, <3>3, SeqShape
  <2>5. CASE path.template.path # <<>>
    <3> DEFINE n == Len(Rest)
    <3>1. PathParts(SentPath, Prefix, Rest, Len(Prefix), n)
      BY <1>3, <2>5, JoinedPath
    <3>2. Len(Prefix) = 0
      BY <2>2 DEF Prefix
    <3> HIDE DEF n
    <3>3. PathParts(SentPath, Prefix, Rest, 0, n)
      BY <3>1, <3>2
    <3>4. /\ n \in Nat /\ Len(Rest) = n /\ Len(SentPath) = 0 + 1 + n /\ SentPath \in Seq(Tagged(Words))
          /\ SentPath[0 + 1] = Value("/", TRUE)
          /\ \A k \in 1..n : SentPath[0 + 1 + k] = Rest[k]
      BY <3>3 DEF PathParts
    <3>5. \A k \in 1..n : Rest[k].public
      <4>1. Rest = TrimLeft(p)
        BY DEF Rest
      <4> HIDE DEF p
      <4>a. \A k \in 1..Len(TrimLeft(p)) : \E j \in 1..Len(p) : TrimLeft(p)[k] = p[j]
        BY <1>1, TrimLeftIs
      <4>2. \A k \in 1..n : \E j \in 1..Len(p) : Rest[k] = p[j]
        BY <3>4, <4>1, <4>a
      <4> QED BY <1>1, <4>2
    <3>6. i \in 1..(1 + n) /\ SentPath[1] = Value("/", TRUE)
      <4>1. DOMAIN SentPath = 1..Len(SentPath)
        BY <3>4, SeqShape
      <4>2. 0 + 1 + n = 1 + n /\ 0 + 1 = 1
        BY <3>4
      <4> QED BY <3>4, <4>1, <4>2
    <3>7. CASE i = 1
      BY <3>6, <3>7 DEF IsSlash, Value
    <3>8. CASE i # 1
      <4>1. i - 1 \in 1..n /\ 0 + 1 + (i - 1) = i
        BY <3>4, <3>6, <3>8
      <4> QED BY <3>4, <3>5, <4>1
    <3> QED BY <3>7, <3>8
  <2> QED BY <2>4, <2>5
<1> QED BY <1>2, <1>3

\* PreparedTargetIsSent follows.
LEMMA TargetConsequence ==
    ASSUME TargetInv
    PROVE  PreparedTargetIsSent
<1>1. SentFails => PlanFails
  BY DEF SentFails, PlanFails, Overrides
<1>2. PlanFails /\ ~SentFails => ~path.template.absolute /\ ~base.set
  BY DEF SentFails, PlanFails, Overrides
<1>3. PreparedQueryIsSent /\ JoinedByOneSlash
  BY QueryConsequence, SlashConsequence
<1>4. ASSUME TargetPreparable
      PROVE  ShownIsPublic
  <2> DEFINE ss == path.template.scheme
             as == path.template.authority
             ns == QueryNameTokens
  <2>1. ss \in Seq(TokenTypes) /\ as \in Seq(TokenTypes) /\ ns \in Seq(TokenTypes)
    <3> DEFINE q == path.template.query
               P == [name: TokenTypes, value: TokenTypes]
    <3>1. q \in Seq(P) /\ as \in Seq(TokenTypes) /\ ss \in Seq(TokenTypes)
      BY TemplateShape
    <3>2. ns = [i \in DOMAIN q |-> q[i].name]
      BY DEF QueryNameTokens
    <3> HIDE DEF q, P, ns, as, ss
    <3>3. DOMAIN q = 1..Len(q) /\ Len(q) \in Nat /\ \A i \in 1..Len(q) : q[i] \in P
      BY <3>1, SeqShape
    <3>4. \A i \in 1..Len(q) : q[i].name \in TokenTypes
      BY <3>3 DEF P
    <3>5. ns = [i \in 1..Len(q) |-> q[i].name]
      BY <3>2, <3>3
    <3>6. ns \in Seq(TokenTypes)
      BY <3>3, <3>4, <3>5
    <3> QED BY <3>1, <3>6
  <2>2. \A p \in DOMAIN params : ~params[p].public => ~Uses(ss, p) /\ ~Uses(as, p) /\ ~Uses(ns, p)
    BY <1>4 DEF TargetPreparable
  <2> HIDE DEF ss, as, ns
  <2>3. ASSUME NEW ts, ts \in Seq(TokenTypes), NEW i \in DOMAIN ts, ts[i].param,
               ts[i].text \in DOMAIN params
        PROVE  Uses(ts, ts[i].text)
    BY <2>3, SeqShape, TokenShown
  <2>4. \A t \in {ss[i] : i \in DOMAIN ss} \cup {as[i] : i \in DOMAIN as} \cup {ns[i] : i \in DOMAIN ns} :
            t.param /\ t.text \in DOMAIN params => params[t.text].public
    BY <2>1, <2>2, <2>3
  <2>5. PathShown => \A i \in DOMAIN SentPath : IsSlash(SentPath[i]) \/ SentPath[i].public
    BY PathConsequence
  <2> QED BY <2>4, <2>5 DEF ShownIsPublic, ss, as, ns
<1> QED BY <1>1, <1>2, <1>3, <1>4 DEF PreparedTargetIsSent

-----------------------------------------------------------------------------
(* The theorems.                                                            *)

\* All that is needed of the states of a request. None of the parts refers
\* to another one; together they are inductive.
RequestInv == BuilderInv /\ OwnershipInv /\ TargetInv

\* A step of the request is one of the builder, with the target left alone,
\* or one of the target, with the builder left alone.
LEMMA RequestSteps ==
    ASSUME [RequestNext]_<<vars, targetVars>>
    PROVE  BuilderStep /\ (TargetNext \/ UNCHANGED targetVars)
<1>1. CASE Next /\ UNCHANGED targetVars
  BY <1>1 DEF BuilderStep
<1>2. CASE TargetNext
  BY <1>2 DEF BuilderStep, TargetNext
<1>3. CASE UNCHANGED <<vars, targetVars>>
  BY <1>3 DEF BuilderStep, vars
<1> QED
  BY <1>1, <1>2, <1>3 DEF RequestNext

\* For all inputs: after any sequence of client options and builder calls
\* (WithHeader to DelQuery) the metadata, the body and the target have their
\* types, every header is in step with its ordered entry, the client's
\* values are private, and a generated Content-Type is the only one.
THEOREM RequestInvariance == RequestSpec => []RequestInv
<1>1. RequestInit => RequestInv
  BY BuilderInit, OwnershipInit, TargetInitLemma DEF RequestInit, RequestInv
<1>2. RequestInv /\ [RequestNext]_<<vars, targetVars>> => RequestInv'
  <2> SUFFICES ASSUME RequestInv, [RequestNext]_<<vars, targetVars>>
               PROVE  RequestInv'
    OBVIOUS
  <2>1. BuilderStep /\ (TargetNext \/ UNCHANGED targetVars)
    BY RequestSteps
  <2>2. BuilderInv'
    BY <2>1, BuilderNext DEF RequestInv
  <2>3. OwnershipInv'
    BY <2>1, OwnershipNext DEF RequestInv
  <2>4. TargetInv'
    BY <2>1, TargetNextLemma DEF RequestInv
  <2> QED BY <2>2, <2>3, <2>4 DEF RequestInv
<1> QED
  BY <1>1, <1>2, PTL DEF RequestSpec

\* For all inputs: while a client or a request has an ordered object, each
\* header has in it the values it has in the plain headers, whatever calls
\* (setHeaderValues, addHeaderValue, delHeader, setOrderedHeaders, selectBody)
\* were made and in which order.
THEOREM OrderedInSyncTheorem == RequestSpec => []OrderedInSync
<1>1. RequestInv => OrderedInSync
  BY InSyncConsequence DEF RequestInv
<1> QED
  BY RequestInvariance, <1>1, PTL

\* For all inputs: a Content-Type that is marked as generated is the selected
\* body's and the only one of the request, so replacing the body removes the
\* type it generated and no text of the caller's (selectBody).
THEOREM GeneratedTypeTheorem == RequestSpec => []GeneratedTypeIsSole
<1>1. RequestInv => GeneratedTypeIsSole
  BY DEF RequestInv, OwnershipInv
<1> QED
  BY RequestInvariance, <1>1, PTL

\* For all inputs: a body that is replaced takes its generated Content-Type
\* with it (selectBody).
THEOREM ReplacedTypeTheorem == RequestSpec => ReplacedTypeRemoved
<1>1. ASSUME RequestInv, [RequestNext]_<<vars, targetVars>>
      PROVE  [body.generated /\ body'.kind # body.kind =>
                request'.headers[CT] =
                    IF body'.contentType = <<>> THEN <<>>
                    ELSE <<Value(body'.contentType, FALSE)>>]_vars
  <2>1. CASE body'.kind = body.kind
    BY <2>1
  <2>2. CASE body'.kind # body.kind
    <3>1. OwnershipInv /\ BuilderStep
      BY <1>1, RequestSteps DEF RequestInv
    <3>2. PICK b : IsBody(b) /\ selectBody(b)
      BY <2>2, <3>1, KindLemma
    <3>3. body' = b /\ (body.generated => request'.headers[CT] =
                IF b.contentType = <<>> THEN <<>> ELSE <<Value(b.contentType, FALSE)>>)
      BY <3>1, <3>2, SelectBodyLemma
    <3> QED BY <3>3
  <2> QED BY <2>1, <2>2
<1> QED
  BY RequestInvariance, <1>1, PTL DEF RequestSpec, ReplacedTypeRemoved

\* For all inputs: of the layers of a header (client, request, body, method of
\* authentication) the last one that has it gives all its values, and no
\* value of an earlier one is sent with them (applyPlanAuthAndHeaders).
THEOREM LaterLayerTheorem == RequestSpec => []LaterLayerReplaces
<1>1. RequestInv => LaterLayerReplaces
  BY LaterLayerConsequence DEF RequestInv
<1> QED
  BY RequestInvariance, <1>1, PTL

\* For all inputs: a cookie name the request uses brings no cookie of the
\* client, the client's other cookies are sent, and the explicit cookies are
\* sent in the order of the calls (mergeCookieOccurrences).
THEOREM RequestCookiesTheorem == RequestSpec => []RequestCookiesWin
<1>1. RequestInv => RequestCookiesWin
  BY CookiesConsequence DEF RequestInv
<1> QED
  BY RequestInvariance, <1>1, PTL

\* For all inputs: the ordered object that is sent has each name once with
\* the values sent, and the names the request gave values and sends are in
\* the order it gave them, through every merge, deletion and synchronisation on the way
\* (compileOrderedHeaders, syncOrderedHeaderValues).
THEOREM OrderedIntentTheorem == RequestSpec => []OrderedIntentKept
<1>1. RequestInv => OrderedIntentKept
  BY IntentConsequence DEF RequestInv
<1> QED
  BY RequestInvariance, <1>1, PTL

\* For all inputs: what Prepare accepts with some budget Preview accepts, and
\* what Preview accepts Send does not refuse before it opens the body
\* (PrepareErr, PreviewErr and DeliveryPreflight share their checks).
THEOREM ExitsTheorem == RequestSpec => []ExitsAgree
<1>1. RequestInv => ExitsAgree
  BY ExitsConsequence DEF RequestInv
<1> QED
  BY RequestInvariance, <1>1, PTL

\* For all inputs: a length or a replayability that Preview reports as known
\* is that of the body Send opens (previewBody, buildDeliveryBody).
THEOREM PreviewBodyTheorem == RequestSpec => []PreviewBodyTruthful
<1>1. RequestInv => PreviewBodyTruthful
  BY PreviewBodyConsequence DEF RequestInv
<1> QED
  BY RequestInvariance, <1>1, PTL

\* For all inputs: a header is listed by Preview, plain and ordered, exactly
\* when Send sends it, and the Content-Type is the one sent, except for a
\* name with an ordered entry without values and the type of a multipart
\* body, whose boundary is not chosen yet (projectStructural,
\* applyPlanAuthAndHeaders).
THEOREM PreviewHeadersTheorem == RequestSpec => []PreviewHeadersSent
<1>1. RequestInv => PreviewHeadersSent
  BY PreviewHeadersConsequence DEF RequestInv
<1> QED
  BY RequestInvariance, <1>1, PTL

\* For all inputs: a value Prepare shows is sent, at the place it is shown,
\* and is one the request made public or a type its body generated
\* (projectRequestPreparation).
THEOREM PreparedValuesTheorem == RequestSpec => []PreparedValuesAreSent
<1>1. RequestInv => PreparedValuesAreSent
  BY PreparedValuesConsequence DEF RequestInv, OwnershipInv
<1> QED
  BY RequestInvariance, <1>1, PTL

\* For all inputs and all budgets: Prepare refuses a body for its size exactly
\* when what would be sent exceeds the budget and nothing in it is private;
\* the early bound on a form refuses none that fits (projectPreparedBody).
THEOREM BudgetTheorem == RequestSpec => []BudgetExact
<1>1. RequestInv => BudgetExact
  BY BudgetConsequence DEF RequestInv
<1> QED
  BY RequestInvariance, <1>1, PTL

\* For all inputs: the query values Prepare shows are those sent, in their
\* order; what it shows of scheme, authority, path and query names has
\* nothing that is private in it; a query that parses for one of the two compilations
\* parses for the other, except in a URL without a host; and base and path
\* are joined by one slash (compileQueryOccurrences, resolveRequestURL).
THEOREM PreparedTargetTheorem == RequestSpec => []PreparedTargetIsSent
<1>1. RequestInv => PreparedTargetIsSent
  BY TargetConsequence DEF RequestInv
<1> QED
  BY RequestInvariance, <1>1, PTL
=============================================================================
