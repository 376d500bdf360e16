------------------------ MODULE MultipartBodyProofs ------------------------
(***************************************************************************)
(* Proofs about MultipartBody, for any number of fields, parts and chunks  *)
(* and every limit. The invariant relates what has been written to the     *)
(* position of the producer: as long as nothing has failed, the writes so  *)
(* far are the beginning of the body, and the write that follows the last  *)
(* of them is the one the producer makes next. The limitWriter's counter   *)
(* is the sum of the lengths of what the buffer holds.                     *)
(***************************************************************************)
EXTENDS MultipartBody, WellFoundedInduction, TLAPS

\* Where the producer is, or goes on when its write has been taken.
At == IF pc = "blocked" THEN after ELSE pc

\* What has been written, the write in the pipe included.
Written == IF pc = "blocked" THEN Append(got, pending) ELSE got

\* The write the producer makes next.
Upcoming ==
    IF At = "copy"
    THEN IF chunk < job.parts[part + 1].chunks THEN ChunkItem(part + 1, chunk + 1)
         ELSE PartOrEnd(part + 2)
    ELSE IF At = "value" THEN ValueItem(field + 1)
    ELSE IF field < job.fields THEN FieldItem(field + 1) ELSE PartOrEnd(part + 1)

\* Sequence s is the unfinished beginning of a body of job j, and w follows it.
Expects(j, s, w) ==
    /\ InOrder(j, s)
    /\ s = <<>> => w = FieldOrPart(j, 1)
    /\ s # <<>> => s[Len(s)] # Trailer /\ w = Following(j, s[Len(s)])

Types ==
    /\ TypeOK
    /\ got \in Seq(Items) /\ pending \in Items
    /\ late \in Nat /\ wrote \in Nat

CursorInv ==
    /\ field <= job.fields
    /\ field < job.fields => part = 0
    /\ At = "copy" => part < NumParts /\ job.parts[part + 1].kind # "invalid" /\ field = job.fields
                        /\ chunk <= job.parts[part + 1].chunks
    /\ At = "value" => field < job.fields
    /\ At # "copy" /\ err = Nil => chunk = 0
    /\ At = "close" /\ err = Nil => field = job.fields /\ part = NumParts
    /\ \A i \in 1..part : job.parts[i].kind = "sound"

ModeInv ==
    /\ job.replay => pc # "blocked" /\ ~readerClosed /\ writerClosed = "no"
                        /\ pc \notin {"closePipe", "gone"}
    /\ ~job.replay => pc # "buffered" /\ err # "limit"
    /\ pc = "blocked" => after # "none"
    /\ job.replay /\ pc \notin {"reader", "rejected"} => job.limit >= 0 /\ err = Nil
    /\ At \in {"reader", "writeTo", "value", "copy", "buffered"} => err = Nil
    /\ writerClosed = "eof" => pc = "gone" /\ err = Nil
    /\ seen = "eof" => writerClosed = "eof"

ContentInv ==
    /\ At \in {"reader", "writeTo", "value", "copy", "close"} /\ err = Nil => Expects(job, Written, Upcoming)
    /\ pc = "reader" => got = <<>>
    /\ At \in {"closePipe", "buffered", "gone"} /\ err = Nil => AllSound /\ Whole(job, Written)

LimitInv ==
    job.replay =>
        /\ wrote = Bytes(job, got)
        /\ job.limit >= 0 => wrote <= job.limit
        /\ err = "limit" =>
              /\ pc = "rejected" /\ Unfinished(job, got)
              /\ wrote + LengthOf(job, NextWrite(job, got)) > job.limit

LateInv ==
    /\ late <= 1
    /\ late = 1 => readerClosed /\ pc \in {"blocked", "close", "closePipe", "gone"}

IInv == Types /\ CursorInv /\ ModeInv /\ ContentInv /\ LimitInv /\ LateInv

-----------------------------------------------------------------------------
\* Sequences

LEMMA Extended ==
    ASSUME NEW j, NEW s \in Seq(Items), NEW w \in Items, Expects(j, s, w)
    PROVE  /\ Append(s, w) \in Seq(Items) /\ Append(s, w) # <<>>
           /\ Append(s, w)[Len(Append(s, w))] = w
           /\ Len(Append(s, w)) = Len(s) + 1
           /\ InOrder(j, Append(s, w))
  <1> DEFINE t == Append(s, w)
  <1>1. /\ t \in Seq(Items) /\ Len(t) = Len(s) + 1 /\ t # <<>> /\ t[Len(s) + 1] = w
        /\ \A k \in 1..Len(s) : t[k] = s[k]
        /\ Len(s) \in Nat
    OBVIOUS
  <1>2. t[1] = FieldOrPart(j, 1)
    <2>1. CASE s = <<>>
      BY <1>1, <2>1 DEF Expects
    <2>2. CASE s # <<>>
      BY <1>1, <2>2 DEF Expects, InOrder
    <2> QED BY <2>1, <2>2
  <1>3. ASSUME NEW k \in 1..(Len(t) - 1)
        PROVE  t[k] # Trailer /\ t[k + 1] = Following(j, t[k])
    <2>1. CASE k = Len(s)
      <3>1. s # <<>> /\ t[k] = s[Len(s)] /\ t[k + 1] = w
        BY <1>1, <2>1
      <3> QED BY <2>1, <3>1 DEF Expects
    <2>2. CASE k # Len(s)
      <3>1. k \in 1..(Len(s) - 1) /\ t[k] = s[k] /\ t[k + 1] = s[k + 1]
        BY <1>1, <2>2
      <3> QED BY <3>1 DEF Expects, InOrder
    <2> QED BY <2>1, <2>2
  <1> QED BY <1>1, <1>2, <1>3 DEF InOrder

LEMMA ExpectsUnfinished ==
    ASSUME NEW j, NEW s, NEW w, Expects(j, s, w)
    PROVE  Unfinished(j, s)
BY DEF Expects, Unfinished

LEMMA Complete ==
    ASSUME NEW j, NEW s \in Seq(Items), Expects(j, s, Trailer)
    PROVE  Whole(j, Append(s, Trailer))
  <1>1. Trailer \in Items
    BY MultipartAssumption DEF Trailer, Item, Items
  <1> QED BY <1>1, Extended DEF Whole

LEMMA StillUnfinished ==
    ASSUME NEW j, NEW s \in Seq(Items), NEW w \in Items, w # Trailer, Expects(j, s, w)
    PROVE  Expects(j, Append(s, w), Following(j, w))
  <1> DEFINE t == Append(s, w)
  <1>1. InOrder(j, t) /\ t # <<>> /\ t[Len(t)] = w
    BY Extended
  <1> HIDE DEF t
  <1>2. Expects(j, t, Following(j, w))
    BY <1>1 DEF Expects
  <1> QED BY <1>2 DEF t

-----------------------------------------------------------------------------
\* The bytes of a sequence of writes

\* Induction on the naturals for a set in the place of a predicate.
LEMMA SetInduction ==
    ASSUME NEW S, 0 \in S, \A n \in Nat : n \in S => n + 1 \in S
    PROVE  \A n \in Nat : n \in S
  <1> SUFFICES ASSUME Nat \ S # {} PROVE FALSE
    OBVIOUS
  <1> DEFINE Below == OpToRel(<, Nat)
  <1>1. PICK n \in Nat \ S : \A m \in Nat \ S : ~(<<m, n>> \in Below)
    BY NatLessThanWellFounded, WFMin
  <1>2. \A a, b \in Nat : a < b => <<a, b>> \in Below
    BY DEF OpToRel
  <1> HIDE DEF Below
  <1>3. n # 0 /\ n \in Nat
    OBVIOUS
  <1>4. n - 1 \in Nat /\ n - 1 < n /\ (n - 1) + 1 = n
    BY <1>3
  <1>5. n - 1 \in S
    <2> SUFFICES ASSUME n - 1 \in Nat \ S PROVE FALSE
      BY <1>4
    <2>1. <<n - 1, n>> \in Below
      BY <1>2, <1>3, <1>4
    <2> QED BY <1>1, <2>1
  <1> QED BY <1>3, <1>4, <1>5

\* f[k] is the number of bytes of the first k writes of s, for k up to n.
Sums(f, j, s, n) ==
    /\ DOMAIN f = 0..n
    /\ f[0] = 0
    /\ \A k \in 1..n : f[k] = f[k - 1] + LengthOf(j, s[k])
    /\ \A k \in 0..n : f[k] \in Nat

Measured(j) == \A w \in Items : LengthOf(j, w) \in Nat

\* The recursion of Bytes has a solution.
LEMMA SumsExist ==
    ASSUME NEW j, Measured(j), NEW s \in Seq(Items)
    PROVE  \E f : Sums(f, j, s, Len(s))
  <1> DEFINE S == {m \in Nat : m <= Len(s) => \E f : Sums(f, j, s, m)}
  <1>1. 0 \in S
    <2> DEFINE g == [k \in 0..0 |-> 0]
    <2>1. Sums(g, j, s, 0)
      BY DEF Sums
    <2> QED BY <2>1
  <1>2. ASSUME NEW m \in Nat, m \in S, m + 1 <= Len(s) PROVE \E f : Sums(f, j, s, m + 1)
    <2>1. PICK f : Sums(f, j, s, m)
      BY <1>2
    <2> DEFINE last == f[m] + LengthOf(j, s[m + 1])
               g == [k \in 0..(m + 1) |-> IF k = m + 1 THEN last ELSE f[k]]
    <2>2. f[m] \in Nat /\ last \in Nat
      <3>1. m \in 0..m /\ m + 1 \in 1..Len(s)
        BY <1>2
      <3>2. f[m] \in Nat
        BY <2>1, <3>1 DEF Sums
      <3>3. s[m + 1] \in Items
        BY <3>1
      <3>4. LengthOf(j, s[m + 1]) \in Nat
        BY <3>3 DEF Measured
      <3> QED BY <3>2, <3>4
    <2> HIDE DEF last
    <2>3. \A k \in 1..(m + 1) : g[k] = g[k - 1] + LengthOf(j, s[k])
      <3> TAKE k \in 1..(m + 1)
      <3>1. CASE k = m + 1
        <4>1. k \in 0..(m + 1) /\ m \in 0..(m + 1) /\ k - 1 = m /\ m # m + 1
          BY <3>1
        <4>2. g[k] = last /\ g[m] = f[m]
          BY <3>1, <4>1
        <4> QED BY <3>1, <4>1, <4>2 DEF last
      <3>2. CASE k # m + 1
        <4>1. k \in 1..m /\ k - 1 \in 0..(m + 1) /\ k - 1 # m + 1 /\ k \in 0..(m + 1)
          BY <3>2
        <4>2. g[k] = f[k] /\ g[k - 1] = f[k - 1]
          BY <3>2, <4>1
        <4> QED BY <2>1, <4>1, <4>2 DEF Sums
      <3> QED BY <3>1, <3>2
    <2>4. \A k \in 0..(m + 1) : g[k] \in Nat
      <3> TAKE k \in 0..(m + 1)
      <3>1. CASE k = m + 1
        BY <2>2, <3>1
      <3>2. CASE k # m + 1
        <4>1. k \in 0..m
          BY <3>2
        <4> QED BY <2>1, <3>2, <4>1 DEF Sums
      <3> QED BY <3>1, <3>2
    <2>5. g[0] = 0 /\ DOMAIN g = 0..(m + 1)
      BY <2>1 DEF Sums
    <2> HIDE DEF g
    <2>6. Sums(g, j, s, m + 1)
      BY <2>3, <2>4, <2>5 DEF Sums
    <2> QED BY <2>6
  <1>3. \A m \in Nat : m \in S => m + 1 \in S
    BY <1>2
  <1> HIDE DEF S
  <1>4. Len(s) \in Nat /\ Len(s) \in S
    BY <1>1, <1>3, SetInduction
  <1> QED BY <1>4 DEF S

\* Two solutions agree as long as the writes do.
LEMMA SumsAgree ==
    ASSUME NEW j, NEW m \in Nat, NEW n \in Nat, m <= n, NEW s, NEW t,
           \A k \in 1..m : t[k] = s[k],
           NEW f, Sums(f, j, s, m), NEW g, Sums(g, j, t, n)
    PROVE  \A k \in 0..m : f[k] = g[k]
  <1> DEFINE S == {k \in Nat : k <= m => f[k] = g[k]}
  <1>1. 0 \in S
    BY DEF Sums
  <1>2. ASSUME NEW k \in Nat, k \in S PROVE k + 1 \in S
    <2> SUFFICES ASSUME k + 1 <= m PROVE f[k + 1] = g[k + 1]
      OBVIOUS
    <2>1. k <= m /\ k + 1 \in 1..m /\ k + 1 \in 1..n /\ (k + 1) - 1 = k
      OBVIOUS
    <2>2. f[k + 1] = f[k] + LengthOf(j, s[k + 1]) /\ g[k + 1] = g[k] + LengthOf(j, t[k + 1])
      BY <2>1 DEF Sums
    <2> QED BY <1>2, <2>1, <2>2
  <1> HIDE DEF S
  <1>3. \A k \in Nat : k \in S
    BY <1>1, <1>2, SetInduction
  <1> QED BY <1>3 DEF S

\* Bytes is the last value of a solution.
LEMMA BytesIs ==
    ASSUME NEW j, Measured(j), NEW s \in Seq(Items)
    PROVE  \E f : Sums(f, j, s, Len(s)) /\ Bytes(j, s) = f[Len(s)]
  <1> DEFINE n == Len(s)
             body(f) == [k \in 0..n |-> IF k = 0 THEN 0 ELSE f[k - 1] + LengthOf(j, s[k])]
             sum == CHOOSE f : f = body(f)
  <1>1. Bytes(j, s) = sum[n]
    BY DEF Bytes
  <1>2. PICK f : Sums(f, j, s, n)
    BY SumsExist
  <1>4. n \in Nat
    OBVIOUS
  <1> HIDE DEF n
  <1> DEFINE g == [k \in 0..n |-> f[k]]
  <1>3. g = body(g)
    <2>1. ASSUME NEW k \in 0..n PROVE g[k] = IF k = 0 THEN 0 ELSE g[k - 1] + LengthOf(j, s[k])
      <3>1. CASE k = 0
        BY <1>2, <3>1 DEF Sums
      <3>2. CASE k # 0
        <4>1. k \in 1..n /\ k - 1 \in 0..n
          BY <1>4, <3>2
        <4> QED BY <1>2, <3>2, <4>1 DEF Sums
      <3> QED BY <3>1, <3>2
    <2> QED BY <2>1
  <1> HIDE DEF g
  <1>5. \E h : h = body(h)
    BY <1>3
  <1> HIDE DEF body
  <1>6. sum = body(sum)
    BY <1>5
  <1> HIDE DEF sum
  <1>7. DOMAIN sum = 0..n /\ \A k \in 0..n : sum[k] = IF k = 0 THEN 0 ELSE sum[k - 1] + LengthOf(j, s[k])
    BY <1>6 DEF body
  <1>8. sum[0] = 0 /\ \A k \in 1..n : sum[k] = sum[k - 1] + LengthOf(j, s[k])
    BY <1>4, <1>7
  <1>9. \A k \in 0..n : sum[k] \in Nat
    <2> DEFINE S == {k \in Nat : k <= n => sum[k] = f[k]}
    <2>1. 0 \in S
      BY <1>2, <1>8 DEF Sums
    <2>2. ASSUME NEW k \in Nat, k \in S PROVE k + 1 \in S
      <3> SUFFICES ASSUME k + 1 <= n PROVE sum[k + 1] = f[k + 1]
        OBVIOUS
      <3>1. k <= n /\ k + 1 \in 1..n /\ (k + 1) - 1 = k
        BY <1>4
      <3>2. sum[k + 1] = sum[k] + LengthOf(j, s[k + 1]) /\ sum[k] = f[k]
        BY <1>8, <2>2, <3>1
      <3>3. f[k + 1] = f[k] + LengthOf(j, s[k + 1])
        BY <1>2, <3>1 DEF Sums
      <3> QED BY <3>2, <3>3
    <2> HIDE DEF S
    <2>3. \A k \in Nat : k \in S
      BY <2>1, <2>2, SetInduction
    <2>4. \A k \in 0..n : k \in Nat /\ k <= n /\ f[k] \in Nat
      BY <1>2, <1>4 DEF Sums
    <2> QED BY <2>3, <2>4 DEF S
  <1>10. Sums(sum, j, s, n)
    BY <1>7, <1>8, <1>9 DEF Sums
  <1> QED BY <1>1, <1>10 DEF n

LEMMA BytesEmpty ==
    ASSUME NEW j, Measured(j)
    PROVE  Bytes(j, <<>>) = 0
  <1>1. <<>> \in Seq(Items) /\ Len(<<>>) = 0
    OBVIOUS
  <1>2. PICK f : Sums(f, j, <<>>, 0) /\ Bytes(j, <<>>) = f[0]
    BY <1>1, BytesIs
  <1> QED BY <1>2 DEF Sums

LEMMA BytesAppend ==
    ASSUME NEW j, Measured(j), NEW s \in Seq(Items), NEW w \in Items
    PROVE  Bytes(j, Append(s, w)) = Bytes(j, s) + LengthOf(j, w)
  <1> DEFINE t == Append(s, w)  n == Len(s)
  <1>1. t \in Seq(Items) /\ Len(t) = n + 1 /\ t[n + 1] = w /\ n \in Nat /\ \A k \in 1..n : t[k] = s[k]
    OBVIOUS
  <1>2. PICK f : Sums(f, j, s, n) /\ Bytes(j, s) = f[n]
    BY BytesIs
  <1> HIDE DEF t, n
  <1>3. PICK g : Sums(g, j, t, n + 1) /\ Bytes(j, t) = g[n + 1]
    BY <1>1, BytesIs
  <1>4. n \in 0..n /\ n + 1 \in 1..(n + 1) /\ (n + 1) - 1 = n /\ n <= n + 1 /\ n + 1 \in Nat
    BY <1>1
  <1>5. f[n] = g[n]
    BY <1>1, <1>2, <1>3, <1>4, SumsAgree
  <1>6. g[n + 1] = g[n] + LengthOf(j, w)
    BY <1>1, <1>3, <1>4 DEF Sums
  <1> QED BY <1>2, <1>3, <1>5, <1>6 DEF t

-----------------------------------------------------------------------------
\* One write of the producer

LEMMA JobFacts ==
    ASSUME TypeOK
    PROVE  /\ job.fields \in Nat /\ job.limit \in Int /\ job.replay \in BOOLEAN
           /\ field \in Nat /\ part \in Nat /\ chunk \in Nat /\ NumParts \in Nat
           /\ job.fields <= MaxFields /\ Measured(job)
           /\ \A i \in 1..NumParts :
                /\ job.parts[i].chunks \in Nat /\ job.parts[i].chunks <= MaxChunks
                /\ job.parts[i].kind \in {"sound", "invalid", "breaks"}
BY MultipartAssumption DEF TypeOK, Jobs, Parts, LengthOf, Measured

LEMMA Quiets == Quiet \in Items /\ \A w \in Items : w.kind # "none" => w # Quiet
BY MultipartAssumption DEF Quiet, Item, Items

\* The three outcomes of a write, for what is the same in all of them.
LEMMA WriteTypes ==
    ASSUME Types, NEW w \in Items, w.kind # "none", pc # "blocked",
           NEW next \in {"writeTo", "value", "copy", "closePipe", "buffered"},
           ~job.replay => next # "buffered",
           Write(w, next)
    PROVE  /\ got' \in Seq(Items) /\ pending' \in Items /\ wrote' \in Nat
           /\ (pending' # Quiet) = (pc' = "blocked")
           /\ after' \in {"none", "writeTo", "value", "copy", "closePipe"}
           /\ err' \in {Nil, "invalid", "limit", "read", "write"}
           /\ pc' \in {"writeTo", "value", "copy", "closePipe", "buffered", "blocked", "rejected"}
  <1>1. CASE ~job.replay /\ pending' = w /\ after' = next /\ pc' = "blocked" /\ UNCHANGED <<got, wrote, err>>
    BY <1>1, Quiets DEF Types, TypeOK
  <1>2. CASE /\ job.replay /\ got' = Append(got, w) /\ wrote' = wrote + LengthOf(job, w) /\ pc' = next
             /\ UNCHANGED <<pending, after, err>>
    <2>1. LengthOf(job, w) \in Nat
      BY JobFacts DEF Types, Measured
    <2> QED BY <1>2, <2>1 DEF Types, TypeOK
  <1>3. CASE job.replay /\ err' = "limit" /\ pc' = "rejected" /\ UNCHANGED <<pending, after, got, wrote>>
    BY <1>3 DEF Types, TypeOK
  <1> QED BY <1>1, <1>2, <1>3 DEF Write

\* The counter of the limitWriter when a write is kept, and when it is refused.
LEMMA LimitKept ==
    ASSUME Types, LimitInv, NEW w \in Items, job.replay, ~LimitReached(w), err = Nil,
           got' = Append(got, w), wrote' = wrote + LengthOf(job, w), UNCHANGED <<job, err>>
    PROVE  LimitInv'
  <1>1. /\ got \in Seq(Items) /\ wrote \in Nat /\ job.limit \in Int
        /\ Measured(job)
    BY JobFacts DEF Types
  <1>2. Bytes(job, Append(got, w)) = Bytes(job, got) + LengthOf(job, w)
    BY <1>1, BytesAppend
  <1>3. wrote' = Bytes(job, Append(got, w))
    BY <1>2 DEF LimitInv
  <1>4. wrote' = Bytes(job, got)'
    BY <1>3
  <1>5. job.limit >= 0 => wrote' <= job.limit
    BY <1>1 DEF LimitReached
  <1>6. err' # "limit"
    BY DEF Nil
  <1> QED BY <1>4, <1>5, <1>6 DEF LimitInv

LEMMA LimitRefused ==
    ASSUME Types, LimitInv, NEW w \in Items, job.replay, LimitReached(w), Expects(job, got, w),
           pc' = "rejected", UNCHANGED <<job, got, wrote>>
    PROVE  LimitInv'
  <1>1. NextWrite(job, got) = w /\ Unfinished(job, got)
    BY ExpectsUnfinished DEF Expects, NextWrite
  <1>2. wrote + LengthOf(job, NextWrite(job, got)) > job.limit
    BY <1>1 DEF LimitReached
  <1>3. /\ Bytes(job, got)' = Bytes(job, got) /\ Unfinished(job, got)' = Unfinished(job, got)
        /\ LengthOf(job, NextWrite(job, got))' = LengthOf(job, NextWrite(job, got))
    OBVIOUS
  <1> QED BY <1>1, <1>2, <1>3 DEF LimitInv

\* A write that the body goes on after.
LEMMA ContentWrite ==
    ASSUME Types, ModeInv, ContentInv, LimitInv,
           NEW w \in Items, w.kind \in {"field", "value", "header", "chunk"},
           NEW next \in {"writeTo", "value", "copy"}, pc \in {"writeTo", "value", "copy"},
           w = Upcoming, Write(w, next),
           UNCHANGED <<job, readerClosed, writerClosed, seen>>,
           At' = next => Upcoming' = Following(job, w)
    PROVE  ModeInv' /\ ContentInv' /\ LimitInv'
  <1>1. /\ At = pc /\ Written = got /\ err = Nil /\ w # Trailer
        /\ got \in Seq(Items) /\ writerClosed # "eof" /\ seen # "eof"
    BY DEF At, Written, ModeInv, Types, Trailer, Item
  <1>2. Expects(job, got, w)
    BY <1>1 DEF ContentInv
  <1>3. Expects(job, Append(got, w), Following(job, w)) /\ Len(Append(got, w)) = Len(got) + 1
    BY <1>1, <1>2, StillUnfinished, Extended
  <1>4. CASE ~job.replay /\ pending' = w /\ after' = next /\ pc' = "blocked" /\ UNCHANGED <<got, wrote, err>>
    <2>1. At' = next /\ Written' = Append(got, w)
      BY <1>4 DEF At, Written
    <2>2. Expects(job, Written, Upcoming)'
      BY <1>3, <2>1
    <2>3. ModeInv'
      BY <1>1, <1>4, <2>1 DEF ModeInv, Nil
    <2>4. ContentInv'
      BY <1>4, <2>1, <2>2 DEF ContentInv
    <2>5. LimitInv'
      BY <1>4 DEF LimitInv
    <2> QED BY <2>3, <2>4, <2>5
  <1>5. CASE /\ job.replay /\ ~LimitReached(w) /\ got' = Append(got, w) /\ pc' = next
             /\ wrote' = wrote + LengthOf(job, w) /\ UNCHANGED <<pending, after, err>>
    <2>1. At' = next /\ Written' = Append(got, w)
      BY <1>5 DEF At, Written
    <2>2. Expects(job, Written, Upcoming)'
      BY <1>3, <2>1
    <2>3. ModeInv'
      BY <1>1, <1>5, <2>1 DEF ModeInv, Nil
    <2>4. ContentInv'
      BY <1>5, <2>1, <2>2 DEF ContentInv
    <2>5. LimitInv'
      BY <1>1, <1>5, LimitKept
    <2> QED BY <2>3, <2>4, <2>5
  <1>6. CASE /\ job.replay /\ LimitReached(w) /\ err' = "limit" /\ pc' = "rejected"
             /\ UNCHANGED <<pending, after, got, wrote>>
    <2>1. At' = "rejected"
      BY <1>6 DEF At
    <2>3. ModeInv'
      BY <1>1, <1>6, <2>1 DEF ModeInv, Nil
    <2>4. ContentInv'
      BY <1>6, <2>1 DEF ContentInv
    <2>5. LimitInv'
      BY <1>2, <1>6, LimitRefused
    <2> QED BY <2>3, <2>4, <2>5
  <1> QED BY <1>4, <1>5, <1>6 DEF Write

-----------------------------------------------------------------------------
\* The actions

LEMMA InitInv == Init => IInv
  <1> SUFFICES ASSUME Init PROVE IInv
    OBVIOUS
  <1>1. Types
    <2>1. /\ job \in Jobs /\ pc = "reader" /\ field = 0 /\ part = 0 /\ chunk = 0
          /\ pending = Quiet /\ after = "none" /\ err = Nil /\ late = 0
          /\ readerClosed = FALSE /\ writerClosed = "no" /\ seen = "reading" /\ got = <<>> /\ wrote = 0
      BY DEF Init
    <2>2. field \in 0..MaxFields /\ part \in 0..NumParts /\ chunk \in 0..MaxChunks /\ late \in Nat
          /\ wrote \in Nat
      BY <2>1, MultipartAssumption
    <2>3. got \in Seq(Items) /\ pending \in Items
      BY <2>1, Quiets
    <2> QED BY <2>1, <2>2, <2>3 DEF Types, TypeOK
  <1>2. At = "reader" /\ Written = <<>> /\ job.fields \in Nat /\ NumParts \in Nat
    BY <1>1, JobFacts DEF Init, At, Written, Types
  <1>3. CursorInv
    BY <1>2 DEF Init, CursorInv
  <1>4. ModeInv
    BY <1>1, <1>2 DEF Init, ModeInv, Nil
  <1>5. Upcoming = FieldOrPart(job, 1)
    BY <1>2 DEF Init, Upcoming, FieldOrPart
  <1>6. ContentInv
    BY <1>2, <1>5 DEF Init, ContentInv, Expects, InOrder
  <1>7. LimitInv /\ LateInv
    <2>1. Bytes(job, <<>>) = 0
      BY <1>1, BytesEmpty, JobFacts DEF Types
    <2> QED BY <1>1, <1>2, <2>1, JobFacts DEF Init, LimitInv, LateInv, Types, Nil
  <1> QED BY <1>1, <1>3, <1>4, <1>6, <1>7 DEF IInv

LEMMA WriteFieldStep == ASSUME IInv, WriteField PROVE IInv'
  <1> DEFINE w == FieldItem(field + 1)
  <1>1. /\ Types /\ CursorInv /\ ModeInv /\ ContentInv /\ LimitInv /\ LateInv
        /\ job.fields \in Nat /\ field \in Nat /\ part \in Nat /\ chunk \in Nat /\ NumParts \in Nat
        /\ job.fields <= MaxFields
    BY JobFacts DEF IInv, Types
  <1>2. /\ pc = "writeTo" /\ field < job.fields /\ Write(w, "value")
        /\ UNCHANGED <<job, field, part, chunk, readerClosed, writerClosed, seen, late>>
    BY DEF WriteField, jobVars, cursor, pipe
  <1>3. w \in Items /\ w.kind = "field" /\ w.n = field + 1
    BY <1>1, <1>2, MultipartAssumption DEF FieldItem, Item, Items
  <1>4. w = Upcoming
    BY <1>1, <1>2 DEF Upcoming, At
  <1>5. At' = "value" => Upcoming' = Following(job, w)
    BY <1>1, <1>2, <1>3 DEF Upcoming, Following
  <1> HIDE DEF w
  <1>6. ModeInv' /\ ContentInv' /\ LimitInv'
    BY <1>1, <1>2, <1>3, <1>4, <1>5, ContentWrite
  <1>7. Types'
    BY <1>1, <1>2, <1>3, WriteTypes DEF Types, TypeOK
  <1>8. (pc' = "blocked" /\ after' = "value") \/ pc' = "value" \/ pc' = "rejected"
    BY <1>2 DEF Write
  <1>9. CursorInv'
    BY <1>1, <1>2, <1>8 DEF CursorInv, At, ModeInv
  <1>10. LateInv'
    BY <1>1, <1>2 DEF LateInv, Types
  <1> QED BY <1>6, <1>7, <1>9, <1>10 DEF IInv

LEMMA WriteValueStep == ASSUME IInv, WriteValue PROVE IInv'
  <1> DEFINE w == ValueItem(field + 1)
  <1>1. /\ Types /\ CursorInv /\ ModeInv /\ ContentInv /\ LimitInv /\ LateInv
        /\ job.fields \in Nat /\ field \in Nat /\ part \in Nat /\ chunk \in Nat /\ NumParts \in Nat
        /\ job.fields <= MaxFields
    BY JobFacts DEF IInv, Types
  <1>2. /\ pc = "value" /\ field' = field + 1 /\ Write(w, "writeTo")
        /\ UNCHANGED <<job, part, chunk, readerClosed, writerClosed, seen, late>>
    BY DEF WriteValue, jobVars, pipe
  <1>3. field < job.fields /\ part = 0
    BY <1>1, <1>2 DEF CursorInv, At
  <1>4. w \in Items /\ w.kind = "value" /\ w.n = field + 1
    BY <1>1, <1>3, MultipartAssumption DEF ValueItem, Item, Items
  <1>5. w = Upcoming
    BY <1>1, <1>2 DEF Upcoming, At
  <1>6. At' = "writeTo" => Upcoming' = Following(job, w)
    BY <1>1, <1>2, <1>3, <1>4 DEF Upcoming, Following, FieldOrPart
  <1> HIDE DEF w
  <1>7. ModeInv' /\ ContentInv' /\ LimitInv'
    BY <1>1, <1>2, <1>4, <1>5, <1>6, ContentWrite
  <1>8. Types'
    <2>1. field' \in 0..MaxFields
      BY <1>1, <1>2, <1>3, MultipartAssumption
    <2> QED BY <1>1, <1>2, <1>4, <2>1, WriteTypes DEF Types, TypeOK
  <1>9. (pc' = "blocked" /\ after' = "writeTo") \/ pc' = "writeTo" \/ pc' = "rejected"
    BY <1>2 DEF Write
  <1>10. CursorInv'
    BY <1>1, <1>2, <1>3, <1>9 DEF CursorInv, At, ModeInv
  <1>11. LateInv'
    BY <1>1, <1>2 DEF LateInv, Types
  <1> QED BY <1>7, <1>8, <1>10, <1>11 DEF IInv

LEMMA WriteHeaderStep == ASSUME IInv, WriteHeader PROVE IInv'
  <1> DEFINE w == HeaderItem(part + 1)
  <1>1. /\ Types /\ CursorInv /\ ModeInv /\ ContentInv /\ LimitInv /\ LateInv
        /\ job.fields \in Nat /\ field \in Nat /\ part \in Nat /\ chunk \in Nat /\ NumParts \in Nat
    BY JobFacts DEF IInv, Types
  <1>2. /\ pc = "writeTo" /\ field = job.fields /\ part < NumParts /\ Write(w, "copy")
        /\ job.parts[part + 1].kind # "invalid"
        /\ UNCHANGED <<job, field, part, chunk, readerClosed, writerClosed, seen, late>>
    BY DEF WriteHeader, jobVars, cursor, pipe, NextPart
  <1>3. w \in Items /\ w.kind = "header" /\ w.n = 0 /\ w.part = part + 1
    BY <1>1, <1>2, MultipartAssumption DEF HeaderItem, Item, Items
  <1>4. w = Upcoming /\ chunk = 0 /\ job.parts[part + 1].chunks \in Nat
    BY <1>1, <1>2, JobFacts DEF Upcoming, At, PartOrEnd, CursorInv, ModeInv, Types
  <1>5. At' = "copy" => Upcoming' = Following(job, w)
    BY <1>1, <1>2, <1>3, <1>4 DEF Upcoming, Following
  <1> HIDE DEF w
  <1>6. ModeInv' /\ ContentInv' /\ LimitInv'
    BY <1>1, <1>2, <1>3, <1>4, <1>5, ContentWrite
  <1>7. Types'
    BY <1>1, <1>2, <1>3, WriteTypes DEF Types, TypeOK
  <1>8. (pc' = "blocked" /\ after' = "copy") \/ pc' = "copy" \/ pc' = "rejected"
    BY <1>2 DEF Write
  <1>9. CursorInv'
    BY <1>1, <1>2, <1>4, <1>8 DEF CursorInv, At
  <1>10. LateInv'
    BY <1>1, <1>2 DEF LateInv, Types
  <1> QED BY <1>6, <1>7, <1>9, <1>10 DEF IInv

LEMMA CopyChunkStep == ASSUME IInv, CopyChunk PROVE IInv'
  <1> DEFINE w == ChunkItem(part + 1, chunk + 1)
  <1>1. /\ Types /\ CursorInv /\ ModeInv /\ ContentInv /\ LimitInv /\ LateInv
        /\ job.fields \in Nat /\ field \in Nat /\ part \in Nat /\ chunk \in Nat /\ NumParts \in Nat
    BY JobFacts DEF IInv, Types
  <1>2. /\ pc = "copy" /\ chunk < job.parts[part + 1].chunks /\ chunk' = chunk + 1 /\ Write(w, "copy")
        /\ late' = IF readerClosed THEN late + 1 ELSE late
        /\ UNCHANGED <<job, field, part, readerClosed, writerClosed, seen>>
    BY DEF CopyChunk, jobVars, pipe, NextPart
  <1>4. /\ w = Upcoming /\ part < NumParts
        /\ job.parts[part + 1].chunks \in Nat /\ job.parts[part + 1].chunks <= MaxChunks
    BY <1>1, <1>2, JobFacts DEF Upcoming, At, CursorInv, Types
  <1>3. w \in Items /\ w.kind = "chunk" /\ w.n = chunk + 1 /\ w.part = part + 1
    BY <1>1, <1>2, <1>4, MultipartAssumption DEF ChunkItem, Item, Items
  <1>5. At' = "copy" => Upcoming' = Following(job, w)
    BY <1>1, <1>2, <1>3, <1>4 DEF Upcoming, Following
  <1> HIDE DEF w
  <1>6. ModeInv' /\ ContentInv' /\ LimitInv'
    BY <1>1, <1>2, <1>3, <1>4, <1>5, ContentWrite
  <1>7. Types'
    BY <1>1, <1>2, <1>3, <1>4, WriteTypes, MultipartAssumption DEF Types, TypeOK
  <1>8. (pc' = "blocked" /\ after' = "copy") \/ pc' = "copy" \/ (pc' = "rejected" /\ err' # Nil)
    BY <1>2 DEF Write, Nil
  <1>9. CursorInv'
    BY <1>1, <1>2, <1>4, <1>8 DEF CursorInv, At
  <1>10. late = 0 /\ (readerClosed => pc' = "blocked")
    BY <1>1, <1>2 DEF LateInv, ModeInv, Write, Types
  <1>11. LateInv'
    BY <1>2, <1>10 DEF LateInv
  <1> QED BY <1>6, <1>7, <1>9, <1>11 DEF IInv

\* A step that leaves the position of the producer, what it has written and
\* its error as they are keeps the part of the invariant about them.
LEMMA Unmoved ==
    ASSUME CursorInv, ContentInv,
           At' = At, Written' = Written, UNCHANGED <<job, cursor, err>>,
           pc' = "reader" => pc = "reader" /\ got' = got
    PROVE  CursorInv' /\ ContentInv'
  <1>1. UNCHANGED <<job, field, part, chunk, err>>
    BY DEF cursor
  <1>2. Upcoming' = Upcoming /\ AllSound' = AllSound
    BY <1>1 DEF Upcoming, AllSound
  <1>3. CursorInv'
    BY <1>1 DEF CursorInv
  <1>4. ContentInv'
    BY <1>1, <1>2 DEF ContentInv
  <1> QED BY <1>3, <1>4

LEMMA RejectsStep == ASSUME IInv, Rejects PROVE IInv'
  <1>1. Types /\ CursorInv /\ ModeInv /\ ContentInv /\ LimitInv /\ LateInv
    BY DEF IInv
  <1>2. /\ pc = "reader" /\ pc' = "rejected" /\ err' = "invalid"
        /\ UNCHANGED <<job, field, part, chunk, pending, after, readerClosed, writerClosed, seen, got, wrote, late>>
    BY DEF Rejects, jobVars, cursor, pipe
  <1>3. At' = "rejected"
    BY <1>2 DEF At
  <1>4. Types'
    BY <1>1, <1>2 DEF Types, TypeOK
  <1>5. CursorInv'
    BY <1>1, <1>2, <1>3 DEF CursorInv, Nil
  <1>6. ModeInv'
    BY <1>1, <1>2, <1>3 DEF ModeInv, Nil
  <1>7. ContentInv' /\ LimitInv'
    BY <1>1, <1>2, <1>3 DEF ContentInv, LimitInv, Nil
  <1>8. LateInv'
    BY <1>1, <1>2 DEF LateInv
  <1> QED BY <1>4, <1>5, <1>6, <1>7, <1>8 DEF IInv

LEMMA StartsStep == ASSUME IInv, Starts PROVE IInv'
  <1>1. Types /\ CursorInv /\ ModeInv /\ ContentInv /\ LimitInv /\ LateInv
    BY DEF IInv
  <1>2. /\ pc = "reader" /\ pc' = "writeTo" /\ (job.replay => job.limit >= 0)
        /\ UNCHANGED <<job, field, part, chunk, pending, after, err, readerClosed, writerClosed, seen, got, wrote, late>>
    BY DEF Starts, jobVars, cursor, pipe
  <1>3. At = "reader" /\ At' = "writeTo" /\ Written' = Written /\ err = Nil
    BY <1>1, <1>2 DEF At, Written, ModeInv
  <1>4. Upcoming' = Upcoming
    BY <1>2, <1>3 DEF Upcoming
  <1>5. Types'
    BY <1>1, <1>2 DEF Types, TypeOK
  <1>6. CursorInv'
    BY <1>1, <1>2, <1>3 DEF CursorInv
  <1>7. ModeInv'
    BY <1>1, <1>2, <1>3 DEF ModeInv, Nil
  <1>8. ContentInv' /\ LimitInv'
    BY <1>1, <1>2, <1>3, <1>4 DEF ContentInv, LimitInv, Nil
  <1>9. LateInv'
    BY <1>1, <1>2 DEF LateInv
  <1> QED BY <1>5, <1>6, <1>7, <1>8, <1>9 DEF IInv

\* writeTo ends with the error of a part.
LEMMA FailStep ==
    ASSUME IInv, NEW e \in {"invalid", "read"}, pc \in {"writeTo", "copy"}, Fail(e),
           UNCHANGED <<jobVars, cursor, pending, after, pipe, got, wrote, late>>
    PROVE  IInv'
  <1>1. /\ Types /\ CursorInv /\ ModeInv /\ ContentInv /\ LimitInv /\ LateInv
        /\ job.replay \in BOOLEAN
    BY JobFacts DEF IInv, Types
  <1>2. /\ err' = e /\ pc' = (IF job.replay THEN "rejected" ELSE "close")
        /\ UNCHANGED <<job, field, part, chunk, pending, after, readerClosed, writerClosed, seen, got, wrote, late>>
    BY DEF Fail, jobVars, cursor, pipe
  <1>3. At' = pc' /\ err' # Nil /\ err' # "limit" /\ pc' \in {"rejected", "close"}
    BY <1>2 DEF At, Nil
  <1>4. Types'
    BY <1>1, <1>2, <1>3 DEF Types, TypeOK
  <1>5. CursorInv'
    BY <1>1, <1>2, <1>3 DEF CursorInv
  <1>6. ModeInv'
    BY <1>1, <1>2, <1>3 DEF ModeInv
  <1>7. ContentInv' /\ LimitInv'
    BY <1>1, <1>2, <1>3 DEF ContentInv, LimitInv
  <1>8. LateInv'
    BY <1>1, <1>2 DEF LateInv
  <1> QED BY <1>4, <1>5, <1>6, <1>7, <1>8 DEF IInv

LEMMA PartEndsStep == ASSUME IInv, PartEnds PROVE IInv'
  <1>1. /\ Types /\ CursorInv /\ ModeInv /\ ContentInv /\ LimitInv /\ LateInv
        /\ job.fields \in Nat /\ field \in Nat /\ part \in Nat /\ chunk \in Nat /\ NumParts \in Nat
    BY JobFacts DEF IInv, Types
  <1>2. /\ pc = "copy" /\ pc' = "writeTo" /\ chunk = job.parts[part + 1].chunks
        /\ job.parts[part + 1].kind = "sound" /\ part' = part + 1 /\ chunk' = 0
        /\ UNCHANGED <<job, field, pending, after, err, readerClosed, writerClosed, seen, got, wrote, late>>
    BY DEF PartEnds, jobVars, pipe, NextPart
  <1>3. At = "copy" /\ At' = "writeTo" /\ Written' = Written /\ err = Nil
    BY <1>1, <1>2 DEF At, Written, ModeInv
  <1>4. part < NumParts /\ field = job.fields
    BY <1>1, <1>3 DEF CursorInv
  <1>5. Upcoming = PartOrEnd(part + 2) /\ Upcoming' = PartOrEnd(part + 2)
    <2>1. ~(chunk < job.parts[part + 1].chunks)
      BY <1>1, <1>2
    <2>2. part' + 1 = part + 2 /\ ~(field' < job'.fields)
      BY <1>1, <1>2, <1>4
    <2> QED BY <1>3, <2>1, <2>2 DEF Upcoming
  <1>6. Types'
    <2>1. part' \in 0..NumParts /\ chunk' \in 0..MaxChunks
      BY <1>1, <1>2, <1>4, MultipartAssumption
    <2> QED BY <1>1, <1>2, <2>1 DEF Types, TypeOK
  <1>7. CursorInv'
    BY <1>1, <1>2, <1>3, <1>4 DEF CursorInv
  <1>8. ModeInv'
    BY <1>1, <1>2, <1>3 DEF ModeInv, Nil
  <1>9. ContentInv' /\ LimitInv'
    BY <1>1, <1>2, <1>3, <1>5 DEF ContentInv, LimitInv, Nil
  <1>10. LateInv'
    BY <1>1, <1>2 DEF LateInv
  <1> QED BY <1>6, <1>7, <1>8, <1>9, <1>10 DEF IInv

LEMMA AllWrittenStep == ASSUME IInv, AllWritten PROVE IInv'
  <1>1. Types /\ CursorInv /\ ModeInv /\ ContentInv /\ LimitInv /\ LateInv
    BY DEF IInv
  <1>2. /\ pc = "writeTo" /\ pc' = "close" /\ field = job.fields /\ part = NumParts
        /\ UNCHANGED <<job, field, part, chunk, pending, after, err, readerClosed, writerClosed, seen, got, wrote, late>>
    BY DEF AllWritten, jobVars, cursor, pipe
  <1>3. At = "writeTo" /\ At' = "close" /\ Written' = Written /\ err = Nil
    BY <1>1, <1>2 DEF At, Written, ModeInv
  <1>4. Upcoming' = Upcoming
    BY <1>2, <1>3 DEF Upcoming
  <1>5. Types'
    BY <1>1, <1>2 DEF Types, TypeOK
  <1>6. CursorInv'
    BY <1>1, <1>2, <1>3 DEF CursorInv
  <1>7. ModeInv'
    BY <1>1, <1>2, <1>3 DEF ModeInv, Nil
  <1>8. ContentInv' /\ LimitInv'
    BY <1>1, <1>2, <1>3, <1>4 DEF ContentInv, LimitInv, Nil
  <1>9. LateInv'
    BY <1>1, <1>2 DEF LateInv
  <1> QED BY <1>5, <1>6, <1>7, <1>8, <1>9 DEF IInv

LEMMA WriteTrailerStep == ASSUME IInv, WriteTrailer PROVE IInv'
  <1> DEFINE next == IF job.replay THEN "buffered" ELSE "closePipe"
  <1>1. /\ Types /\ CursorInv /\ ModeInv /\ ContentInv /\ LimitInv /\ LateInv
        /\ job.fields \in Nat /\ part \in Nat /\ NumParts \in Nat /\ job.replay \in BOOLEAN
        /\ job.limit \in Int /\ got \in Seq(Items)
    BY JobFacts DEF IInv, Types
  <1>2. /\ pc = "close" /\ Write(Trailer, next)
        /\ UNCHANGED <<job, field, part, chunk, readerClosed, writerClosed, seen, late>>
    BY DEF WriteTrailer, jobVars, cursor, pipe
  <1>3. Trailer \in Items /\ Trailer.kind = "trailer"
    BY MultipartAssumption DEF Trailer, Item, Items
  <1>4. /\ At = "close" /\ Written = got /\ writerClosed # "eof" /\ seen # "eof"
        /\ (job.replay => err = Nil /\ job.limit >= 0)
    BY <1>1, <1>2 DEF At, Written, ModeInv
  <1>5. ASSUME err = Nil
        PROVE  /\ Expects(job, got, Trailer) /\ Whole(job, Append(got, Trailer)) /\ AllSound
               /\ chunk = 0
    <2>1. field = job.fields /\ part = NumParts /\ chunk = 0
      BY <1>1, <1>4, <1>5 DEF CursorInv
    <2>2. Upcoming = Trailer
      BY <1>1, <1>4, <2>1 DEF Upcoming, PartOrEnd
    <2>3. Expects(job, got, Trailer)
      BY <1>1, <1>4, <1>5, <2>2 DEF ContentInv
    <2>4. AllSound
      BY <1>1, <2>1 DEF CursorInv, AllSound
    <2> QED BY <1>1, <2>1, <2>3, <2>4, Complete
  <1>6. Types'
    <2>1. next \in {"writeTo", "value", "copy", "closePipe", "buffered"} /\ (~job.replay => next # "buffered")
      OBVIOUS
    <2> HIDE DEF next
    <2>2. /\ got' \in Seq(Items) /\ pending' \in Items /\ wrote' \in Nat
          /\ (pending' # Quiet) = (pc' = "blocked")
          /\ after' \in {"none", "writeTo", "value", "copy", "closePipe"}
          /\ err' \in {Nil, "invalid", "limit", "read", "write"}
          /\ pc' \in {"writeTo", "value", "copy", "closePipe", "buffered", "blocked", "rejected"}
      BY <1>1, <1>2, <1>3, <2>1, WriteTypes
    <2> QED BY <1>1, <1>2, <2>2 DEF Types, TypeOK
  <1>7. CASE /\ ~job.replay /\ pending' = Trailer /\ after' = "closePipe" /\ pc' = "blocked"
             /\ UNCHANGED <<got, wrote, err>>
    <2>1. At' = "closePipe" /\ Written' = Append(got, Trailer) /\ AllSound' = AllSound
      BY <1>2, <1>7 DEF At, Written, AllSound
    <2>2. CursorInv'
      BY <1>1, <1>2, <1>5, <1>7, <2>1 DEF CursorInv
    <2>3. ModeInv'
      BY <1>1, <1>2, <1>4, <1>7, <2>1 DEF ModeInv
    <2>4. ContentInv' /\ LimitInv'
      BY <1>2, <1>5, <1>7, <2>1 DEF ContentInv, LimitInv
    <2>5. LateInv'
      BY <1>1, <1>2, <1>7 DEF LateInv
    <2> QED BY <1>6, <2>2, <2>3, <2>4, <2>5 DEF IInv
  <1>8. CASE /\ job.replay /\ ~LimitReached(Trailer) /\ got' = Append(got, Trailer) /\ pc' = "buffered"
             /\ wrote' = wrote + LengthOf(job, Trailer) /\ UNCHANGED <<pending, after, err>>
    <2>1. At' = "buffered" /\ Written' = Append(got, Trailer) /\ AllSound' = AllSound
      BY <1>2, <1>8 DEF At, Written, AllSound
    <2>2. CursorInv'
      BY <1>1, <1>2, <1>5, <1>8, <2>1 DEF CursorInv
    <2>3. ModeInv'
      BY <1>1, <1>2, <1>4, <1>8, <2>1 DEF ModeInv, Nil
    <2>4. ContentInv'
      BY <1>2, <1>5, <1>8, <2>1 DEF ContentInv
    <2>5. LimitInv'
      BY <1>1, <1>2, <1>3, <1>4, <1>8, LimitKept
    <2>6. LateInv'
      BY <1>1, <1>2, <1>4, <1>8 DEF LateInv, ModeInv
    <2> QED BY <1>6, <2>2, <2>3, <2>4, <2>5, <2>6 DEF IInv
  <1>9. CASE /\ job.replay /\ LimitReached(Trailer) /\ err' = "limit" /\ pc' = "rejected"
             /\ UNCHANGED <<pending, after, got, wrote>>
    <2>1. At' = "rejected" /\ err' # Nil
      BY <1>9 DEF At, Nil
    <2>2. LimitInv'
      BY <1>1, <1>2, <1>3, <1>4, <1>5, <1>9, LimitRefused
    <2>3. CursorInv'
      BY <1>1, <1>2, <2>1 DEF CursorInv
    <2>4. ModeInv'
      BY <1>1, <1>2, <1>4, <1>9, <2>1 DEF ModeInv
    <2>5. ContentInv'
      BY <1>1, <1>2, <1>9, <2>1 DEF ContentInv
    <2>6. LateInv'
      BY <1>1, <1>2, <1>4, <1>9 DEF LateInv, ModeInv
    <2> QED BY <1>6, <2>2, <2>3, <2>4, <2>5, <2>6 DEF IInv
  <1> QED BY <1>2, <1>7, <1>8, <1>9 DEF Write

LEMMA ClosePipeStep == ASSUME IInv, ClosePipe PROVE IInv'
  <1>1. Types /\ CursorInv /\ ModeInv /\ ContentInv /\ LimitInv /\ LateInv
    BY DEF IInv
  <1>2. /\ pc = "closePipe" /\ pc' = "gone" /\ writerClosed' = (IF err = Nil THEN "eof" ELSE "err")
        /\ UNCHANGED <<job, field, part, chunk, pending, after, err, readerClosed, seen, got, wrote, late>>
    BY DEF ClosePipe, jobVars, cursor
  <1>3. At = "closePipe" /\ At' = "gone" /\ Written' = Written /\ AllSound' = AllSound
    BY <1>2 DEF At, Written, AllSound
  <1>4. ~job.replay /\ seen # "eof"
    BY <1>1, <1>2 DEF ModeInv
  <1>5. Types'
    BY <1>1, <1>2 DEF Types, TypeOK
  <1>6. CursorInv'
    BY <1>1, <1>2, <1>3 DEF CursorInv
  <1>7. ModeInv'
    BY <1>1, <1>2, <1>3, <1>4 DEF ModeInv
  <1>8. ContentInv' /\ LimitInv'
    BY <1>1, <1>2, <1>3, <1>4 DEF ContentInv, LimitInv
  <1>9. LateInv'
    BY <1>1, <1>2 DEF LateInv
  <1> QED BY <1>5, <1>6, <1>7, <1>8, <1>9 DEF IInv

LEMMA WriteFailsStep == ASSUME IInv, WriteFails PROVE IInv'
  <1>1. Types /\ CursorInv /\ ModeInv /\ ContentInv /\ LimitInv /\ LateInv
    BY DEF IInv
  <1>2. /\ pc = "blocked" /\ readerClosed /\ pending' = Quiet
        /\ err' = (IF err = Nil THEN "write" ELSE err)
        /\ pc' = (IF after = "closePipe" THEN "closePipe" ELSE "close")
        /\ UNCHANGED <<job, field, part, chunk, after, readerClosed, writerClosed, seen, got, wrote, late>>
    BY DEF WriteFails, jobVars, cursor, pipe
  <1>3. At' = pc' /\ err' # Nil /\ pc' \in {"close", "closePipe"} /\ ~job.replay
        /\ writerClosed # "eof" /\ seen # "eof" /\ err # "limit" /\ err' # "limit"
    BY <1>1, <1>2 DEF At, Nil, ModeInv
  <1>4. Types'
    BY <1>1, <1>2, <1>3, Quiets DEF Types, TypeOK
  <1>5. CursorInv'
    BY <1>1, <1>2, <1>3 DEF CursorInv
  <1>6. ModeInv'
    BY <1>2, <1>3 DEF ModeInv
  <1>7. ContentInv' /\ LimitInv'
    BY <1>2, <1>3 DEF ContentInv, LimitInv
  <1>8. LateInv'
    BY <1>1, <1>2, <1>3 DEF LateInv
  <1> QED BY <1>4, <1>5, <1>6, <1>7, <1>8 DEF IInv

LEMMA TransportReadsStep == ASSUME IInv, TransportReads PROVE IInv'
  <1>1. Types /\ CursorInv /\ ModeInv /\ ContentInv /\ LimitInv /\ LateInv
    BY DEF IInv
  <1>2. /\ pc = "blocked" /\ ~readerClosed /\ got' = Append(got, pending) /\ pending' = Quiet
        /\ pc' = after
        /\ UNCHANGED <<job, field, part, chunk, after, err, readerClosed, writerClosed, seen, wrote, late>>
        /\ UNCHANGED cursor
    BY DEF TransportReads, jobVars, cursor, pipe
  <1>3. pc' \in {"writeTo", "value", "copy", "closePipe"} /\ ~job.replay /\ err # "limit"
    BY <1>1, <1>2 DEF ModeInv, Types, TypeOK
  <1>4. At' = At /\ Written' = Written
    BY <1>2, <1>3 DEF At, Written
  <1>5. CursorInv' /\ ContentInv'
    BY <1>1, <1>2, <1>3, <1>4, Unmoved
  <1>6. Types'
    BY <1>1, <1>2, <1>3, Quiets DEF Types, TypeOK
  <1>7. ModeInv'
    BY <1>1, <1>2, <1>3, <1>4 DEF ModeInv
  <1>8. LimitInv' /\ LateInv'
    BY <1>1, <1>2, <1>3 DEF LimitInv, LateInv
  <1> QED BY <1>5, <1>6, <1>7, <1>8 DEF IInv

LEMMA TransportReadsEndStep == ASSUME IInv, TransportReadsEnd PROVE IInv'
  <1>1. Types /\ CursorInv /\ ModeInv /\ ContentInv /\ LimitInv /\ LateInv
    BY DEF IInv
  <1>2. /\ writerClosed # "no" /\ seen' = writerClosed
        /\ UNCHANGED <<job, pc, pending, after, err, readerClosed, writerClosed, got, wrote, late>>
        /\ UNCHANGED cursor
    BY DEF TransportReadsEnd, jobVars
  <1>3. At' = At /\ Written' = Written /\ UNCHANGED <<field, part, chunk>>
    BY <1>2 DEF At, Written, cursor
  <1>4. CursorInv' /\ ContentInv'
    BY <1>1, <1>2, <1>3, Unmoved
  <1>5. Types'
    BY <1>1, <1>2, <1>3 DEF Types, TypeOK
  <1>6. ModeInv'
    BY <1>1, <1>2, <1>3 DEF ModeInv
  <1>7. LimitInv' /\ LateInv'
    BY <1>1, <1>2 DEF LimitInv, LateInv
  <1> QED BY <1>4, <1>5, <1>6, <1>7 DEF IInv

LEMMA TransportClosesStep == ASSUME IInv, TransportCloses PROVE IInv'
  <1>1. Types /\ CursorInv /\ ModeInv /\ ContentInv /\ LimitInv /\ LateInv
    BY DEF IInv
  <1>2. /\ ~job.replay /\ ~readerClosed /\ readerClosed' = TRUE
        /\ UNCHANGED <<job, pc, pending, after, err, writerClosed, seen, got, wrote, late>>
        /\ UNCHANGED cursor
    BY DEF TransportCloses, jobVars
  <1>3. At' = At /\ Written' = Written /\ UNCHANGED <<field, part, chunk>>
    BY <1>2 DEF At, Written, cursor
  <1>4. CursorInv' /\ ContentInv'
    BY <1>1, <1>2, <1>3, Unmoved
  <1>5. Types'
    BY <1>1, <1>2, <1>3 DEF Types, TypeOK
  <1>6. ModeInv'
    BY <1>1, <1>2, <1>3 DEF ModeInv
  <1>7. LimitInv' /\ LateInv'
    BY <1>1, <1>2 DEF LimitInv, LateInv
  <1> QED BY <1>4, <1>5, <1>6, <1>7 DEF IInv

LEMMA StutterStep == ASSUME IInv, UNCHANGED vars PROVE IInv'
  <1>1. Types /\ CursorInv /\ ModeInv /\ ContentInv /\ LimitInv /\ LateInv
    BY DEF IInv
  <1>2. /\ UNCHANGED <<job, pc, pending, after, err, readerClosed, writerClosed, seen, got, wrote, late>>
        /\ UNCHANGED cursor
    BY DEF vars, jobVars, pipe
  <1>3. At' = At /\ Written' = Written /\ UNCHANGED <<field, part, chunk>>
    BY <1>2 DEF At, Written, cursor
  <1>4. CursorInv' /\ ContentInv'
    BY <1>1, <1>2, <1>3, Unmoved
  <1>5. Types'
    BY <1>1, <1>2, <1>3 DEF Types, TypeOK
  <1>6. ModeInv' /\ LimitInv' /\ LateInv'
    BY <1>1, <1>2, <1>3 DEF ModeInv, LimitInv, LateInv
  <1> QED BY <1>4, <1>5, <1>6 DEF IInv

-----------------------------------------------------------------------------
\* The theorems

\* The inductive invariant: while nothing has failed, what has been written is
\* the beginning of the body that the producer's position says, in the
\* streaming and in the buffered reader alike.
THEOREM Invariance == Spec => []IInv
  <1>1. IInv /\ [Next]_vars => IInv'
    <2> SUFFICES ASSUME IInv, [Next]_vars PROVE IInv'
      OBVIOUS
    <2>1. CASE Rejects \/ Starts
      BY <2>1, RejectsStep, StartsStep
    <2>2. CASE WriteField \/ WriteValue \/ WriteHeader \/ CopyChunk
      BY <2>2, WriteFieldStep, WriteValueStep, WriteHeaderStep, CopyChunkStep
    <2>3. CASE RefusePart \/ PartBreaks
      BY <2>3, FailStep DEF RefusePart, PartBreaks
    <2>4. CASE PartEnds \/ AllWritten \/ WriteTrailer
      BY <2>4, PartEndsStep, AllWrittenStep, WriteTrailerStep
    <2>5. CASE ClosePipe \/ WriteFails
      BY <2>5, ClosePipeStep, WriteFailsStep
    <2>6. CASE TransportReads \/ TransportReadsEnd \/ TransportCloses
      BY <2>6, TransportReadsStep, TransportReadsEndStep, TransportClosesStep
    <2>7. CASE UNCHANGED vars
      BY <2>7, StutterStep
    <2> QED BY <2>1, <2>2, <2>3, <2>4, <2>5, <2>6, <2>7 DEF Next, Reader, Producer, Transport
  <1> QED BY <1>1, InitInv, PTL DEF Spec

\* A body that ends without an error is complete, however the transport's reads,
\* its Close and the producer goroutine interleave (streamingReader, multipart.go:130-148).
THEOREM EOFIsCompleteHolds == Spec => []EOFIsComplete
  <1>1. IInv => EOFIsComplete
    <2> SUFFICES ASSUME IInv, writerClosed = "eof" \/ seen = "eof"
                 PROVE  AllSound /\ Whole(job, got)
      BY DEF EOFIsComplete
    <2>1. pc = "gone" /\ err = Nil
      BY DEF IInv, ModeInv
    <2> QED BY <2>1 DEF IInv, ContentInv, At, Written
  <1> QED BY <1>1, Invariance, PTL

\* Replayable keeps the whole body within its limit in bytes, and refuses a body
\* for its size only when the next write of the body goes beyond the limit
\* (limitWriter.Write, multipart.go:247-253), whatever the lengths of the writes.
THEOREM BufferedExactHolds == Spec => []BufferedExact
  <1>1. IInv => BufferedExact
    <2> SUFFICES ASSUME IInv, job.replay PROVE BufferedExact
      BY DEF BufferedExact
    <2>1. pc = "buffered" => AllSound /\ Whole(job, got)
      BY DEF IInv, ModeInv, ContentInv, At, Written
    <2> QED BY <2>1 DEF IInv, LimitInv, BufferedExact
  <1> QED BY <1>1, Invariance, PTL

\* Once the transport has closed the body the producer reads a borrowed part
\* at most once more: its next write fails and ends writeTo.
THEOREM StopsReadingPartsHolds == Spec => []StopsReadingParts
  <1>1. IInv => StopsReadingParts
    BY DEF IInv, LateInv, StopsReadingParts
  <1> QED BY <1>1, Invariance, PTL
=============================================================================
