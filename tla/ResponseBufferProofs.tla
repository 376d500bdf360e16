------------------------ MODULE ResponseBufferProofs ------------------------
(***************************************************************************)
(* Proofs about ResponseBuffer, for any number of calls and buffers and    *)
(* for bodies of any size.                                                 *)
(*                                                                         *)
(* IInv says, per call, who holds which buffer, which bytes of the body    *)
(* are where, and what the steps taken so far have ruled out about it.     *)
(***************************************************************************)
EXTENDS ResponseBuffer, TLAPS

\* A call holds a buffer of the pool from getBuffer to putBuffer, alone.
HoldInv ==
    /\ \A p \in Sends : IF pc[p] \in {"get", "done"} THEN buf[p] = p ELSE buf[p] \in Buffers
    /\ \A p, q \in Sends : buf[p] = buf[q] => p = q

\* The bytes of the body are in the buffer, then in the Response.
BytesAt(p, a) == \A i \in 1..got[p] : heap[a][i] = Byte(p, i)

ContentInv ==
    \A p \in Sends :
        /\ pc[p] \in {"get", "check"} => got[p] = 0
        /\ pc[p] \in {"read", "probe", "copy"} => BytesAt(p, buf[p])
        /\ result[p] = "ok" => body[p] = p /\ BytesAt(p, p)

\* How far reading is, against the limit and the body.
ReadInv ==
    \A p \in Sends :
        /\ taken[p] <= job[p].size
        /\ got[p] <= taken[p] /\ taken[p] <= got[p] + 1
        /\ pc[p] \in {"get", "check", "read", "probe", "copy"} => taken[p] = got[p]
        /\ Limited(p) => got[p] <= job[p].limit
        /\ pc[p] \in {"read", "probe", "copy"} =>
               ~(Limited(p) /\ job[p].declared > job[p].limit)
        /\ pc[p] \in {"read", "probe", "copy"} => job[p].breaks \notin 0..(taken[p] - 1)
        /\ pc[p] = "probe" => AtLimit(p)
        /\ pc[p] = "copy" => Exhausted(p) /\ ~Breaks(p)

\* What the answer says about the job.
ResultInv ==
    \A p \in Sends : LET j == job[p] IN
        /\ result[p] = "none" <=> pc[p] \notin {"close", "put", "done"}
        /\ result[p] = "ok" =>
               /\ j.limit > 0 => j.size <= j.limit /\ j.declared <= j.limit
               /\ j.breaks \notin 0..j.size /\ got[p] = j.size
        /\ result[p] = "limit" => j.limit > 0 /\ (j.declared > j.limit \/ j.size > j.limit)
        /\ result[p] = "readFailed" => j.breaks \in 0..j.size
        /\ closes[p] = IF pc[p] \in {"put", "done"} THEN 1 ELSE 0

IInv == TypeOK /\ HoldInv /\ ContentInv /\ ReadInv /\ ResultInv

-----------------------------------------------------------------------------
(* Every step of every call keeps the invariant.                           *)

LEMMA getBufferStep ==
  ASSUME IInv, NEW p \in Sends, NEW a \in Buffers, getBuffer(p, a)
  PROVE  IInv'
<1> USE BufferAssumption DEF IInv
<1>1. TypeOK'
  BY DEF TypeOK, getBuffer, Jobs
<1>2. HoldInv'
  BY DEF TypeOK, HoldInv, getBuffer
<1>3. ContentInv'
  <2>1. /\ pc' = [pc EXCEPT ![p] = "check"] /\ buf' = [buf EXCEPT ![p] = a] /\ pc[p] = "get"
        /\ heap' = heap /\ got' = got /\ body' = body /\ result' = result
    BY DEF getBuffer
  <2>2. ASSUME NEW q \in Sends, q # p
        PROVE  pc'[q] = pc[q] /\ buf'[q] = buf[q]
    BY <2>1, <2>2 DEF TypeOK
  <2>3. pc'[p] = "check" /\ got[p] = 0
    BY <2>1 DEF TypeOK, ContentInv
  <2>4. QED
    BY <2>1, <2>2, <2>3 DEF ContentInv, BytesAt
<1>4. ReadInv'
  BY DEF TypeOK, Jobs, ReadInv, getBuffer, Limited, AtLimit, Breaks, Exhausted
<1>5. ResultInv'
  BY DEF TypeOK, Jobs, ResultInv, ReadInv, getBuffer, Limited, AtLimit, Breaks, Exhausted
<1>6. QED
  BY <1>1, <1>2, <1>3, <1>4, <1>5

LEMMA RejectDeclaredStep ==
  ASSUME IInv, NEW p \in Sends, RejectDeclared(p)
  PROVE  IInv'
<1> USE BufferAssumption DEF IInv
<1>1. TypeOK'
  BY DEF TypeOK, RejectDeclared, Exit, Jobs
<1>2. HoldInv'
  BY DEF TypeOK, HoldInv, RejectDeclared, Exit
<1>3. ContentInv'
  BY DEF TypeOK, HoldInv, ContentInv, BytesAt, ResultInv, RejectDeclared, Exit
<1>4. ReadInv'
  BY DEF TypeOK, Jobs, ReadInv, RejectDeclared, Exit, Limited, AtLimit, Breaks, Exhausted
<1>5. ResultInv'
  BY DEF TypeOK, Jobs, ResultInv, ReadInv, RejectDeclared, Exit, Limited, AtLimit, Breaks, Exhausted
<1>6. QED
  BY <1>1, <1>2, <1>3, <1>4, <1>5

LEMMA StartReadingStep ==
  ASSUME IInv, NEW p \in Sends, StartReading(p)
  PROVE  IInv'
<1> USE BufferAssumption DEF IInv
<1>1. TypeOK'
  BY DEF TypeOK, StartReading, Jobs
<1>2. HoldInv'
  BY DEF TypeOK, HoldInv, StartReading
<1>3. ContentInv'
  BY DEF TypeOK, HoldInv, ContentInv, BytesAt, ResultInv, StartReading
<1>4. ReadInv'
  <2>1. got[p] = 0 /\ taken[p] = 0
    BY DEF StartReading, ContentInv, ReadInv
  <2>2. QED
    BY <2>1 DEF TypeOK, Jobs, ReadInv, StartReading, Limited, AtLimit, Breaks, Exhausted
<1>5. ResultInv'
  BY DEF TypeOK, Jobs, ResultInv, ReadInv, StartReading, Limited, AtLimit, Breaks, Exhausted
<1>6. QED
  BY <1>1, <1>2, <1>3, <1>4, <1>5

LEMMA ReadByteStep ==
  ASSUME IInv, NEW p \in Sends, ReadByte(p)
  PROVE  IInv'
<1> USE BufferAssumption DEF IInv
<1>0. /\ got[p] \in Nat /\ got[p] = taken[p] /\ got[p] + 1 \in 1..MaxSize
      /\ taken[p] + 1 <= job[p].size /\ job[p].size \in 0..MaxSize
      /\ job[p].limit \in Nat /\ job[p].breaks \in Int
      /\ buf[p] \in Buffers
  BY DEF ReadByte, TypeOK, Jobs, ReadInv, HoldInv, Exhausted
<1>1. TypeOK'
  <2>1. got' \in [Sends -> 0..MaxSize] /\ taken' \in [Sends -> 0..MaxSize]
    BY <1>0 DEF TypeOK, ReadByte
  <2>2. Byte(p, got[p] + 1) \in Sends \X (1..MaxSize)
    BY <1>0 DEF Byte
  <2>3. heap' \in [Buffers \cup Sends -> [1..MaxSize -> {Blank} \cup (Sends \X (1..MaxSize))]]
    BY <1>0, <2>2 DEF TypeOK, ReadByte
  <2>4. QED
    BY <2>1, <2>3 DEF TypeOK, ReadByte
<1>2. HoldInv'
  BY DEF TypeOK, HoldInv, ReadByte
<1>3. ContentInv'
  <2>1. /\ pc' = pc /\ buf' = buf /\ body' = body /\ result' = result
        /\ got'[p] = got[p] + 1 /\ \A q \in Sends \ {p} : got'[q] = got[q]
        /\ pc[p] = "read" /\ result[p] = "none"
    BY DEF ReadByte, TypeOK, ResultInv
  <2>2. \A c \in (Buffers \cup Sends) \ {buf[p]} : heap'[c] = heap[c]
    BY <1>0 DEF ReadByte, TypeOK
  <2>3. heap'[buf[p]] = [heap[buf[p]] EXCEPT ![got[p] + 1] = Byte(p, got[p] + 1)]
    BY <1>0 DEF ReadByte, TypeOK
  <2>4. heap[buf[p]] \in [1..MaxSize -> {Blank} \cup (Sends \X (1..MaxSize))]
    BY <1>0 DEF TypeOK
  <2>5. BytesAt(p, buf[p])'
    <3>1. BytesAt(p, buf[p])
      BY <2>1 DEF ContentInv
    <3>2. QED
      BY <1>0, <2>1, <2>3, <2>4, <3>1 DEF BytesAt
  <2>6. ASSUME NEW q \in Sends, q # p
        PROVE  buf[q] # buf[p] /\ buf[q] \in Buffers \cup Sends
    BY <2>6 DEF HoldInv, TypeOK
  <2>7. p # buf[p] /\ \A q \in Sends : q # buf[p]
    BY <1>0
  <2>8. ASSUME NEW q \in Sends, q # p
        PROVE  heap'[buf[q]] = heap[buf[q]] /\ heap'[q] = heap[q] /\ got'[q] = got[q]
    BY <2>1, <2>2, <2>6, <2>7, <2>8
  <2>9. QED
    BY <2>1, <2>5, <2>8 DEF ContentInv, BytesAt
<1>4. ReadInv'
  <2>1. /\ pc' = pc /\ job' = job
        /\ got'[p] = got[p] + 1 /\ taken'[p] = taken[p] + 1
        /\ \A q \in Sends \ {p} : got'[q] = got[q] /\ taken'[q] = taken[q]
        /\ pc[p] = "read" /\ ~AtLimit(p) /\ ~Breaks(p)
    BY DEF ReadByte, TypeOK
  <2>2. Limited(p) => got[p] + 1 <= job[p].limit
    BY <1>0, <2>1 DEF AtLimit, ReadInv
  <2>3. job[p].breaks \notin 0..(taken[p] + 1 - 1)
    BY <1>0, <2>1 DEF Breaks, ReadInv
  <2>4. QED
    BY <1>0, <2>1, <2>2, <2>3 DEF ReadInv, Limited, AtLimit, Breaks, Exhausted
<1>5. ResultInv'
  BY DEF TypeOK, Jobs, ResultInv, ReadInv, ReadByte, Limited, AtLimit, Breaks, Exhausted
<1>6. QED
  BY <1>1, <1>2, <1>3, <1>4, <1>5

LEMMA ReadFailsStep ==
  ASSUME IInv, NEW p \in Sends, ReadFails(p)
  PROVE  IInv'
<1> USE BufferAssumption DEF IInv
<1>1. TypeOK'
  BY DEF TypeOK, ReadFails, Exit, Jobs
<1>2. HoldInv'
  BY DEF TypeOK, HoldInv, ReadFails, Exit
<1>3. ContentInv'
  BY DEF TypeOK, HoldInv, ContentInv, BytesAt, ResultInv, ReadFails, Exit
<1>4. ReadInv'
  BY DEF TypeOK, Jobs, ReadInv, ReadFails, Exit, Limited, AtLimit, Breaks, Exhausted
<1>5. ResultInv'
  BY DEF TypeOK, Jobs, ResultInv, ReadInv, ReadFails, Exit, Limited, AtLimit, Breaks, Exhausted
<1>6. QED
  BY <1>1, <1>2, <1>3, <1>4, <1>5

LEMMA ReadEndsStep ==
  ASSUME IInv, NEW p \in Sends, ReadEnds(p)
  PROVE  IInv'
<1> USE BufferAssumption DEF IInv
<1>1. TypeOK'
  BY DEF TypeOK, ReadEnds, Jobs
<1>2. HoldInv'
  BY DEF TypeOK, HoldInv, ReadEnds
<1>3. ContentInv'
  BY DEF TypeOK, HoldInv, ContentInv, BytesAt, ResultInv, ReadEnds
<1>4. ReadInv'
  BY DEF TypeOK, Jobs, ReadInv, ReadEnds, Limited, AtLimit, Breaks, Exhausted
<1>5. ResultInv'
  BY DEF TypeOK, Jobs, ResultInv, ReadInv, ReadEnds, Limited, AtLimit, Breaks, Exhausted
<1>6. QED
  BY <1>1, <1>2, <1>3, <1>4, <1>5

LEMMA ProbeStep ==
  ASSUME IInv, NEW p \in Sends, Probe(p)
  PROVE  IInv'
<1> USE BufferAssumption DEF IInv
<1>1. TypeOK'
  <2>1. taken' \in [Sends -> 0..MaxSize]
    <3>1. /\ taken \in [Sends -> 0..MaxSize] /\ taken[p] <= job[p].size
          /\ job[p].size \in 0..MaxSize
      BY DEF TypeOK, Jobs, ReadInv
    <3>2. CASE taken' = taken
      BY <3>1, <3>2
    <3>3. CASE ~Exhausted(p) /\ taken' = [taken EXCEPT ![p] = @ + 1]
      <4>1. taken[p] + 1 \in 0..MaxSize
        BY <3>1, <3>3 DEF Exhausted
      <4>2. QED
        BY <3>1, <3>3, <4>1
    <3>4. QED
      BY <3>2, <3>3 DEF Probe
  <2>2. pc' \in [Sends -> {"get", "check", "read", "probe", "copy", "close", "put", "done"}]
    BY DEF TypeOK, Probe, Exit
  <2>3. result' \in [Sends -> {"none", "ok", "limit", "readFailed"}]
    BY DEF TypeOK, Probe, Exit
  <2>4. QED
    BY <2>1, <2>2, <2>3 DEF TypeOK, Probe
<1>2. HoldInv'
  BY DEF TypeOK, HoldInv, Probe, Exit
<1>3. ContentInv'
  BY DEF TypeOK, HoldInv, ContentInv, BytesAt, ResultInv, Probe, Exit
<1>4. ReadInv'
  BY DEF TypeOK, Jobs, ReadInv, Probe, Exit, Limited, AtLimit, Breaks, Exhausted
<1>5. ResultInv'
  BY DEF TypeOK, Jobs, ResultInv, ReadInv, Probe, Exit, Limited, AtLimit, Breaks, Exhausted
<1>6. QED
  BY <1>1, <1>2, <1>3, <1>4, <1>5

LEMMA CopyOutStep ==
  ASSUME IInv, NEW p \in Sends, CopyOut(p)
  PROVE  IInv'
<1> USE BufferAssumption DEF IInv
<1>1. TypeOK'
  BY DEF TypeOK, CopyOut, Exit, Jobs
<1>2. HoldInv'
  BY DEF TypeOK, HoldInv, CopyOut, Exit
<1>3. ContentInv'
  BY DEF TypeOK, HoldInv, ContentInv, BytesAt, ResultInv, CopyOut, Exit
<1>4. ReadInv'
  BY DEF TypeOK, Jobs, ReadInv, CopyOut, Exit, Limited, AtLimit, Breaks, Exhausted
<1>5. ResultInv'
  BY DEF TypeOK, Jobs, ResultInv, ReadInv, CopyOut, Exit, Limited, AtLimit, Breaks, Exhausted
<1>6. QED
  BY <1>1, <1>2, <1>3, <1>4, <1>5

LEMMA CloseBodyStep ==
  ASSUME IInv, NEW p \in Sends, CloseBody(p)
  PROVE  IInv'
<1> USE BufferAssumption DEF IInv
<1>1. TypeOK'
  <2>1. closes[p] = 0
    BY DEF CloseBody, ResultInv
  <2>2. closes' \in [Sends -> 0..1]
    BY <2>1 DEF CloseBody, TypeOK
  <2>3. QED
    BY <2>2 DEF TypeOK, CloseBody
<1>2. HoldInv'
  BY DEF TypeOK, HoldInv, CloseBody
<1>3. ContentInv'
  BY DEF TypeOK, HoldInv, ContentInv, BytesAt, ResultInv, CloseBody
<1>4. ReadInv'
  BY DEF TypeOK, Jobs, ReadInv, CloseBody, Limited, AtLimit, Breaks, Exhausted
<1>5. ResultInv'
  BY DEF TypeOK, Jobs, ResultInv, ReadInv, CloseBody, Limited, AtLimit, Breaks, Exhausted
<1>6. QED
  BY <1>1, <1>2, <1>3, <1>4, <1>5

LEMMA putBufferStep ==
  ASSUME IInv, NEW p \in Sends, putBuffer(p)
  PROVE  IInv'
<1> USE BufferAssumption DEF IInv
<1>1. TypeOK'
  BY DEF TypeOK, putBuffer, Jobs
<1>2. HoldInv'
  BY DEF TypeOK, HoldInv, putBuffer
<1>3. ContentInv'
  BY DEF TypeOK, HoldInv, ContentInv, BytesAt, ResultInv, putBuffer
<1>4. ReadInv'
  BY DEF TypeOK, Jobs, ReadInv, putBuffer, Limited, AtLimit, Breaks, Exhausted
<1>5. ResultInv'
  BY DEF TypeOK, Jobs, ResultInv, ReadInv, putBuffer, Limited, AtLimit, Breaks, Exhausted
<1>6. QED
  BY <1>1, <1>2, <1>3, <1>4, <1>5

-----------------------------------------------------------------------------
LEMMA InitIInv == Init => IInv
<1> SUFFICES ASSUME Init PROVE IInv
  OBVIOUS
<1> USE BufferAssumption DEF Init
<1>1. TypeOK
  BY DEF TypeOK
<1>2. HoldInv /\ ContentInv
  BY DEF HoldInv, ContentInv, BytesAt
<1>3. ReadInv
  <2>1. ASSUME NEW p \in Sends
        PROVE  job[p].limit \in Nat /\ job[p].size \in Nat
    <3>1. job[p] \in Jobs
      OBVIOUS
    <3>2. QED
      BY <3>1 DEF Jobs
  <2>2. \A p \in Sends : taken[p] = 0 /\ got[p] = 0 /\ pc[p] = "get"
    OBVIOUS
  <2>3. ASSUME NEW p \in Sends
        PROVE  /\ taken[p] <= job[p].size /\ got[p] <= taken[p] /\ taken[p] <= got[p] + 1
               /\ Limited(p) => got[p] <= job[p].limit
    BY <2>1, <2>2 DEF Limited
  <2>4. QED
    BY <2>2, <2>3 DEF ReadInv
<1>4. ResultInv
  BY DEF ResultInv
<1>5. QED
  BY <1>1, <1>2, <1>3, <1>4 DEF IInv

LEMMA NextIInv == IInv /\ [Next]_vars => IInv'
<1> SUFFICES ASSUME IInv, [Next]_vars PROVE IInv'
  OBVIOUS
<1>1. ASSUME NEW p \in Sends, Step(p) PROVE IInv'
  BY <1>1, getBufferStep, RejectDeclaredStep, StartReadingStep, ReadByteStep, ReadFailsStep,
     ReadEndsStep, ProbeStep, CopyOutStep, CloseBodyStep, putBufferStep DEF Step
<1>2. CASE UNCHANGED vars
  BY <1>2 DEF vars, IInv, TypeOK, HoldInv, ContentInv, BytesAt, ReadInv, ResultInv,
              Limited, AtLimit, Breaks, Exhausted
<1>3. QED
  BY <1>1, <1>2 DEF Next

THEOREM Invariance == Spec => []IInv
BY InitIInv, NextIInv, PTL DEF Spec

-----------------------------------------------------------------------------
(* What the invariant gives.                                               *)

\* A Response shows its own, complete body for ever, however many calls share
\* the pool, because the copy is made while the buffer is still held.
THEOREM ResponseIsolatedHolds == Spec => []ResponseIsolated
<1>1. IInv => ResponseIsolated
  BY DEF IInv, ResponseIsolated, ContentInv, BytesAt, ResultInv
<1>2. QED
  BY <1>1, Invariance, PTL

\* At most one byte beyond the limit is taken from the transport.
THEOREM ReadsWithinLimitHolds == Spec => []ReadsWithinLimit
<1>1. IInv => ReadsWithinLimit
  BY DEF IInv, TypeOK, Jobs, ReadsWithinLimit, ReadInv, Limited
<1>2. QED
  BY <1>1, Invariance, PTL

\* bufferBody answers what the limit and the body call for, at every boundary.
THEOREM OutcomeExactHolds == Spec => []OutcomeExact
<1>1. IInv => OutcomeExact
  BY DEF IInv, TypeOK, Jobs, OutcomeExact, ResultInv
<1>2. QED
  BY <1>1, Invariance, PTL

\* Body closed once, buffer returned, and never held by two calls.
THEOREM ResourcesReturnedHolds == Spec => []ResourcesReturned
<1>1. IInv => ResourcesReturned
  BY DEF IInv, ResourcesReturned, ResultInv, HoldInv
<1>2. QED
  BY <1>1, Invariance, PTL
=============================================================================
