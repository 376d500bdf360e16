--------------------------- MODULE ResponseBuffer ---------------------------
(***************************************************************************)
(* Buffering of response bodies: newResponse and Response.bufferBody       *)
(* (response.go) over the shared pool of byte buffers (pool.go). Several   *)
(* Send calls buffer at once; memory is a heap of pooled buffers and of    *)
(* the bytes each Response owns, so that sharing shows.                    *)
(***************************************************************************)
EXTENDS Integers

CONSTANTS
    Sends,    \* concurrent Send calls
    Buffers,  \* buffers the pool can hand out
    MaxSize   \* bound: bytes in a body, and the largest limit

ASSUME BufferAssumption ==
    /\ MaxSize \in Nat \ {0}
    /\ Sends \cap Buffers = {}

VARIABLES
    job,     \* per send: size of the body, its limit, declared Content-Length,
             \* and after how many bytes a Read fails (-1: never)
    pc,      \* where bufferBody is
    buf,     \* the buffer in hand, or the send itself when it has none
    heap,    \* contents of every buffer, and of every Response (by its send)
    got,     \* bytes in the buffer
    taken,   \* bytes read from the transport's body
    body,    \* where Response.body points, or "none"
    result,  \* "none", "ok", "limit" or "readFailed"
    closes   \* Close calls on the transport's body

vars == <<job, pc, buf, heap, got, taken, body, result, closes>>

Blank == <<>>
Byte(p, i) == <<p, i>>

Jobs == [size: 0..MaxSize, limit: 0..MaxSize, declared: -1..MaxSize, breaks: -1..MaxSize]

Init ==
    /\ job \in [Sends -> Jobs]
    /\ pc = [p \in Sends |-> "get"]
    /\ buf = [p \in Sends |-> p]
    /\ heap = [a \in Buffers \cup Sends |-> [i \in 1..MaxSize |-> Blank]]
    /\ got = [p \in Sends |-> 0]
    /\ taken = [p \in Sends |-> 0]
    /\ body = [p \in Sends |-> "none"]
    /\ result = [p \in Sends |-> "none"]
    /\ closes = [p \in Sends |-> 0]

Limited(p) == job[p].limit > 0
AtLimit(p) == Limited(p) /\ got[p] = job[p].limit
Breaks(p) == job[p].breaks = taken[p]
Exhausted(p) == taken[p] = job[p].size

Exit(p, r) ==
    /\ pc' = [pc EXCEPT ![p] = "close"]
    /\ result' = [result EXCEPT ![p] = r]

\* getBuffer: an empty buffer nobody else holds, used before or not.
getBuffer(p, a) ==
    /\ pc[p] = "get"
    /\ \A q \in Sends : buf[q] # a
    /\ buf' = [buf EXCEPT ![p] = a]
    /\ pc' = [pc EXCEPT ![p] = "check"]
    /\ UNCHANGED <<job, heap, got, taken, body, result, closes>>

RejectDeclared_NoClose(p) ==
    /\ pc[p] = "check" /\ Limited(p) /\ job[p].declared > job[p].limit
    /\ pc' = [pc EXCEPT ![p] = "put"]
    /\ result' = [result EXCEPT ![p] = "limit"]
    /\ UNCHANGED <<job, buf, heap, got, taken, body, closes>>

\* Content-Length above the limit.
RejectDeclared(p) ==
    /\ pc[p] = "check" /\ Limited(p) /\ job[p].declared > job[p].limit
    /\ Exit(p, "limit")
    /\ UNCHANGED <<job, buf, heap, got, taken, body, closes>>

StartReading(p) ==
    /\ pc[p] = "check" /\ ~(Limited(p) /\ job[p].declared > job[p].limit)
    /\ pc' = [pc EXCEPT ![p] = "read"]
    /\ UNCHANGED <<job, buf, heap, got, taken, body, result, closes>>

\* buf.ReadFrom without io.LimitReader around the body.
ReadByte_Unlimited(p) ==
    /\ pc[p] = "read" /\ ~Breaks(p) /\ ~Exhausted(p)
    /\ taken' = [taken EXCEPT ![p] = @ + 1]
    /\ got' = [got EXCEPT ![p] = @ + 1]
    /\ heap' = [heap EXCEPT ![buf[p]][got[p] + 1] = Byte(p, got[p] + 1)]
    /\ UNCHANGED <<job, pc, buf, body, result, closes>>

\* buf.ReadFrom, through io.LimitReader when there is a limit.
ReadByte(p) ==
    /\ pc[p] = "read" /\ ~AtLimit(p) /\ ~Breaks(p) /\ ~Exhausted(p)
    /\ taken' = [taken EXCEPT ![p] = @ + 1]
    /\ got' = [got EXCEPT ![p] = @ + 1]
    /\ heap' = [heap EXCEPT ![buf[p]][got[p] + 1] = Byte(p, got[p] + 1)]
    /\ UNCHANGED <<job, pc, buf, body, result, closes>>

ReadFails(p) ==
    /\ pc[p] = "read" /\ ~AtLimit(p) /\ Breaks(p)
    /\ Exit(p, "readFailed")
    /\ UNCHANGED <<job, buf, heap, got, taken, body, closes>>

ReadEnds_NoProbe(p) ==
    /\ pc[p] = "read"
    /\ AtLimit(p) \/ (Exhausted(p) /\ ~Breaks(p))
    /\ pc' = [pc EXCEPT ![p] = "copy"]
    /\ UNCHANGED <<job, buf, heap, got, taken, body, result, closes>>

\* The limit reader, or the body, is at its end; at the limit a byte more is
\* tried.
ReadEnds(p) ==
    /\ pc[p] = "read"
    /\ AtLimit(p) \/ (Exhausted(p) /\ ~Breaks(p))
    /\ pc' = [pc EXCEPT ![p] = IF AtLimit(p) THEN "probe" ELSE "copy"]
    /\ UNCHANGED <<job, buf, heap, got, taken, body, result, closes>>

\* io.CopyN(io.Discard, body, 1): a byte proves the body too large, an error
\* other than EOF fails, EOF leaves a body of exactly the limit.
Probe(p) ==
    /\ pc[p] = "probe"
    /\ \/ Breaks(p) /\ Exit(p, "readFailed") /\ UNCHANGED taken
       \/ /\ ~Breaks(p) /\ ~Exhausted(p)
          /\ taken' = [taken EXCEPT ![p] = @ + 1]
          /\ Exit(p, "limit")
       \/ /\ ~Breaks(p) /\ Exhausted(p)
          /\ pc' = [pc EXCEPT ![p] = "copy"]
          /\ UNCHANGED <<taken, result>>
    /\ UNCHANGED <<job, buf, heap, got, body, closes>>

\* r.body = buf.B: the Response and the pool share the buffer.
CopyOut_Shared(p) ==
    /\ pc[p] = "copy"
    /\ body' = [body EXCEPT ![p] = buf[p]]
    /\ Exit(p, "ok")
    /\ UNCHANGED <<job, buf, heap, got, taken, closes>>

\* r.body = bytes.Clone(buf.B)
CopyOut(p) ==
    /\ pc[p] = "copy"
    /\ heap' = [heap EXCEPT ![p] = heap[buf[p]]]
    /\ body' = [body EXCEPT ![p] = p]
    /\ Exit(p, "ok")
    /\ UNCHANGED <<job, buf, got, taken, closes>>

\* The deferred calls, last one first: Body.Close, putBuffer.
CloseBody(p) ==
    /\ pc[p] = "close"
    /\ closes' = [closes EXCEPT ![p] = @ + 1]
    /\ pc' = [pc EXCEPT ![p] = "put"]
    /\ UNCHANGED <<job, buf, heap, got, taken, body, result>>

putBuffer(p) ==
    /\ pc[p] = "put"
    /\ buf' = [buf EXCEPT ![p] = p]
    /\ pc' = [pc EXCEPT ![p] = "done"]
    /\ UNCHANGED <<job, heap, got, taken, body, result, closes>>

Step(p) ==
    \/ \E a \in Buffers : getBuffer(p, a)
    \/ RejectDeclared(p) \/ StartReading(p)
    \/ ReadByte(p) \/ ReadFails(p) \/ ReadEnds(p)
    \/ Probe(p) \/ CopyOut(p)
    \/ CloseBody(p) \/ putBuffer(p)

Next == \E p \in Sends : Step(p)

Spec == Init /\ [][Next]_vars

-----------------------------------------------------------------------------
(* Properties.                                                             *)

\* Type invariant; the transport's body is closed at most once.
TypeOK ==
    /\ job \in [Sends -> Jobs]
    /\ pc \in [Sends -> {"get", "check", "read", "probe", "copy", "close", "put", "done"}]
    /\ buf \in [Sends -> Buffers \cup Sends]
    /\ heap \in [Buffers \cup Sends -> [1..MaxSize -> {Blank} \cup (Sends \X (1..MaxSize))]]
    /\ got \in [Sends -> 0..MaxSize] /\ taken \in [Sends -> 0..MaxSize]
    /\ body \in [Sends -> Buffers \cup Sends \cup {"none"}]
    /\ result \in [Sends -> {"none", "ok", "limit", "readFailed"}]
    /\ closes \in [Sends -> 0..1]

\* A Response shows the complete body of its own call, and keeps showing it
\* while other calls take the same pooled buffer and fill it (the data race
\* the comment in bufferBody is about).
ResponseIsolated ==
    \A p \in Sends : result[p] = "ok" =>
        /\ got[p] = job[p].size
        /\ \A i \in 1..got[p] : heap[body[p]][i] = Byte(p, i)

\* With a limit a call takes at most one byte more than the limit from the
\* transport, whatever Content-Length said.
ReadsWithinLimit ==
    \A p \in Sends : job[p].limit > 0 => taken[p] <= job[p].limit + 1

\* What bufferBody answers, stated without its order of steps: success exactly
\* for a body within the limit that reads to its end, and the limit error only
\* for a body that is, or was declared, larger.
OutcomeExact ==
    \A p \in Sends : LET j == job[p] IN pc[p] = "done" =>
        /\ result[p] = "ok" <=>
               /\ j.limit > 0 => j.size <= j.limit /\ j.declared <= j.limit
               /\ j.breaks \notin 0..j.size
        /\ result[p] = "limit" => j.limit > 0 /\ (j.declared > j.limit \/ j.size > j.limit)
        /\ result[p] # "none"

\* On every way out the body was closed once, and a buffer belongs to one call
\* at a time.
ResourcesReturned ==
    \A p \in Sends :
        /\ pc[p] = "done" => closes[p] = 1 /\ buf[p] = p
        /\ \A q \in Sends : buf[p] = buf[q] => p = q
=============================================================================
