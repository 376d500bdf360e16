---------------------------- MODULE MultipartBody ----------------------------
(***************************************************************************)
(* Materialization of a Multipart body (multipart.go): the streaming       *)
(* reader, whose producer goroutine writes into an io.Pipe that the        *)
(* transport reads, and the buffered reader of Replayable(maxBytes).       *)
(* A body is a sequence of writes: mime/multipart writes the header of a   *)
(* form field, its value, the header of a part, and the closing boundary,  *)
(* each at once, and io.Copy a part chunk by chunk. A write has a length   *)
(* in bytes, which the limit of Replayable is compared with.               *)
(***************************************************************************)
EXTENDS Integers, Sequences

CONSTANTS
    MaxFields, \* bound: form fields
    NumParts,  \* file parts of the body
    MaxChunks, \* bound: chunks a part's reader yields
    MaxLimit,  \* bound: replayMaxBytes
    Bodies,    \* names, values and contents that differ in their lengths
    Length     \* body, write -> len(p), the bytes of the write

\* Writes. The header of a field comes before its value, that of a part before
\* its first chunk. Quiet stands for none.
Items ==
    [kind: {"field", "value", "header", "chunk", "trailer", "none"},
     part: 0..NumParts, n: 0..(MaxFields + MaxChunks)]
Item(kind, i, n) == [kind |-> kind, part |-> i, n |-> n]
FieldItem(f) == Item("field", 0, f)
ValueItem(f) == Item("value", 0, f)
HeaderItem(i) == Item("header", i, 0)
ChunkItem(i, c) == Item("chunk", i, c)
Trailer == Item("trailer", 0, 0)
Quiet == Item("none", 0, 0)

ASSUME MultipartAssumption ==
    /\ MaxFields \in Nat /\ NumParts \in Nat /\ MaxLimit \in Nat
    /\ MaxChunks \in Nat \ {0}
    /\ Length \in [Bodies -> [Items -> Nat]]

VARIABLES
    job,          \* the Multipart: replay, limit, boundaryOK, fields, parts, body
    pc,           \* where reader(), then writeTo, is
    field, part, chunk, \* fields written, parts written, chunks of the next part
    pending,      \* the write that waits in the pipe
    after,        \* where the producer goes on when it is read
    err,          \* the error of writeTo and Close
    readerClosed, \* the transport has closed the body
    writerClosed, \* writer.CloseWithError: "no", "eof" (nil) or "err"
    got,          \* what the transport, or the buffer, has received
    wrote,        \* limitWriter.wrote: the bytes in the buffer
    seen,         \* what the transport's Read reported at the end
    late          \* reads of a part's body after the transport closed

jobVars == <<job>>
cursor == <<field, part, chunk>>
pipe == <<readerClosed, writerClosed, seen>>
vars == <<jobVars, pc, cursor, pending, after, err, pipe, got, wrote, late>>

Nil == "nil"

\* A part's metadata is refused, its reader fails midway, or it is sound.
Parts == [kind: {"sound", "invalid", "breaks"}, chunks: 0..MaxChunks]

Jobs == [replay: BOOLEAN, limit: -1..MaxLimit, boundaryOK: BOOLEAN,
         fields: 0..MaxFields, parts: [1..NumParts -> Parts], body: Bodies]

Init ==
    /\ job \in Jobs
    /\ job.replay \/ job.limit = 0
    /\ pc = "reader"
    /\ field = 0 /\ part = 0 /\ chunk = 0
    /\ pending = Quiet /\ after = "none" /\ err = Nil
    /\ readerClosed = FALSE /\ writerClosed = "no" /\ seen = "reading"
    /\ got = <<>> /\ wrote = 0 /\ late = 0

-----------------------------------------------------------------------------
(* reader(): streamingReader or bufferedReader.                            *)

\* A negative replay limit, or a boundary that is not valid: refused before the
\* delivery, by validateDeliveryPreflightFacts, and again by reader() itself.
Rejects ==
    /\ pc = "reader"
    /\ ~job.boundaryOK \/ (job.replay /\ job.limit < 0)
    /\ pc' = "rejected" /\ err' = "invalid"
    /\ UNCHANGED <<jobVars, cursor, pending, after, pipe, got, wrote, late>>

Starts ==
    /\ pc = "reader"
    /\ job.boundaryOK /\ (job.replay => job.limit >= 0)
    /\ pc' = "writeTo"
    /\ UNCHANGED <<jobVars, cursor, pending, after, err, pipe, got, wrote, late>>

-----------------------------------------------------------------------------
(* One write, into the pipe or through the limitWriter.                    *)

\* The bytes of a write.
LengthOf(j, w) == Length[j.body][w]

\* limitWriter.Write: nothing of a write that would exceed max is kept.
LimitReached_IgnoresLength(w) == wrote >= job.limit
LimitReached(w) == job.limit >= 0 /\ wrote + LengthOf(job, w) > job.limit

\* The pipe keeps the producer waiting; the buffer takes the write or fails.
Write(item, next) ==
    \/ /\ ~job.replay
       /\ pending' = item /\ after' = next /\ pc' = "blocked"
       /\ UNCHANGED <<got, wrote, err>>
    \/ /\ job.replay /\ ~LimitReached(item)
       /\ got' = Append(got, item) /\ wrote' = wrote + LengthOf(job, item)
       /\ pc' = next
       /\ UNCHANGED <<pending, after, err>>
    \/ /\ job.replay /\ LimitReached(item)
       /\ err' = "limit" /\ pc' = "rejected"
       /\ UNCHANGED <<pending, after, got, wrote>>

-----------------------------------------------------------------------------
(* writeTo: the fields, then the parts in their order.                     *)

\* writer.WriteField: the header of the next field, then its value.
WriteField ==
    /\ pc = "writeTo" /\ field < job.fields
    /\ Write(FieldItem(field + 1), "value")
    /\ UNCHANGED <<jobVars, cursor, pipe, late>>

WriteValue ==
    /\ pc = "value"
    /\ field' = field + 1
    /\ Write(ValueItem(field + 1), "writeTo")
    /\ UNCHANGED <<jobVars, part, chunk, pipe, late>>

NextPart == part + 1

\* writeFilePart and createFilePart for a part whose metadata is sound.
WriteHeader ==
    /\ pc = "writeTo" /\ field = job.fields /\ part < NumParts
    /\ job.parts[NextPart].kind # "invalid"
    /\ Write(HeaderItem(NextPart), "copy")
    /\ UNCHANGED <<jobVars, cursor, pipe, late>>

\* writeTo is over: the producer still closes the multipart writer, while
\* bufferedReader returns the error at once.
Fail(e) ==
    /\ err' = e
    /\ pc' = IF job.replay THEN "rejected" ELSE "close"

RefusePart ==
    /\ pc = "writeTo" /\ field = job.fields /\ part < NumParts
    /\ job.parts[NextPart].kind = "invalid"
    /\ Fail("invalid")
    /\ UNCHANGED <<jobVars, cursor, pending, after, pipe, got, wrote, late>>

\* io.Copy: a read of the borrowed body, then a write.
CopyChunk ==
    /\ pc = "copy" /\ chunk < job.parts[NextPart].chunks
    /\ chunk' = chunk + 1
    /\ late' = IF readerClosed THEN late + 1 ELSE late
    /\ Write(ChunkItem(NextPart, chunk + 1), "copy")
    /\ UNCHANGED <<jobVars, field, part, pipe>>

PartBreaks ==
    /\ pc = "copy" /\ chunk = job.parts[NextPart].chunks
    /\ job.parts[NextPart].kind = "breaks"
    /\ Fail("read")
    /\ UNCHANGED <<jobVars, cursor, pending, after, pipe, got, wrote, late>>

PartEnds ==
    /\ pc = "copy" /\ chunk = job.parts[NextPart].chunks
    /\ job.parts[NextPart].kind = "sound"
    /\ part' = NextPart /\ chunk' = 0
    /\ pc' = "writeTo"
    /\ UNCHANGED <<jobVars, field, pending, after, err, pipe, got, wrote, late>>

AllWritten ==
    /\ pc = "writeTo" /\ field = job.fields /\ part = NumParts
    /\ pc' = "close"
    /\ UNCHANGED <<jobVars, cursor, pending, after, err, pipe, got, wrote, late>>

\* multipartWriter.Close writes the closing boundary, after a failed part too.
WriteTrailer ==
    /\ pc = "close"
    /\ Write(Trailer, IF job.replay THEN "buffered" ELSE "closePipe")
    /\ UNCHANGED <<jobVars, cursor, pipe, late>>

\* if closeErr := multipartWriter.Close(); closeErr is taken for the result.
ClosePipe_CloseErrOnly ==
    /\ pc = "closePipe"
    /\ writerClosed' = IF err \in {"invalid", "read"} THEN "eof" ELSE IF err = Nil THEN "eof" ELSE "err"
    /\ pc' = "gone"
    /\ UNCHANGED <<jobVars, cursor, pending, after, err, readerClosed, seen, got, wrote, late>>

ClosePipe_Forgotten ==
    /\ pc = "closePipe"
    /\ pc' = "gone"
    /\ UNCHANGED <<jobVars, cursor, pending, after, err, pipe, got, wrote, late>>

\* writer.CloseWithError(err): the first error, nil for a complete body.
ClosePipe ==
    /\ pc = "closePipe"
    /\ writerClosed' = IF err = Nil THEN "eof" ELSE "err"
    /\ pc' = "gone"
    /\ UNCHANGED <<jobVars, cursor, pending, after, err, readerClosed, seen, got, wrote, late>>

-----------------------------------------------------------------------------
(* The pipe and the transport at its other end.                            *)

\* A write error does not end writeTo.
WriteFails_GoesOn ==
    /\ pc = "blocked" /\ readerClosed
    /\ pending' = Quiet
    /\ err' = IF err = Nil THEN "write" ELSE err
    /\ pc' = after
    /\ UNCHANGED <<jobVars, cursor, after, pipe, got, wrote, late>>

\* io.ErrClosedPipe ends writeTo, or Close, with an error; the first is kept.
WriteFails ==
    /\ pc = "blocked" /\ readerClosed
    /\ pending' = Quiet
    /\ err' = IF err = Nil THEN "write" ELSE err
    /\ pc' = IF after = "closePipe" THEN "closePipe" ELSE "close"
    /\ UNCHANGED <<jobVars, cursor, after, pipe, got, wrote, late>>

TransportReads ==
    /\ pc = "blocked" /\ ~readerClosed
    /\ got' = Append(got, pending)
    /\ pending' = Quiet
    /\ pc' = after
    /\ UNCHANGED <<jobVars, cursor, after, err, pipe, wrote, late>>

TransportReadsEnd ==
    /\ ~readerClosed /\ seen = "reading"
    /\ writerClosed # "no"
    /\ seen' = writerClosed
    /\ UNCHANGED <<jobVars, pc, cursor, pending, after, err, readerClosed, writerClosed, got, wrote, late>>

\* At any time: an early answer, a failed attempt, a canceled context.
TransportCloses ==
    /\ ~job.replay /\ pc \notin {"reader", "rejected"} /\ ~readerClosed
    /\ readerClosed' = TRUE
    /\ UNCHANGED <<jobVars, pc, cursor, pending, after, err, writerClosed, seen, got, wrote, late>>

-----------------------------------------------------------------------------
Reader == Rejects \/ Starts

Producer ==
    \/ WriteField \/ WriteValue \/ WriteHeader \/ RefusePart
    \/ CopyChunk \/ PartBreaks \/ PartEnds \/ AllWritten
    \/ WriteTrailer \/ ClosePipe \/ WriteFails

Transport == TransportReads \/ TransportReadsEnd

Next == Reader \/ Producer \/ Transport \/ TransportCloses

Spec == Init /\ [][Next]_vars

\* The goroutines run, and the transport reads on unless it has closed the
\* body. A part's reader is assumed to return from Read: nothing interrupts it.
FairSpec == Spec /\ WF_vars(Reader) /\ WF_vars(Producer) /\ WF_vars(Transport)

-----------------------------------------------------------------------------
(* Properties.                                                             *)

\* Type invariant; a write is in the pipe exactly while the producer waits.
TypeOK ==
    /\ job \in Jobs
    /\ pc \in {"reader", "rejected", "writeTo", "value", "copy", "blocked", "close",
               "closePipe", "buffered", "gone"}
    /\ field \in 0..MaxFields /\ part \in 0..NumParts /\ chunk \in 0..MaxChunks
    /\ after \in {"none", "writeTo", "value", "copy", "closePipe"}
    /\ (pending # Quiet) = (pc = "blocked")
    /\ err \in {Nil, "invalid", "limit", "read", "write"}
    /\ readerClosed \in BOOLEAN
    /\ writerClosed \in {"no", "eof", "err"} /\ seen \in {"reading", "eof", "err"}

\* What a complete body of job j begins with, and what follows a write in it.
PartOrEnd(i) == IF i <= NumParts THEN HeaderItem(i) ELSE Trailer
FieldOrPart(j, f) == IF f <= j.fields THEN FieldItem(f) ELSE PartOrEnd(1)
Following(j, w) ==
    IF w.kind = "field" THEN ValueItem(w.n)
    ELSE IF w.kind = "value" THEN FieldOrPart(j, w.n + 1)
    ELSE IF w.n < j.parts[w.part].chunks THEN ChunkItem(w.part, w.n + 1)
    ELSE PartOrEnd(w.part + 1)

\* Sequence s is the beginning of a complete body: every field, then every part
\* with its chunks, nothing left out or repeated. It is the whole body when it
\* ends with the closing boundary.
InOrder(j, s) ==
    /\ s # <<>> => s[1] = FieldOrPart(j, 1)
    /\ \A k \in 1..(Len(s) - 1) : s[k] # Trailer /\ s[k + 1] = Following(j, s[k])
Whole(j, s) == s # <<>> /\ InOrder(j, s) /\ s[Len(s)] = Trailer
Unfinished(j, s) == InOrder(j, s) /\ (s # <<>> => s[Len(s)] # Trailer)

\* The write that a body goes on with after s, and the bytes of s.
NextWrite(j, s) == IF s = <<>> THEN FieldOrPart(j, 1) ELSE Following(j, s[Len(s)])
Bytes(j, s) ==
    LET upTo[k \in 0..Len(s)] == IF k = 0 THEN 0 ELSE upTo[k - 1] + LengthOf(j, s[k])
    IN upTo[Len(s)]

AllSound == \A i \in 1..NumParts : job.parts[i].kind = "sound"

\* The transport sees the end of the body only when every field and every part
\* has been written in full: a part that is refused, a part whose reader fails
\* or a failed write reaches it as an error, although the producer still
\* writes the closing boundary.
EOFIsComplete ==
    (writerClosed = "eof" \/ seen = "eof") => AllSound /\ Whole(job, got)

\* Replayable(maxBytes) keeps the complete body and never more than maxBytes
\* bytes of it, and refuses for its size only a body that does not fit: what it
\* has kept is the beginning of the body, and the next write goes beyond.
BufferedExact ==
    job.replay =>
        /\ job.limit >= 0 => Bytes(job, got) <= job.limit
        /\ pc = "buffered" => AllSound /\ Whole(job, got)
        /\ err = "limit" =>
              /\ Unfinished(job, got)
              /\ Bytes(job, got) + LengthOf(job, NextWrite(job, got)) > job.limit

\* When the transport has closed the body the producer reads at most once more
\* from the parts it has borrowed.
StopsReadingParts == late <= 1

\* Nobody waits for ever: the producer goroutine ends, and a transport that
\* reads on is told the end of the body.
BothEnd ==
    /\ <>(pc \in {"rejected", "buffered", "gone"})
    /\ (pc = "gone") ~> (seen # "reading" \/ readerClosed)
=============================================================================
