-------------------------- MODULE MCRequestBuilder --------------------------
(***************************************************************************)
(* Small inputs for RequestBuilder and RequestProjection: one ordinary     *)
(* header beside the special ones, one cookie name on both sides and one   *)
(* of the client alone, ordered objects with two spellings, an empty value *)
(* list and a pseudo-header, and body plans of every setter.               *)
(***************************************************************************)
EXTENDS RequestTarget

Lower(name) == [name |-> name, lower |-> TRUE]

ByName(x, ct, auth, proxy, cookie) ==
    [n \in HeaderNames |-> CASE n = "X" -> x [] n = "Content-Type" -> ct [] n = "Authorization" -> auth
                         [] n = "Proxy-Authorization" -> proxy [] OTHER -> cookie]

MCClientTexts == ByName({<<"xc">>}, {<<"c/c">>}, {<<"ac">>}, {}, {<<"k=ch", "l=ch">>})
MCRequestTexts == ByName({<<"x">>}, {<<"r/r">>, <<>>}, {<<"a">>}, {}, {<<"k=h">>})
MCClientHeaders ==
    {[n \in HeaderNames |-> IF n = "X" THEN <<<<"x1">>, <<"x2">>>>
                        ELSE IF n = "Cookie" THEN <<<<"k=ch">>>> ELSE <<>>]}

MCClientObjects ==
    {Object(<<Entry(Key(":p"), <<<<"pc">>>>), Entry(Lower("X"), <<<<"xo">>>>),
              Entry(Key("Content-Type"), <<<<"o/o">>>>)>>)}
MCRequestObjects ==
    {Object(<<Entry(Key("X"), <<<<"y1">>>>), Entry(Key(":p"), <<<<"p">>>>),
              Entry(Lower("X"), <<<<"y2">>>>), Entry(Lower("Cookie"), <<<<"k=o">>>>)>>),
     Object(<<Entry(Lower("Authorization"), <<<<"ao">>>>), Entry(Key("Content-Type"), <<>>)>>)}

MCClientCookies == {"k=c", "l=c"}
MCRequestCookies == {"k=r", "m=r"}
MCCookieName ==
    [c \in {"k=c", "k=r", "k=h", "k=ch", "k=o"} |-> "k"]
        @@ [c \in {"l=c", "l=ch"} |-> "l"] @@ ("m=r" :> "m")

MCClientAuths ==
    {[kind |-> "basic", valid |-> TRUE, sets |-> "Authorization", value |-> <<"basic">>],
     [kind |-> "caller", valid |-> TRUE, sets |-> "X", value |-> <<"signed">>]}
MCRequestAuths ==
    {[kind |-> "token", valid |-> TRUE, sets |-> "Authorization", value |-> <<"token">>]}

MCBudgets == -1..20     \* above the length of every form the bounds allow
MCFields == {[name |-> "f", raw |-> 2, enc |-> 2], [name |-> "g", raw |-> 2, enc |-> 4]}

TypedBody(kind, source) ==
    [NoBody EXCEPT !.kind = kind, !.contentType = <<kind>>, !.generated = TRUE, !.source = source]
TextBody(public) == [TypedBody("text", "none") EXCEPT !.size = 2, !.public = public]
BytesBody(public) == [NoBody EXCEPT !.kind = "bytes", !.size = 2, !.public = public]
ReaderBody(source, contentType) ==
    [NoBody EXCEPT !.kind = "reader", !.source = source, !.size = 2,
                   !.contentType = contentType, !.generated = contentType # <<>>]
MultipartOf(multipart) ==
    [NoBody EXCEPT !.kind = "multipart", !.generated = TRUE, !.multipart = multipart]

\* Base URLs with a path, with a slash alone and a query; templates that are
\* relative or absolute, with placeholders in every part; two have a query that
\* does not parse.
QueryOf(name, value) == <<[name |-> name, value |-> value]>>
MCBaseURLs ==
    {[set |-> TRUE, path |-> <<Slash, Text("b"), Slash>>, query |-> QueryOf("n", Value("bq", FALSE))],
     [set |-> TRUE, path |-> <<Slash>>, query |-> <<>>]}
MCTemplates ==
    {Template(FALSE, <<>>, <<Slash, Param("p"), Slash, Text("t")>>, QueryOf(Text("n"), Param("p"))),
     Template(TRUE, <<Param("p"), Text("h")>>, <<Slash, Text("t")>>, QueryOf(Param("p"), Text("n"))),
     [Template(TRUE, <<Text("h")>>, <<>>, <<>>) EXCEPT !.scheme = <<Param("p")>>],
     [Template(TRUE, <<Text("h")>>, <<>>, <<>>) EXCEPT !.malformed = TRUE],
     [Template(FALSE, <<>>, <<Text("t")>>, <<>>) EXCEPT !.malformed = TRUE]}

\* Fewer inputs, for the runs that look at bodies and at the projections.
FewClientTexts == ByName({<<"xc">>}, {<<"c/c">>}, {}, {}, {})
FewRequestTexts == ByName({<<"x">>}, {<<"r/r">>, <<>>}, {<<"a">>}, {<<"pa">>}, {})

FewBodies == {TypedBody("json", "none"), BytesBody(FALSE), MultipartOf(NoMultipart)}
AllBodies ==
    {TypedBody(k, "none") : k \in Typed} \cup {TypedBody("json", "broken")}
        \cup {TextBody(p) : p \in BOOLEAN} \cup {BytesBody(p) : p \in BOOLEAN}
        \cup {ReaderBody(s, c) : s \in {"plain", "sized", "broken", "nil"}, c \in {<<>>, <<"r/d">>}}
        \cup {MultipartOf(NoMultipart),
              MultipartOf([NoMultipart EXCEPT !.config = FALSE]),
              MultipartOf([NoMultipart EXCEPT !.parts = FALSE]),
              MultipartOf([NoMultipart EXCEPT !.metadata = FALSE]),
              MultipartOf([NoMultipart EXCEPT !.replay = TRUE]),
              MultipartOf([NoMultipart EXCEPT !.replay = TRUE, !.fits = FALSE])}
=============================================================================
