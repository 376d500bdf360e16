--------------------------- MODULE RequestBuilder ---------------------------
(***************************************************************************)
(* A request builder on top of a client's defaults: headers, ordered       *)
(* headers, cookies, authentication and the selected body (request.go,     *)
(* body.go, request_metadata.go, client.go), and the request that          *)
(* compileRequestPlanSnapshot and openDelivery make of both. An Option may *)
(* be applied to a live client, so client and request calls interleave.    *)
(*                                                                         *)
(* The text of a header value is the sequence of its parts; only cookies   *)
(* have more than one. Header occurrences are grouped by name: nothing in  *)
(* the code depends on their order across names. A call with a map of      *)
(* several headers is the same as one call for each, in any order.         *)
(***************************************************************************)
EXTENDS OrderedHeaders

CONSTANTS
    OtherNames,     \* header names the code gives no meaning
    ClientTexts,    \* for each header name, the texts WithHeader writes
    ClientHeaders,  \* arguments of WithHeaders
    RequestTexts,   \* for each header name, the texts request calls write
    ClientObjects,  \* arguments of WithOrderedHeaders
    RequestObjects, \* arguments of OrderedHeaders
    ClientCookies, RequestCookies,  \* name=value pairs
    CookieName,     \* the name in a pair
    ClientAuths, RequestAuths,      \* authentication methods that are Valid
    Disclosures,    \* whether values are tagged Public, Private or either
    Fields,         \* form fields: name, length as written and as encoded
    Bodies,         \* the body plans of setters other than forms
    MaxClientCalls, \* bound: options applied
    MaxCalls        \* bound: builder calls

CT == "Content-Type"
AUTH == "Authorization"
COOKIE == "Cookie"
isCredentialRequestHeader_NotProxy(n) == n = AUTH
isCredentialRequestHeader(n) == n \in {AUTH, "Proxy-Authorization"}
HeaderNames == {CT, AUTH, COOKIE} \cup OtherNames
Key(name) == [name |-> name, lower |-> FALSE]
Keys == [name: HeaderNames, lower: BOOLEAN]

\* What a body setter hands to selectBody: a setter that generates a media
\* type says so.
BodyPlans ==
    [kind: {"none", "json", "xml", "yaml", "text", "bytes", "reader", "form", "multipart"},
     contentType: Seq(STRING), generated: BOOLEAN, public: BOOLEAN, size: Nat,
     source: STRING, length: Int, form: Seq([name: STRING, raw: Nat, enc: Nat, public: BOOLEAN]),
     multipart: [config: BOOLEAN, parts: BOOLEAN, metadata: BOOLEAN,
                 replay: BOOLEAN, fits: BOOLEAN]]

Texts == Seq(STRING)
AnyNames == HeaderNames \cup PseudoNames
Entries == Seq([key: [name: AnyNames, lower: BOOLEAN], values: Seq(Texts)])
Auths == [kind: {"basic", "token", "caller"}, valid: BOOLEAN, sets: HeaderNames, value: Texts]

\* A header name has no colon. The methods of this package set Authorization.
\* A setter that generates a media type has one of its own, except for a
\* multipart body, whose boundary is not chosen yet; only SizedReader sets a
\* length. Encoding a form field does not make it shorter.
ASSUME BuilderAssumption ==
    /\ OtherNames \cap PseudoNames = {}
    /\ \A n \in HeaderNames : ClientTexts[n] \subseteq Texts /\ RequestTexts[n] \subseteq Texts
    /\ ClientHeaders \subseteq [HeaderNames -> Seq(Texts)]
    /\ ClientObjects \cup RequestObjects \subseteq [active: {TRUE}, entries: Entries]
    /\ ClientCookies \cup RequestCookies \subseteq STRING
    /\ ClientAuths \cup RequestAuths \subseteq {a \in Auths : a.kind # "caller" => a.sets = AUTH}
    /\ Bodies \subseteq BodyPlans
    /\ \A b \in Bodies :
        /\ b.kind \notin {"none", "form"} /\ b.length = -1
        /\ b.generated /\ b.kind \notin {"bytes", "reader"} =>
            b.contentType = IF b.kind = "multipart" THEN <<>> ELSE <<b.kind>>
    /\ Fields \subseteq {f \in [name: STRING, raw: Nat, enc: Nat] : f.raw <= f.enc}
    /\ Disclosures \subseteq BOOLEAN
    /\ MaxClientCalls \in Nat /\ MaxCalls \in Nat

Value(text, public) == [value |-> text, public |-> public]
Private(texts) == [i \in DOMAIN texts |-> Value(texts[i], FALSE)]
Raw(values) == [i \in DOMAIN values |-> values[i].value]

VARIABLES
    client,  \* headers, ordered headers, cookies and auth of the client
    request, \* the same of the builder
    body,    \* the selected body
    preparationErr, \* class of the first failed call, "none"
    clientCalls, calls

vars == <<client, request, body, preparationErr, clientCalls, calls>>

NoAuth == [kind |-> "none", valid |-> TRUE, sets |-> AUTH, value |-> <<>>]
NoMultipart == [config |-> TRUE, parts |-> TRUE, metadata |-> TRUE, replay |-> FALSE, fits |-> TRUE]
NoBody == [kind |-> "none", contentType |-> <<>>, generated |-> FALSE, public |-> FALSE,
           size |-> 0, source |-> "none", length |-> -1, form |-> <<>>, multipart |-> NoMultipart]
EmptyMetadata == [headers |-> [n \in HeaderNames |-> <<>>], ordered |-> NilObject,
                  cookies |-> <<>>, auth |-> NoAuth]

Init ==
    /\ client = EmptyMetadata /\ request = EmptyMetadata
    /\ body = NoBody /\ preparationErr = "none"
    /\ clientCalls = 0 /\ calls = 0

-----------------------------------------------------------------------------
(* The operations on headers that client and builder share. Each changes   *)
(* the semantic headers and, when there is an ordered object, the object.  *)

Ordered(m, entries) ==
    IF m.ordered.active THEN [m.ordered EXCEPT !.entries = entries] ELSE m.ordered

setHeaderValues(m, key, values) ==
    [m EXCEPT !.headers = [@ EXCEPT ![key.name] = values],
              !.ordered = Ordered(m, setOrderedHeaderValues(@.entries, key, Raw(values)))]

addHeaderValue(m, key, value) ==
    [m EXCEPT !.headers = [@ EXCEPT ![key.name] = Append(m.headers[key.name], value)],
              !.ordered = Ordered(m, addOrderedHeaderValues(@.entries, key, <<value.value>>))]

delHeader(m, key) ==
    [m EXCEPT !.headers = [@ EXCEPT ![key.name] = <<>>],
              !.ordered = Ordered(m, deleteOrderedHeader(@.entries, key))]

\* The semantic headers are those of the object, without pseudo-headers.
setOrderedHeaders(m, object) ==
    LET clone == cloneOrderedHeaders(object)
    IN  [m EXCEPT !.ordered = clone,
                  !.headers = [n \in HeaderNames |-> Private(ValuesOf(clone, n))]]

-----------------------------------------------------------------------------
(* Client options.                                                         *)

Option(c) ==
    /\ clientCalls < MaxClientCalls /\ clientCalls' = clientCalls + 1
    /\ client' = c
    /\ UNCHANGED <<request, body, preparationErr, calls>>

WithHeader ==
    \E key \in Keys : \E text \in ClientTexts[key.name] :
        Option(setHeaderValues(client, key, <<Value(text, FALSE)>>))

\* Replaces all default headers and drops the ordered object.
WithHeaders ==
    \E headers \in ClientHeaders :
        Option([client EXCEPT !.headers = [n \in HeaderNames |-> Private(headers[n])],
                              !.ordered = NilObject])

WithOrderedHeaders ==
    \E object \in ClientObjects \cup {NilObject} : Option(setOrderedHeaders(client, object))

\* The cookies whose name is not that of c.
WithoutCookie(cookies, c) ==
    Keep(cookies, {i \in DOMAIN cookies : CookieName[cookies[i].value] # CookieName[c]})

WithCookies ==
    \E c \in ClientCookies :
        Option([client EXCEPT !.cookies =
            Append(WithoutCookie(@, c), Value(c, FALSE))])

WithAuth == \E a \in ClientAuths : Option([client EXCEPT !.auth = a])

-----------------------------------------------------------------------------
(* Builder calls on headers, cookies and authentication.                   *)

Call(r, b) ==
    /\ calls < MaxCalls /\ calls' = calls + 1
    /\ request' = r /\ body' = b
    /\ UNCHANGED <<client, preparationErr, clientCalls>>

\* The first error is retained; nothing else changes.
setPreparationError(class) ==
    /\ calls < MaxCalls /\ calls' = calls + 1
    /\ preparationErr' = IF preparationErr = "none" THEN class ELSE preparationErr
    /\ UNCHANGED <<client, request, body, clientCalls>>

TakeContentType_Ignore(key) == body

\* A Content-Type the caller touched is no longer the body's to remove.
TakeContentType(key) ==
    IF key.name = CT THEN [body EXCEPT !.generated = FALSE] ELSE body

Header ==
    \E key \in Keys, public \in Disclosures : \E text \in RequestTexts[key.name] :
        Call(setHeaderValues(request, key, <<Value(text, public)>>), TakeContentType(key))

AddHeader ==
    \E key \in Keys, public \in Disclosures : \E text \in RequestTexts[key.name] :
        Call(addHeaderValue(request, key, Value(text, public)), TakeContentType(key))

DelHeader == \E key \in Keys : Call(delHeader(request, key), TakeContentType(key))

\* One header of the map; its list of values may be empty.
Headers ==
    \E key \in Keys : \E texts \in {<<>>} \cup {<<t>> : t \in RequestTexts[key.name]} :
        Call(setHeaderValues(request, key, Private(texts)), TakeContentType(key))

OrderedHeadersCall ==
    \E object \in RequestObjects \cup {NilObject} :
        Call(setOrderedHeaders(request, object), [body EXCEPT !.generated = FALSE])

Cookie ==
    \E c \in RequestCookies, public \in Disclosures :
        Call([request EXCEPT !.cookies = Append(@, Value(c, public))], body)

DelCookie ==
    \E c \in RequestCookies : Call([request EXCEPT !.cookies = WithoutCookie(@, c)], body)

Auth ==
    \/ \E a \in RequestAuths : Call([request EXCEPT !.auth = a], body)
    \/ setPreparationError("config")

\* The caller empties a built-in method it passed as a pointer.
SpoilAuth ==
    /\ request.auth.kind \in {"basic", "token"} /\ request.auth.valid
    /\ Call([request EXCEPT !.auth.valid = FALSE], body)

-----------------------------------------------------------------------------
(* Body setters. Bodies lists the plans they build: JSON, XML, YAML, Text, *)
(* TextValue, Bytes, BytesPayload, Reader and Multipart.                   *)

selectBodyHeaders_Keep(b) ==
    IF b.contentType # <<>>
    THEN setHeaderValues(request, Key(CT), <<Value(b.contentType, FALSE)>>) ELSE request

selectBodyHeaders(b) ==
    LET r == IF body.generated THEN delHeader(request, Key(CT)) ELSE request
    IN  IF b.contentType # <<>>
        THEN setHeaderValues(r, Key(CT), <<Value(b.contentType, FALSE)>>) ELSE r

selectBody(b) == Call(selectBodyHeaders(b), b)

SetBody == \E b \in Bodies : selectBody(b)

SizedReader ==
    \/ \E b \in {b \in Bodies : b.kind = "reader"}, n \in 0..2 : selectBody([b EXCEPT !.length = n])
    \/ setPreparationError("config")    \* a negative length

\* A nil *Multipart; Timeout, Retry and MaxResponseBodyBytes refuse negative
\* values, AddMiddleware nil functions, in the same way.
RefusedSetting == setPreparationError("config")

Field(f, public) == [name |-> f.name, raw |-> f.raw, enc |-> f.enc, public |-> public]

FormBody == [NoBody EXCEPT !.kind = "form", !.contentType = <<"form">>, !.generated = TRUE]

\* Form takes a whole form, FormField adds to one. parseFormFields may fail.
Form ==
    \/ \E f \in Fields : selectBody([FormBody EXCEPT !.form = <<Field(f, FALSE)>>])
    \/ setPreparationError("form")

FormField ==
    \E f \in Fields, public \in Disclosures :
        IF body.kind = "form"
        THEN Call(request, [body EXCEPT !.form = Append(@, Field(f, public))])
        ELSE selectBody([FormBody EXCEPT !.form = <<Field(f, public)>>])

DelFormField ==
    /\ body.kind = "form"
    /\ \E f \in Fields :
        Call(request, [body EXCEPT !.form =
                Keep(@, {i \in DOMAIN body.form : body.form[i].name # f.name})])

Next ==
    \/ WithHeader \/ WithHeaders \/ WithOrderedHeaders \/ WithCookies \/ WithAuth
    \/ Header \/ AddHeader \/ DelHeader \/ Headers \/ OrderedHeadersCall
    \/ Cookie \/ DelCookie \/ Auth \/ SpoilAuth
    \/ SetBody \/ SizedReader \/ RefusedSetting \/ Form \/ FormField \/ DelFormField

Spec == Init /\ [][Next]_vars

-----------------------------------------------------------------------------
(* compileRequestPlanSnapshot: the facts every exit shares.                *)

headerValues(headers) == [n \in HeaderNames |-> Raw(headers[n])]
Get(headers, name) == IF headers[name] = <<>> THEN <<>> ELSE headers[name][1]

PlanHeaders_ClientFirst ==
    [n \in HeaderNames |-> client.headers[n] \o request.headers[n]]

\* mergePlanHeaderOccurrences; a credential is private whatever the caller
\* said.
PlanHeaders ==
    [n \in HeaderNames |->
        LET chosen == IF request.headers[n] # <<>> THEN request.headers[n] ELSE client.headers[n]
        IN  [i \in DOMAIN chosen |->
                IF isCredentialRequestHeader(n) THEN Value(chosen[i].value, FALSE) ELSE chosen[i]]]

\* A client's ordered entry goes when the request has a plain header of that
\* name and no ordered entry.
compileOrderedHeaders ==
    LET merged == mergeOrderedHeaders(client.ordered, request.ordered)
        plain == {n \in HeaderNames : request.headers[n] # <<>> /\ ~HasName(request.ordered, n)}
        kept == deleteOrderedHeaders(merged.entries, {Key(n) : n \in plain})
    IN  IF ~merged.active \/ \A n \in HeaderNames : request.headers[n] = <<>> THEN merged
        ELSE IF kept = <<>> THEN NilObject ELSE Object(kept)

PlanOrdered == syncOrderedHeaderValues(compileOrderedHeaders, headerValues(PlanHeaders))

\* The cookies in the Cookie headers of m: private, one by one.
headerCookies(m) == Private(FlattenSeq(Raw(m.headers[COOKIE])))

mergeCookieOccurrences_All(layers) == FlattenSeq(layers)

\* Of each name, what the last layer that knows it has.
mergeCookieOccurrences(layers) ==
    LET Name(l, i) == CookieName[layers[l][i].value]
        isLast(l, i) ==
            ~\E k \in DOMAIN layers : k > l /\ \E j \in DOMAIN layers[k] : Name(k, j) = Name(l, i)
    IN  FlattenSeq([l \in DOMAIN layers |->
            Keep(layers[l], {i \in DOMAIN layers[l] : isLast(l, i)})])

PlanCookies ==
    mergeCookieOccurrences(
        <<headerCookies(client), client.cookies, headerCookies(request), request.cookies>>)

-----------------------------------------------------------------------------
(* compileDeliverySnapshot and openDelivery: the request that is sent.     *)

Typed == {"json", "xml", "yaml"}

validateDeliveryPreflightFacts(b, headers) ==
    CASE b.kind \in Typed /\ Get(headers, CT) = <<>> -> "unsupported"
      [] b.kind = "reader" /\ b.source = "nil" -> "config"
      [] b.kind = "multipart" /\ ~b.multipart.config -> "config"
      [] OTHER -> "none"

DeliveryPreflight ==
    IF preparationErr # "none" THEN preparationErr
    ELSE validateDeliveryPreflightFacts(body, headerValues(request.headers))

\* The length of what url.Values.Encode writes.
EncodedLength(form) ==
    Total([i \in DOMAIN form |-> form[i].enc + 1]) + (IF form = <<>> THEN 0 ELSE Len(form) - 1)

Unknown == -1   \* a length net/http is not told (ContentLength 0 with a body)
EncodedSize == 2

Replayable(length, contentType) ==
    [err |-> "none", getBody |-> TRUE, length |-> length, contentType |-> contentType]
OneShot(length, contentType) ==
    [err |-> "none", getBody |-> FALSE, length |-> length, contentType |-> contentType]
Refused(err) == [OneShot(0, <<>>) EXCEPT !.err = err]

\* Encoders, readers and multipart sources are the caller's: source says
\* what they do. Multipart bodies themselves are in MultipartBody.
buildDeliveryBody(b, headers) ==
    LET contentType == Get(headers, CT)
        multipartType == IF b.generated THEN <<"multipart", "boundary">> ELSE <<>>
    IN CASE b.kind = "none" -> OneShot(0, <<>>)
         [] b.kind \in Typed ->
                IF contentType = <<>> THEN Refused("unsupported")
                ELSE IF b.source = "broken" THEN Refused("encode")
                ELSE Replayable(EncodedSize, contentType)
         [] b.kind \in {"text", "bytes"} -> Replayable(b.size, contentType)
         [] b.kind = "form" -> Replayable(EncodedLength(b.form), contentType)
         [] b.kind = "reader" ->
                IF b.length >= 0 THEN OneShot(b.length, contentType)
                ELSE IF b.source = "broken" THEN Refused("read")
                ELSE IF b.source = "sized" THEN Replayable(b.size, contentType)
                ELSE OneShot(Unknown, contentType)
         [] b.kind = "multipart" ->
                IF ~b.multipart.replay THEN OneShot(Unknown, multipartType)
                ELSE IF ~b.multipart.fits THEN Refused("read")
                ELSE Replayable(EncodedSize, multipartType)

\* AuthMethod.Apply: BasicAuth does not ask Valid, the token methods do.
Apply(auth, headers) ==
    IF auth.kind = "none" \/ (auth.kind = "token" /\ ~auth.valid) THEN headers
    ELSE [headers EXCEPT ![auth.sets] = <<auth.value>>]

DeliveredBody == buildDeliveryBody(body, headerValues(request.headers))

ReplacesContentType == body.generated /\ DeliveredBody.contentType # <<>>

\* http.Request.AddCookie joins the cookies into one value.
AddCookies(cookies) == IF cookies = <<>> THEN <<>> ELSE <<Raw(cookies)>>

DeliveredHeader_AuthFirst ==
    LET base == addHeaderValues([n \in HeaderNames |-> <<>>], headerValues(client.headers), client.ordered)
        authed == Apply(request.auth, Apply(client.auth, base))
        overlaid == overlayHeaderValues(authed, headerValues(request.headers), request.ordered)
        typed == IF ReplacesContentType
                 THEN [overlaid EXCEPT ![CT] = <<DeliveredBody.contentType>>] ELSE overlaid
    IN  [typed EXCEPT ![COOKIE] = AddCookies(PlanCookies)]

\* applyPlanAuthAndHeaders.
DeliveredHeader ==
    LET base == addHeaderValues([n \in HeaderNames |-> <<>>], headerValues(client.headers), client.ordered)
        authed == Apply(client.auth, base)
        overlaid == overlayHeaderValues(authed, headerValues(request.headers), request.ordered)
        typed == IF ReplacesContentType
                 THEN [overlaid EXCEPT ![CT] = <<DeliveredBody.contentType>>] ELSE overlaid
    IN  Apply(request.auth,
              [deleteHeaderValues(typed, COOKIE) EXCEPT ![COOKIE] = AddCookies(PlanCookies)])

\* A generated type goes into the metadata only if the request has its own.
TypedOrdered(object, contentType) ==
    IF ~ReplacesContentType THEN object
    ELSE IF request.ordered.active
    THEN Object(setOrderedHeaderValues(object.entries, Key(CT), <<contentType>>))
    ELSE [object EXCEPT !.entries = deleteOrderedHeader(@, Key(CT))]

NilIfEmpty(object) == IF object.entries = <<>> THEN NilObject ELSE object

DeliveredOrdered ==
    cloneOrderedHeaders(syncOrderedHeaderValues(
        NilIfEmpty(TypedOrdered(PlanOrdered, DeliveredBody.contentType)), DeliveredHeader))

-----------------------------------------------------------------------------
(* Properties.                                                             *)

OneEntryPerName(object) ==
    \A i, j \in DOMAIN object.entries :
        object.entries[i].key.name = object.entries[j].key.name => i = j

\* While ordered headers are active, every call that changes headers, and
\* every body setter, leaves each name with the same values in the ordered
\* object and in the semantic headers, and no name in the object under two
\* spellings (request.go, body.go, client.go).
OrderedInSync ==
    \A m \in {client, request} : m.ordered.active =>
        /\ \A n \in HeaderNames : ValuesOf(m.ordered, n) = Raw(m.headers[n])
        /\ OneEntryPerName(m.ordered)

\* A Content-Type marked as generated by the selected body is the only
\* request-local one and is that body's (selectBody and the calls that take
\* the header over).
GeneratedTypeIsSole ==
    body.generated /\ body.contentType # <<>> =>
        request.headers[CT] = <<Value(body.contentType, FALSE)>>

\* When another kind of body replaces one whose Content-Type is marked, what
\* is left in the request-local header is the new body's type or nothing
\* (selectBody).
ReplacedTypeRemoved ==
    [][body.generated /\ body'.kind # body.kind =>
        request'.headers[CT] =
            IF body'.contentType = <<>> THEN <<>> ELSE <<Value(body'.contentType, FALSE)>>]_vars

Sends == DeliveryPreflight = "none" /\ DeliveredBody.err = "none"
Active(auth, name) ==
    auth.kind # "none" /\ auth.sets = name /\ (auth.kind = "token" => auth.valid)

\* Client headers, client auth, request headers, request auth: the last one
\* that speaks of a name decides all its values, whatever is ordered and
\* however names are spelled (applyPlanAuthAndHeaders).
LaterLayerReplaces ==
    Sends => \A n \in HeaderNames \ {COOKIE} :
        DeliveredHeader[n] =
            IF Active(request.auth, n) THEN <<request.auth.value>>
            ELSE IF n = CT /\ ReplacesContentType THEN <<DeliveredBody.contentType>>
            ELSE IF request.headers[n] # <<>> \/ HasName(request.ordered, n)
            THEN Raw(request.headers[n])
            ELSE IF Active(client.auth, n) THEN <<client.auth.value>>
            ELSE Raw(client.headers[n])

\* A cookie name the request uses, in a Cookie header or by a call, brings no
\* cookie of the client; explicit cookies are sent in the order of the calls
\* (compileCookieOccurrences).
RequestCookiesWin ==
    LET sent == Raw(PlanCookies)
        explicit == Raw(request.cookies)
        inHeader == Raw(headerCookies(request))
        names == {CookieName[c] : c \in ToSet(explicit \o inHeader)}
    IN  /\ \A c \in ToSet(sent) :
            CookieName[c] \in names => c \in ToSet(explicit \o inHeader)
        /\ Keep(sent, {i \in DOMAIN sent : sent[i] \in ToSet(explicit)}) = explicit
        /\ \A c \in ToSet(Raw(client.cookies)) : CookieName[c] \notin names => c \in ToSet(sent)

\* The entries of the object have the values of these headers.
Mirrors(object, headers) ==
    \A i \in DOMAIN object.entries :
        LET e == object.entries[i]
        IN  isPseudoHeader(e.key) \/ (e.values = headers[e.key.name] /\ e.values # <<>>)

\* These names and no others of the object, in its order.
NamesAmong(object, names) ==
    LET found == Keep(object.entries,
                      {i \in DOMAIN object.entries : object.entries[i].key.name \in names})
    IN  [i \in DOMAIN found |-> found[i].key.name]

\* The names the object has values for that are sent, in its order.
AskedNames(object, headers) ==
    NamesAmong(object, {n \in AnyNames :
        n \in PseudoNames \/ (ValuesOf(object, n) # <<>> /\ headers[n] # <<>>)})

KeepsIntent(object, headers) ==
    LET names == AskedNames(request.ordered, headers)
    IN  /\ NamesAmong(object, ToSet(names)) = names
        /\ OneEntryPerName(object)
        /\ Mirrors(object, headers)

\* The metadata a transport finds on the request has the values of the final
\* headers and keeps every entry the caller gave values, and pseudo-headers,
\* once and in the caller's order (applyPlanAuthAndHeaders, syncOrderedHeaderValues).
OrderedIntentKept == Sends => KeepsIntent(DeliveredOrdered, DeliveredHeader)
=============================================================================
