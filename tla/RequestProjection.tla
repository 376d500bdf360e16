------------------------- MODULE RequestProjection --------------------------
(***************************************************************************)
(* The exits of a builder that send nothing: Preview (request_preview.go,  *)
(* request_plan.go) and Prepare (request_preparation.go). Both project the *)
(* plan Send uses and change neither builder nor client, so they are       *)
(* functions of the state of RequestBuilder. The context they are given is *)
(* live; with one that ends they return its error instead.                 *)
(***************************************************************************)
EXTENDS RequestBuilder

CONSTANT Budgets    \* budgets given to Prepare

ASSUME BudgetAssumption == Budgets \subseteq Int

\* By concrete type and fields, without calling the method.
builtInAuthShape(auth) ==
    CASE auth.kind = "none" -> "none"
      [] auth.kind = "caller" -> "unknown"
      [] OTHER -> IF auth.valid THEN "builtIn" ELSE "invalid"

AuthShapes == {builtInAuthShape(client.auth), builtInAuthShape(request.auth)}

-----------------------------------------------------------------------------
(* Preview.                                                                *)

previewBodyErr_NilReader(b, headers) ==
    CASE b.kind \in Typed /\ Get(headers, CT) = <<>> -> "unsupported"
      [] b.kind = "multipart" /\ ~(b.multipart.config /\ b.multipart.parts) -> "config"
      [] OTHER -> "none"

previewBodyErr(b, headers) ==
    CASE b.kind \in Typed /\ Get(headers, CT) = <<>> -> "unsupported"
      [] b.kind = "reader" /\ b.source = "nil" -> "config"
      [] b.kind = "multipart" /\ ~(b.multipart.config /\ b.multipart.parts) -> "config"
      [] OTHER -> "none"

PreviewErr ==
    IF preparationErr # "none" THEN preparationErr
    ELSE IF AuthShapes \cap {"invalid", "unknown"} # {} THEN "config"
    ELSE previewBodyErr(body, headerValues(request.headers))

previewBody_SizedIsReplayable(b) ==
    [lengthKnown |-> b.kind \in {"text", "bytes"} \/ b.length >= 0,
     length |-> IF b.kind = "reader" THEN b.length ELSE b.size,
     replayable |-> b.kind \in Typed \cup {"text", "bytes", "form", "reader"}
                        \/ (b.kind = "multipart" /\ b.multipart.replay),
     replayabilityKnown |-> b.kind \notin {"none", "reader"} \/ b.length >= 0]

\* Facts that need no reading: a reader is only known by its declared length.
previewBody(b) ==
    [lengthKnown |-> b.kind \in {"text", "bytes"} \/ b.length >= 0,
     length |-> IF b.kind = "reader" THEN b.length ELSE b.size,
     replayable |-> b.kind \in Typed \cup {"text", "bytes", "form"}
                        \/ (b.kind = "multipart" /\ b.multipart.replay),
     replayabilityKnown |-> b.kind \notin {"none", "reader"} \/ b.length >= 0]

MultipartType == body.kind = "multipart" /\ body.generated

\* projectStructural; the boundary of a generated multipart type is unknown.
PreviewSemantic ==
    LET plan == headerValues(PlanHeaders)
    IN  IF AuthShapes = {"none"} THEN plan ELSE [plan EXCEPT ![AUTH] = <<<<"redacted">>>>]

PreviewHeader ==
    IF MultipartType THEN deleteHeaderValues(PreviewSemantic, CT) ELSE PreviewSemantic

PreviewOrdered ==
    LET synced == syncOrderedHeaderValues(PlanOrdered, PreviewSemantic)
    IN  IF MultipartType THEN [synced EXCEPT !.entries = deleteOrderedHeader(@, Key(CT))] ELSE synced

-----------------------------------------------------------------------------
(* Prepare. A prepared value is present or redacted.                       *)

Present(value) == [present |-> TRUE, value |-> value]
Redacted == [present |-> FALSE, value |-> <<>>]

preparedStringFromValue(v) == IF v.public THEN Present(v.value) ELSE Redacted

preparedBodyMediaType(b) ==
    IF b.generated /\ b.kind \notin {"none", "bytes", "reader"} THEN <<b.kind>> ELSE <<>>

\* Credentials and cookies never show; a Content-Type only as the media type
\* of the body that generated it.
projectPreparedHeaderValues(name) ==
    LET occurrences == PlanHeaders[name]
        mediaType == preparedBodyMediaType(body)
    IN  IF occurrences = <<>> THEN <<Redacted>>
        ELSE [i \in DOMAIN occurrences |->
                CASE isCredentialRequestHeader(name) \/ name = COOKIE -> Redacted
                  [] name = CT -> IF i = 1 /\ mediaType # <<>> THEN Present(mediaType) ELSE Redacted
                  [] OTHER -> preparedStringFromValue(occurrences[i])]

PreparedHeaders ==
    [n \in HeaderNames |->
        IF PlanHeaders[n] # <<>> \/ (n = AUTH /\ AuthShapes # {"none"})
        THEN projectPreparedHeaderValues(n) ELSE <<>>]

\* The value at a place of an ordered entry is the semantic one at that place.
PreparedOrdered ==
    [i \in DOMAIN PlanOrdered.entries |->
        LET e == PlanOrdered.entries[i]
            semantic == IF isPseudoHeader(e.key) THEN <<>> ELSE PreparedHeaders[e.key.name]
        IN  Entry(e.key, [j \in DOMAIN e.values |->
                            IF j \in DOMAIN semantic THEN semantic[j] ELSE Redacted])]

PreparedCookies ==
    [i \in DOMAIN PlanCookies |->
        IF PlanCookies[i].public THEN Present(<<PlanCookies[i].value>>) ELSE Redacted]

preparedFormAllPublic(form) == form # <<>> /\ \A i \in DOMAIN form : form[i].public

\* What the form has at least, before encoding: each field and its "=", and
\* the "&" between them.
RawLength_CountsTwo(form) ==
    Total([i \in DOMAIN form |-> form[i].raw + 2])

RawLength(form) ==
    Total([i \in DOMAIN form |-> form[i].raw + 1]) + (IF form = <<>> THEN 0 ELSE Len(form) - 1)

\* projectPreparedBody: the bytes to retain, if any may be.
BodyShown ==
    \/ body.kind \in {"text", "bytes"} /\ body.public
    \/ body.kind = "form" /\ preparedFormAllPublic(body.form)

BodyTooLarge(budget) ==
    /\ BodyShown
    /\ IF body.kind = "form"
       THEN RawLength(body.form) > budget \/ EncodedLength(body.form) > budget
       ELSE body.size > budget

validatePreparationBodyShape(b, headers) ==
    CASE b.kind \in Typed /\ Get(headers, CT) = <<>> -> "unsupported"
      [] b.kind = "reader" /\ b.source = "nil" -> "config"
      [] OTHER -> "none"

\* prepareMultipartManifest, which the projection of the body calls.
multipartManifestErr(b) ==
    LET m == b.multipart
    IN  IF b.kind = "multipart" /\ ~(m.config /\ m.parts /\ m.metadata) THEN "config" ELSE "none"

PrepareErr(budget) ==
    LET shape == validatePreparationBodyShape(body, headerValues(request.headers))
    IN  IF preparationErr # "none" THEN preparationErr
        ELSE IF budget < 0 THEN "budget"
        ELSE IF shape # "none" THEN shape
        ELSE IF builtInAuthShape(client.auth) = "invalid" THEN "config"
        ELSE IF builtInAuthShape(client.auth) = "unknown" THEN "notPreparable"
        ELSE IF builtInAuthShape(request.auth) = "invalid" THEN "config"
        ELSE IF builtInAuthShape(request.auth) = "unknown" THEN "notPreparable"
        ELSE IF BodyTooLarge(budget) THEN "tooLarge"
        ELSE multipartManifestErr(body)

-----------------------------------------------------------------------------
(* Properties.                                                             *)

Prepares == \E budget \in Budgets : PrepareErr(budget) = "none"

\* Whatever Prepare accepts Preview accepts, and whatever Preview accepts
\* Send does not refuse before it opens the body: a caller that inspects
\* first is not turned away later for a static reason.
ExitsAgree ==
    /\ Prepares => PreviewErr = "none"
    /\ PreviewErr = "none" => DeliveryPreflight = "none"

\* The length and replayability Preview reports as known are those of the
\* body Send opens (previewBody against buildDeliveryBody).
PreviewBodyTruthful ==
    PreviewErr = "none" /\ Sends =>
        /\ previewBody(body).lengthKnown => previewBody(body).length = DeliveredBody.length
        /\ previewBody(body).replayabilityKnown =>
            previewBody(body).replayable = DeliveredBody.getBody

HeadersAgree(preview, previewOrdered, sent, sentOrdered) ==
    \A n \in HeaderNames \ {COOKIE} :
        \/ HasName(request.ordered, n) /\ ValuesOf(request.ordered, n) = <<>>
        \/ n = CT /\ MultipartType
        \/ /\ preview[n] # <<>> <=> sent[n] # <<>>
           /\ n = CT => Get(preview, n) = Get(sent, n)
           /\ HasName(previewOrdered, n) <=> HasName(sentOrdered, n)

\* The headers Preview lists, plain and ordered, and the Content-Type it
\* reports are those of the request Send makes, except for a name to which
\* the request gives an ordered entry without values (projectStructural
\* against applyPlanAuthAndHeaders).
PreviewHeadersSent ==
    PreviewErr = "none" /\ Sends =>
        HeadersAgree(PreviewHeader, PreviewOrdered, DeliveredHeader, DeliveredOrdered)

\* v, shown at place i of a header, is sent there, and the caller tagged it
\* Public or the body generated it. It is no credential, however it is tagged.
ShownIsSent(name, i, v, sent) ==
    /\ i \in DOMAIN sent[name]
    /\ IF name = CT THEN body.generated /\ v.value[1] = sent[name][i][1]
       ELSE /\ v.value = sent[name][i]
            /\ name \notin {"Authorization", "Proxy-Authorization"}
            /\ request.headers[name][i] = Value(v.value, TRUE)

AllShownIsSent(headers, ordered, cookies, sent) ==
    /\ \A n \in HeaderNames : \A i \in DOMAIN headers[n] :
        headers[n][i].present => ShownIsSent(n, i, headers[n][i], sent)
    /\ \A e \in ToSet(ordered) : \A i \in DOMAIN e.values :
        e.values[i].present => ShownIsSent(e.key.name, i, e.values[i], sent)
    /\ \A i \in DOMAIN cookies : cookies[i].present =>
        /\ cookies[i].value = <<sent[COOKIE][1][i]>>
        /\ Value(sent[COOKIE][1][i], TRUE) \in ToSet(request.cookies)

\* Every value Prepare shows was tagged Public by the caller, or is the media
\* type of the body, and is what Send would send in that place: in the
\* headers, in the ordered entries and among the cookies
\* (projectRequestPreparation against applyPlanAuthAndHeaders).
PreparedValuesAreSent ==
    Prepares /\ Sends =>
        AllShownIsSent(PreparedHeaders, PreparedOrdered, PreparedCookies, DeliveredHeader)

\* The least budget that the body fits.
LeastBudget == IF DeliveredBody.length > 0 THEN DeliveredBody.length ELSE 0

\* Prepare shows the bytes of a body exactly when nothing in it is private,
\* and refuses it exactly when what would be sent exceeds the budget, by one
\* byte or more; the early bound on a form's length never refuses one that
\* fits (projectPreparedBody).
BudgetExact ==
    \A budget \in {b \in Budgets : b >= 0} :
        (PrepareErr(budget) = "tooLarge") <=>
            /\ PrepareErr(LeastBudget) = "none"
            /\ DeliveredBody.length > budget
            /\ \/ body.kind \in {"text", "bytes"} /\ body.public
               \/ body.kind = "form" /\ body.form # <<>>
                    /\ ~\E i \in DOMAIN body.form : ~body.form[i].public
=============================================================================
