------------------------------ MODULE Delivery ------------------------------
(***************************************************************************)
(* One call of RequestBuilder.Send or SendStream (delivery.go): compile,   *)
(* open, middleware chain, retry loop, and the hand-over of the response.  *)
(* The caller's context, the transport and the middleware run beside the   *)
(* delivery goroutine and are modelled by what this code can see of them.  *)
(***************************************************************************)
EXTENDS RetryPolicy, FiniteSets

CONSTANTS
    MaxRetry,        \* bound: largest RetryPolicy.Max that is configured
    MaxCalls,        \* bound: how often the middleware chain calls next
    Statuses,        \* status codes a response may carry
    TransportErrors, \* errors httpClient.Do may return
    BodySwaps        \* what middleware does with req.Body before it goes on

ASSUME DeliveryAssumption ==
    /\ MaxRetry \in Nat
    /\ MaxCalls \in Nat \ {0}
    /\ Statuses \subseteq Nat /\ Statuses # {}
    /\ TransportErrors \subseteq (SUBSET {"canceled", "timeout", "op", "other"}) \ {Nil}
    /\ BodySwaps \subseteq {"keep", "replace", "clear"}

VARIABLES
    b,          \* the builder's choices (frozen)
    retryMax,   \* Max of the retry policy in the delivery snapshot
    pc,         \* where the delivery goroutine is
    ctx,        \* what ctx.Done reports: "live", "canceled" or "expired"
    derived,    \* the context of prepareDeliveryContext: "none", "held", "released"
    attempt,    \* loop index of the final handler
    calls,      \* how often the chain has called the final handler
    attempts,   \* httpClient.Do calls, over all calls of the final handler
    made,       \* the last number given to a request body; 1 is openDelivery's
    reqBody,    \* req.Body: the number of a body, 0 for nil and http.NoBody
    reqOpen,    \* request bodies not closed yet
    sent,       \* request bodies handed to the transport
    origCloses, \* Close calls that reached the body openDelivery made
    resp,       \* the response in hand; live: its Body is the transport's
    respOpen,   \* response bodies not closed yet, by attempt (0: middleware's)
    twice,      \* some response body was closed a second time
    err,        \* the error in hand
    errs        \* the causes of the attempt errors of this handler call

reqVars  == <<made, reqBody, reqOpen, sent, origCloses>>
respVars == <<resp, respOpen, twice>>
loopVars == <<attempt, calls, attempts>>
errVars  == <<err, errs>>
vars == <<b, retryMax, pc, ctx, derived, loopVars, reqVars, respVars, errVars>>

Configurations ==
    [stream: BOOLEAN, prepErr: BOOLEAN, timeout: BOOLEAN,
     body: {"none", "replay", "once"}, custom: BOOLEAN]

NoResponse == [present |-> FALSE, id |-> 0, live |-> FALSE, status |-> 0]
Response(i, l, s) == [present |-> TRUE, id |-> i, live |-> l, status |-> s]

Init ==
    /\ b \in Configurations
    /\ retryMax = 0
    /\ pc = "compile"
    /\ ctx = "live" /\ derived = "none"
    /\ attempt = 0 /\ calls = 0 /\ attempts = 0
    /\ made = 1 /\ reqBody = 0 /\ reqOpen = {} /\ sent = {} /\ origCloses = 0
    /\ resp = NoResponse /\ respOpen = {} /\ twice = FALSE
    /\ err = Nil /\ errs = Nil

-----------------------------------------------------------------------------
(* Closing and releasing.                                                  *)

\* http.NoBody has nothing to close; any other body is closed for good.
CloseResponse ==
    IF resp.present /\ resp.live
    THEN /\ respOpen' = respOpen \ {resp.id}
         /\ twice' = (twice \/ resp.id \notin respOpen)
    ELSE UNCHANGED <<respOpen, twice>>

\* Closing the bodies S; deliveryBody.close is sync.OnceValue, so the body of
\* openDelivery sees one Close however many wrappers are closed.
CloseRequestBodies(S) ==
    /\ reqOpen' = reqOpen \ S
    /\ origCloses' = origCloses + (IF 1 \in S \cap reqOpen THEN 1 ELSE 0)

\* The cancel function of context.WithTimeout, nil without a timeout.
Release == derived' = IF derived = "held" THEN "released" ELSE derived

-----------------------------------------------------------------------------
(* compileDeliverySnapshot and openDelivery.                               *)

\* A nil context, a recorded preparation error, or a plan that does not compile.
CompileFails ==
    /\ pc = "compile"
    /\ pc' = "returned"
    /\ err' = {"invalid"}
    /\ UNCHANGED <<b, retryMax, ctx, derived, loopVars, reqVars, respVars, errs>>

\* The client's policy is snapshotted unless the request has its own.
Compile(hasRetryPolicy, requestMax, clientMax) ==
    /\ pc = "compile" /\ ~b.prepErr
    /\ pc' = "open"
    /\ retryMax' = EffectiveMax(hasRetryPolicy, requestMax, clientMax)
    /\ UNCHANGED <<b, ctx, derived, loopVars, reqVars, respVars, errVars>>

OpenFails_NoCancel ==
    /\ pc = "open"
    /\ pc' = "returned"
    /\ err' = {"bodyBuild"}
    /\ derived' = IF b.timeout THEN "held" ELSE "none"
    /\ UNCHANGED <<b, retryMax, ctx, loopVars, reqVars, respVars, errs>>

\* http.NewRequestWithContext fails before the context is derived, or the
\* body cannot be built after it and cancelOnError runs.
OpenFails ==
    /\ pc = "open"
    /\ pc' = "returned"
    /\ \/ err' = {"creation"} /\ UNCHANGED derived
       \/ err' = {"bodyBuild"} /\ derived' = IF b.timeout THEN "released" ELSE "none"
    /\ UNCHANGED <<b, retryMax, ctx, loopVars, reqVars, respVars, errs>>

Open ==
    /\ pc = "open"
    /\ pc' = "chain"
    /\ derived' = IF b.timeout THEN "held" ELSE "none"
    /\ IF b.body = "none"
       THEN UNCHANGED reqVars
       ELSE reqBody' = 1 /\ reqOpen' = {1} /\ UNCHANGED <<made, sent, origCloses>>
    /\ UNCHANGED <<b, retryMax, ctx, loopVars, respVars, errVars>>

-----------------------------------------------------------------------------
(* The middleware chain: caller code around the final handler.             *)

\* Middleware may replace or clear req.Body of the request it passes on.
MiddlewareBody(s) ==
    /\ pc = "chain"
    /\ pc' = "route"
    /\ \/ s = "keep" /\ UNCHANGED <<made, reqBody, reqOpen>>
       \/ s = "clear" /\ reqBody' = 0 /\ UNCHANGED <<made, reqOpen>>
       \/ /\ s = "replace"
          /\ made' = made + 1 /\ reqBody' = made + 1 /\ reqOpen' = reqOpen \cup {made + 1}
    /\ UNCHANGED <<b, retryMax, ctx, derived, loopVars, sent, origCloses, respVars, errVars>>

CallNext ==
    /\ pc = "route"
    /\ pc' = "attempt"
    /\ attempt' = 0 /\ calls' = calls + 1
    /\ UNCHANGED <<b, retryMax, ctx, derived, attempts, reqVars, respVars, errVars>>

\* Middleware answers itself, with a response, an error, both or neither, and
\* may have closed req.Body.
ShortCircuit(withResponse, e, closes) ==
    /\ pc = "route"
    /\ pc' = "finish"
    /\ IF closes THEN CloseRequestBodies({reqBody}) ELSE UNCHANGED <<reqOpen, origCloses>>
    /\ IF withResponse
       THEN /\ \E s \in Statuses : resp' = Response(0, TRUE, s)
            /\ respOpen' = {0}
       ELSE UNCHANGED <<resp, respOpen>>
    /\ err' = e
    /\ UNCHANGED <<b, retryMax, ctx, derived, loopVars, made, reqBody, sent, twice, errs>>

\* The result travels up the chain; a middleware may add an error of its own
\* to a response it returns.
PassThrough(e) ==
    /\ pc = "unwind"
    /\ pc' = "finish"
    /\ err' = err \cup e
    /\ UNCHANGED <<b, retryMax, ctx, derived, loopVars, reqVars, respVars, errs>>

\* Middleware that retries by itself disposes of the response it drops and
\* restores req.Body through req.GetBody, as net/http asks of every caller.
CallNextAgain ==
    /\ pc = "unwind" /\ calls < MaxCalls
    /\ reqBody = 0 \/ b.body = "replay"
    /\ pc' = "attempt"
    /\ attempt' = 0 /\ calls' = calls + 1
    /\ IF reqBody = 0
       THEN UNCHANGED <<made, reqBody, reqOpen>>
       ELSE made' = made + 1 /\ reqBody' = made + 1 /\ reqOpen' = reqOpen \cup {made + 1}
    /\ CloseResponse
    /\ resp' = NoResponse /\ err' = Nil /\ errs' = Nil
    /\ UNCHANGED <<b, retryMax, ctx, derived, attempts, sent, origCloses>>

-----------------------------------------------------------------------------
(* The final handler: the retry loop of do().                              *)

canReplayRequestBody == reqBody = 0 \/ b.body = "replay"

ResetsBody == attempt > 0 /\ reqBody # 0

\* The body of the previous attempt is sent again.
StartAttempt_NoReset ==
    /\ pc = "attempt"
    /\ pc' = "do"
    /\ attempts' = attempts + 1
    /\ sent' = sent \cup ({reqBody} \ {0})
    /\ UNCHANGED <<made, reqBody, reqOpen>>
    /\ UNCHANGED <<b, retryMax, ctx, derived, attempt, calls, origCloses, respVars, errVars>>

\* resetRequestBody on every attempt but the first, then httpClient.Do.
StartAttempt ==
    /\ pc = "attempt"
    /\ pc' = "do"
    /\ attempts' = attempts + 1
    /\ IF ResetsBody
       THEN made' = made + 1 /\ reqBody' = made + 1 /\ reqOpen' = reqOpen \cup {made + 1}
       ELSE UNCHANGED <<made, reqBody, reqOpen>>
    /\ sent' = sent \cup ({reqBody'} \ {0})
    /\ UNCHANGED <<b, retryMax, ctx, derived, attempt, calls, origCloses, respVars, errVars>>

\* req.GetBody fails: the response in hand was drained, so nil is returned.
ResetFails ==
    /\ pc = "attempt" /\ ResetsBody
    /\ pc' = "unwind"
    /\ resp' = NoResponse /\ err' = {"reset"}
    /\ UNCHANGED <<b, retryMax, ctx, derived, loopVars, reqVars, respOpen, twice, errs>>

TransportResponds ==
    /\ pc = "do"
    /\ pc' = "decide"
    /\ \E s \in Statuses : resp' = Response(attempts, TRUE, s)
    /\ respOpen' = respOpen \cup {attempts}
    /\ err' = Nil
    /\ UNCHANGED <<b, retryMax, ctx, derived, loopVars, reqVars, twice, errs>>

TransportFails ==
    /\ pc = "do"
    /\ pc' = "decide"
    /\ \E e \in TransportErrors : err' = e /\ errs' = errs \cup e
    /\ resp' = NoResponse
    /\ UNCHANGED <<b, retryMax, ctx, derived, loopVars, reqVars, respOpen, twice>>

TransportRejectsRedirect_BodyKept ==
    /\ pc = "do"
    /\ pc' = "decide"
    /\ \E s \in Statuses : resp' = Response(attempts, TRUE, s)
    /\ err' = {"redirect"} /\ errs' = errs \cup {"redirect"}
    /\ UNCHANGED <<b, retryMax, ctx, derived, loopVars, reqVars, respOpen, twice>>

\* net/http returns a response and an error for a rejected redirect and has
\* closed the body itself; do() puts http.NoBody in its place.
TransportRejectsRedirect ==
    /\ pc = "do"
    /\ pc' = "decide"
    /\ \E s \in Statuses : resp' = Response(attempts, FALSE, s)
    /\ err' = {"redirect"} /\ errs' = errs \cup {"redirect"}
    /\ UNCHANGED <<b, retryMax, ctx, derived, loopVars, reqVars, respOpen, twice>>

\* The transport closes the body it was given, maybe long after Do returned.
TransportClosesBody(i) ==
    /\ i \in sent \cap reqOpen
    /\ CloseRequestBodies({i})
    /\ UNCHANGED <<b, retryMax, pc, ctx, derived, loopVars, made, reqBody, sent, respVars, errVars>>

\* A custom ShouldRetry may answer anything.
ShouldRetry(answer) ==
    b.custom \/ answer = DefaultRetryIf(resp.present, resp.status, err)

LastAttempt == attempt = retryMax

StopRetrying_Drains ==
    /\ pc = "decide"
    /\ \E answer \in BOOLEAN : ShouldRetry(answer) /\ (~answer \/ LastAttempt)
    /\ pc' = "unwind"
    /\ err' = IF err = Nil THEN Nil ELSE errs
    /\ IF err = Nil THEN CloseResponse ELSE UNCHANGED <<respOpen, twice>>
    /\ UNCHANGED <<b, retryMax, ctx, derived, loopVars, reqVars, resp, errs>>

\* The attempt errors are joined when the last attempt failed.
StopRetrying ==
    /\ pc = "decide"
    /\ \E answer \in BOOLEAN : ShouldRetry(answer) /\ (~answer \/ LastAttempt)
    /\ pc' = "unwind"
    /\ err' = IF err = Nil THEN Nil ELSE errs
    /\ UNCHANGED <<b, retryMax, ctx, derived, loopVars, reqVars, respVars, errs>>

\* A retry is due that the body does not allow: the response goes up, open.
NotReplayable ==
    /\ pc = "decide"
    /\ ShouldRetry(TRUE) /\ ~LastAttempt /\ ~canReplayRequestBody
    /\ pc' = "unwind"
    /\ err' = err \cup {"notReplayable"}
    /\ UNCHANGED <<b, retryMax, ctx, derived, loopVars, reqVars, respVars, errs>>

\* drainAndCloseBody closes the body even when draining fails.
CleanUp(ok) ==
    /\ pc = "decide"
    /\ ShouldRetry(TRUE) /\ ~LastAttempt /\ canReplayRequestBody
    /\ IF err = Nil THEN CloseResponse ELSE ok /\ UNCHANGED <<respOpen, twice>>
    /\ IF ok
       THEN pc' = "backoff" /\ UNCHANGED <<resp, err>>
       ELSE pc' = "unwind" /\ resp' = NoResponse /\ err' = {"cleanup"}
    /\ UNCHANGED <<b, retryMax, ctx, derived, loopVars, reqVars, errs>>

TimerFires_Lost ==
    /\ pc = "backoff" /\ attempt > 0
    /\ pc' = "attempt"
    /\ attempt' = attempt + 1
    /\ UNCHANGED <<b, retryMax, ctx, derived, calls, attempts, reqVars, respVars, errVars>>

\* select between timer.C and ctx.Done(): with both ready, either may win.
TimerFires ==
    /\ pc = "backoff"
    /\ pc' = "attempt"
    /\ attempt' = attempt + 1
    /\ UNCHANGED <<b, retryMax, ctx, derived, calls, attempts, reqVars, respVars, errVars>>

CanceledInBackoff ==
    /\ pc = "backoff" /\ ctx # "live"
    /\ pc' = "unwind"
    /\ resp' = NoResponse
    /\ err' = IF ctx = "canceled" THEN {"canceled"} ELSE {"timeout"}
    /\ UNCHANGED <<b, retryMax, ctx, derived, loopVars, reqVars, respOpen, twice, errs>>

-----------------------------------------------------------------------------
(* The end of do(), and what Send and SendStream make of its result.       *)

\* Only the current body is closed, not the one middleware replaced.
Finish_CurrentOnly ==
    /\ pc = "finish"
    /\ pc' = "result"
    /\ IF attempts = 0 THEN CloseRequestBodies({reqBody}) ELSE UNCHANGED <<reqOpen, origCloses>>
    /\ UNCHANGED <<b, retryMax, ctx, derived, loopVars, made, reqBody, sent, respVars, errVars>>

\* The transport is trusted with a body it never saw.
Finish_NoClose ==
    /\ pc = "finish"
    /\ pc' = "result"
    /\ UNCHANGED <<b, retryMax, ctx, derived, loopVars, reqVars, respVars, errVars>>

\* Without a transport attempt nobody else closes the request bodies.
Finish ==
    /\ pc = "finish"
    /\ pc' = "result"
    /\ IF attempts = 0 THEN CloseRequestBodies({reqBody, 1}) ELSE UNCHANGED <<reqOpen, origCloses>>
    /\ UNCHANGED <<b, retryMax, ctx, derived, loopVars, made, reqBody, sent, respVars, errVars>>

SendFails_BodyLeft ==
    /\ pc = "result" /\ ~b.stream /\ err # Nil
    /\ pc' = "returned"
    /\ Release
    /\ UNCHANGED <<b, retryMax, ctx, loopVars, reqVars, respVars, errVars>>

SendFails ==
    /\ pc = "result" /\ ~b.stream /\ err # Nil
    /\ pc' = "returned"
    /\ CloseResponse /\ Release
    /\ UNCHANGED <<b, retryMax, ctx, loopVars, reqVars, resp, errVars>>

SendNilResponse ==
    /\ pc = "result" /\ ~b.stream /\ err = Nil /\ ~resp.present
    /\ pc' = "returned"
    /\ err' = {"responseNil"}
    /\ Release
    /\ UNCHANGED <<b, retryMax, ctx, loopVars, reqVars, respVars, errs>>

SendBuffers ==
    /\ pc = "result" /\ ~b.stream /\ err = Nil /\ resp.present
    /\ pc' = "buffer"
    /\ UNCHANGED <<b, retryMax, ctx, derived, loopVars, reqVars, respVars, errVars>>

\* newResponse: the body is read, limited or broken, and closed in each case.
BufferBody(e) ==
    /\ pc = "buffer"
    /\ pc' = "returned"
    /\ CloseResponse /\ Release
    /\ err' = e
    /\ UNCHANGED <<b, retryMax, ctx, loopVars, reqVars, resp, errs>>

StreamNilResponse ==
    /\ pc = "result" /\ b.stream /\ ~resp.present
    /\ pc' = "returned"
    /\ err' = IF err = Nil THEN {"responseNil"} ELSE err
    /\ Release
    /\ UNCHANGED <<b, retryMax, ctx, loopVars, reqVars, respVars, errs>>

\* Response and error: the StreamResponse is returned closed.
StreamFails ==
    /\ pc = "result" /\ b.stream /\ resp.present /\ err # Nil
    /\ pc' = "returned"
    /\ CloseResponse /\ Release
    /\ UNCHANGED <<b, retryMax, ctx, loopVars, reqVars, resp, errVars>>

\* defer cancel(), as Send has it, would end the stream's context.
StreamHandsOver_Deferred ==
    /\ pc = "result" /\ b.stream /\ resp.present /\ err = Nil
    /\ pc' = "streaming"
    /\ Release
    /\ UNCHANGED <<b, retryMax, ctx, loopVars, reqVars, respVars, errVars>>

StreamHandsOver ==
    /\ pc = "result" /\ b.stream /\ resp.present /\ err = Nil
    /\ pc' = "streaming"
    /\ UNCHANGED <<b, retryMax, ctx, derived, loopVars, reqVars, respVars, errVars>>

\* StreamResponse.Close: cancel first ...
StreamCancel ==
    /\ pc = "streaming"
    /\ pc' = "closing"
    /\ Release
    /\ UNCHANGED <<b, retryMax, ctx, loopVars, reqVars, respVars, errVars>>

\* ... then the body.
StreamClose ==
    /\ pc = "closing"
    /\ pc' = "returned"
    /\ CloseResponse
    /\ UNCHANGED <<b, retryMax, ctx, derived, loopVars, reqVars, resp, errVars>>

-----------------------------------------------------------------------------
(* The context seen by delivery.                                           *)

\* The caller's context is canceled, or its own deadline passes.
CallerCancels ==
    /\ ctx = "live" /\ pc # "returned"
    /\ ctx' \in {"canceled", "expired"}
    /\ UNCHANGED <<b, retryMax, pc, derived, loopVars, reqVars, respVars, errVars>>

\* The deadline of Timeout passes.
TimeoutExpires ==
    /\ ctx = "live" /\ derived = "held"
    /\ ctx' = "expired"
    /\ UNCHANGED <<b, retryMax, pc, derived, loopVars, reqVars, respVars, errVars>>

-----------------------------------------------------------------------------
MiddlewareErrors == {Nil, {"other"}}
BufferErrors == {Nil, {"limit"}, {"readFailed"}}

Chain ==
    \/ \E s \in BodySwaps : MiddlewareBody(s)
    \/ CallNext
    \/ \E withResponse, closes \in BOOLEAN, e \in MiddlewareErrors :
           ShortCircuit(withResponse, e, closes)
    \/ \E e \in MiddlewareErrors : PassThrough(e)
    \/ CallNextAgain

Transport ==
    \/ TransportResponds
    \/ TransportFails
    \/ TransportRejectsRedirect

Loop ==
    \/ StartAttempt
    \/ ResetFails
    \/ StopRetrying
    \/ NotReplayable
    \/ \E ok \in BOOLEAN : CleanUp(ok)
    \/ TimerFires
    \/ CanceledInBackoff

Deliver ==
    \/ Finish
    \/ SendFails
    \/ SendNilResponse
    \/ SendBuffers
    \/ \E e \in BufferErrors : BufferBody(e)
    \/ StreamNilResponse
    \/ StreamFails
    \/ StreamHandsOver

CallerCloses == StreamCancel \/ StreamClose

Prepare ==
    \/ CompileFails
    \/ \E hasRetryPolicy \in BOOLEAN, requestMax, clientMax \in 0..MaxRetry :
           Compile(hasRetryPolicy, requestMax, clientMax)
    \/ OpenFails
    \/ Open

Next ==
    \/ Prepare
    \/ Chain
    \/ Loop
    \/ Transport
    \/ \E i \in sent : TransportClosesBody(i)
    \/ Deliver
    \/ CallerCloses
    \/ CallerCancels
    \/ TimeoutExpires

Spec == Init /\ [][Next]_vars

\* The delivery goroutine runs; middleware returns; the transport answers and
\* closes what it was given; an armed timer fires. Nothing makes the caller
\* close the stream or cancel.
Fairness ==
    /\ WF_vars(Prepare) /\ WF_vars(Chain) /\ WF_vars(Loop)
    /\ WF_vars(Transport) /\ WF_vars(Deliver) /\ WF_vars(StreamClose)
    /\ WF_vars(\E i \in sent : TransportClosesBody(i))

FairSpec == Spec /\ Fairness

-----------------------------------------------------------------------------
(* Properties.                                                             *)

Causes == {"canceled", "timeout", "op", "other", "redirect", "notReplayable",
           "reset", "cleanup", "invalid", "creation", "bodyBuild",
           "responseNil", "limit", "readFailed"}

PCs == {"compile", "open", "chain", "route", "attempt", "do", "decide", "backoff",
        "unwind", "finish", "result", "buffer", "streaming", "closing", "returned"}

\* Type invariant of the delivery state.
TypeOK ==
    /\ b \in Configurations /\ retryMax \in 0..MaxRetry
    /\ pc \in PCs
    /\ ctx \in {"live", "canceled", "expired"}
    /\ derived \in {"none", "held", "released"}
    /\ attempt \in 0..MaxRetry /\ calls \in 0..MaxCalls /\ attempts \in Nat
    /\ made \in Nat \ {0} /\ reqBody \in Nat
    /\ reqOpen \subseteq Nat \ {0} /\ sent \subseteq Nat \ {0}
    /\ origCloses \in Nat
    /\ resp \in [present: BOOLEAN, id: Nat, live: BOOLEAN, status: Nat]
    /\ respOpen \subseteq Nat /\ twice \in BOOLEAN
    /\ err \subseteq Causes /\ errs \subseteq Causes

\* Over all retries, middleware calls and error paths no response body is
\* closed twice, and at most the body of the response in hand is open: the
\* loop disposes of every response it abandons (delivery.go 235-239, 270-274).
ResponseBodyOwnership ==
    /\ ~twice
    /\ respOpen \subseteq (IF resp.present /\ resp.live THEN {resp.id} ELSE {})

\* When a call is over for the caller - Send returned, SendStream failed, or
\* the stream was closed - no response body is open.
NoResponseBodyLeaks == pc = "returned" => respOpen = {}

\* What Send buffers, and what SendStream hands over, is the open body of the
\* last attempt (or of a middleware's own answer), never one the retry loop
\* has already drained.
DeliveredBodyIsLive ==
    pc \in {"buffer", "streaming"} =>
        /\ err = Nil
        /\ respOpen = {resp.id}
        /\ resp.id \in {0, attempts}

\* The context derived from Timeout is released on every way out of Send and
\* SendStream, and lives as long as the caller owns the stream.
DerivedContextReleased ==
    /\ pc = "returned" => derived # "held"
    /\ pc \in {"buffer", "streaming"} => derived = (IF b.timeout THEN "held" ELSE "none")

\* RetryPolicy.Max bounds the transport attempts of every call of the final
\* handler, across request-local overrides of the client's policy.
AttemptBudget == attempts <= calls * (retryMax + 1)

\* A middleware that answers without calling next leaves no request body
\* behind, whatever it did to req.Body, and the body made by openDelivery is
\* closed exactly once.
UndeliveredBodyClosed ==
    /\ origCloses <= 1
    /\ (pc \in {"result", "buffer", "streaming", "closing", "returned"} /\ calls = 0)
           => reqOpen = {}

\* A body the transport has been given is never given to it again: a retry
\* sends a fresh body or none.
NeverResendsBody ==
    [][attempts' # attempts => reqBody' \notin sent]_vars

\* Under DefaultRetryIf an attempt that failed because the caller canceled is
\* the last one of its handler call, whatever else the error carries.
CancellationIsFinal ==
    [][attempts' # attempts => b.custom \/ "canceled" \notin errs]_vars

\* StreamResponse.Close releases the request context before it closes the
\* body, so a body whose Close waits for the cancellation can finish.
CancelBeforeStreamClose ==
    [][(pc \in {"streaming", "closing"} /\ respOpen' # respOpen) => derived # "held"]_vars

\* Every request body is closed in the end, by the transport or by do(), when
\* no middleware takes it out of req.Body.
RequestBodiesEventuallyClosed == <>[](reqOpen = {})

\* How far the call is, as its caller sees it.
Phase ==
    IF pc = "returned" THEN "done"
    ELSE IF pc \in {"streaming", "closing"} THEN "owned" ELSE "inflight"

\* Delivery implements the resource contract of a call, step by step.
Contract == INSTANCE DeliveryContract WITH
    Budget <- MaxCalls * (MaxRetry + 1),
    stream <- b.stream,
    phase <- Phase,
    tries <- attempts,
    open <- respOpen # {},
    held <- derived = "held"

\* Every step of delivery is a step the contract allows, or none.
ImplementsContract == Contract!CSpec

\* And every call comes to its end, or to its owner, as the contract says.
ImplementsFairContract == Contract!CFairSpec

\* "deliveryBody preserves the original close obligation when middleware
\* replaces or wraps req.Body" (delivery.go 200): once the call is over and the
\* transport has closed all it was given, the body openDelivery made is closed.
OriginalBodyNotAbandoned ==
    (pc = "returned" /\ sent \cap reqOpen = {}) => 1 \notin reqOpen
=============================================================================
