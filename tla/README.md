# A verification project for go-requests

TLA+ models of the parts of `go-requests` in which several owners, goroutines
or failure paths meet, TLC configurations that check them on small instances,
and TLAPS proofs that lift the results to every size. Paths are relative to the
repository root, `src/`.

## 1. The system

`go-requests` is a client library around `net/http`. A `Client` keeps defaults
(base URL, headers, cookies, codecs, middleware, retry policy, redirect
policies, transport). A `RequestBuilder` collects one request on top of them;
`Send` and `SendStream` compile both into an immutable snapshot, open a body,
run the middleware chain around a retry loop over `http.Client.Do`, and return
a buffered `Response` or a `StreamResponse` that the caller owns.

| Component | State | Operations | What is hard |
|---|---|---|---|
| delivery (`delivery.go`) | snapshot, derived context, request bodies, response in hand, attempt counters | `Send`, `SendStream`, `openDelivery`, `do`, `resetRequestBody`, `drainAndCloseBody` | who closes which body after retries, middleware answers and partial failures; the timer racing the context; asynchronous closes by the transport |
| retry policy (`retry.go`, `errors.go`) | none; the loop's timer | `DefaultRetryIf`, `normalize`, `delay`, backoff strategies, `Retry-After` | errors with several causes; Durations that overflow; a date that comes nearer while the answer is drained |
| stream response (`stream_response.go`) | `closeOnce`, `closeErr`, `cancel` | `Close`, `Lines`, accessors | concurrent Close; Close that waits for the context |
| response buffering (`response.go`, `pool.go`) | pooled buffers, owned bytes | `newResponse`, `bufferBody` | shared buffers between calls; limits at their boundary |
| multipart (`multipart.go`) | pipe, producer goroutine, replay buffer | `reader`, `writeTo`, `limitWriter.Write` | a producer left behind; a truncated body taken for a whole one; a byte limit that a write exceeds in part |
| redirect (`redirect.go`, `client.go`) | policy list | `Apply`, `setRedirectPolicy` | headers over chains of hops; limits |
| request builder, plan, metadata (`request*.go`, `ordered_headers.go`, `body.go`) | builder fields, compiled plan | setters, `resolveRequestURL`, `compileRequestPlanSnapshot`, `buildDeliveryBody` | precedence of client and request settings; last body wins; detached copies |
| request preparation and preview | frozen preparations | `Prepare`, `Preview` | a second compilation of headers and query that has to agree with the first; disclosure |
| client configuration (`client.go`, `client_option.go`, `profile.go`, `adapter.go`) | settings under a lock | `New`, `Clone`, `snapshot`, `AsHTTPClient`, options | copies of pointers and slices that share state; concurrent use |
| transport and TLS (`transport.go`, `tls.go`) | `*http.Transport`, `*tls.Config`, dial settings, managed handshake | `ensureTransport`, `cloneHTTPClient`, `bindTLSHandshake`, `setTransportTLSConfig` | options that write in place; closures over the wrong transport; an order of options that loses HTTP/2 |
| proxy selection (`proxy.go`) | an atomic counter in a closure | `RoundRobinProxies`, `setProxy` and its like | concurrent attempts; the counter's range |
| codecs, auth, logger, profiles, bundled middlewares | none | – | stateless, or the behaviour of a library |

Interactions: delivery calls the retry policy's functions, caller-supplied
middleware and `http.Client.Do`. The transport reads and closes request bodies
on goroutines of its own, also after `Do` has returned; a streaming multipart
body adds a producer goroutine behind the body the transport reads. `net/http`
calls back into the redirect policies. `bufferBody` runs concurrently with that
of every other call over one buffer pool. A stream's `Close` may be called from
any goroutine. Goroutines may build clients from a common base by `Clone` while
the base dispatches requests; all attempts of all calls of a client take their
proxies from one rotation.

## 2. Modules

| Module | Models | Composed with |
|---|---|---|
| `RetryPolicy` | `DefaultRetryIf`, error predicates, `normalize`, policy override | extended by `Delivery` |
| `Delivery` | one `Send`/`SendStream` call | implements `DeliveryContract` |
| `DeliveryContract` | what a call promises about its resources, without a mechanism | abstract |
| `ResponseBuffer` | concurrent `bufferBody` over the pool | – |
| `StreamResponse` | concurrent `Close` | – |
| `MultipartBody` | producer, pipe, transport; replay buffer | – |
| `Redirect` | policies and header stripping over a chain | – |
| `Subsequences` | parts of a sequence picked by their places, and sums, in a form that can be reasoned about | extended by `OrderedHeaders` |
| `OrderedHeaders` | ordered objects and the header maps they go with, as operators | extended by `RequestBuilder` |
| `RequestBuilder` | client defaults and builder calls; the plan; the request that is sent | – |
| `RequestProjection` | `Preview` and `Prepare` of the same builder | extends `RequestBuilder` |
| `RequestTarget` | path, parameters and query of the same builder; the URL; what `Prepare` shows of it | extends `RequestProjection` |
| `RetryTiming` | retries by the clock, backoff, `Retry-After`, proxy rotation | extends `RetryPolicy` |
| `ClientConfig` | clients, clones, exports and snapshots as pointers in a heap | implements `ClientValues` |
| `ClientValues` | clients as values | abstract |
| `MCDelivery`, `MCResponseBuffer`, `MCMultipartBody`, `MCRedirect`, `MCRequestBuilder`, `MCRetryTiming`, `MCClientConfig` | constants for TLC | |
| `DeliveryProofs`, `ResponseBufferProofs`, `StreamResponseProofs`, `MultipartBodyProofs`, `RedirectProofs`, `RequestBuilderProofs`, `RetryTimingProofs`, `ClientConfigProofs` | the proofs | |

An operator called `X_Y`, just before `X`, is `X` with a plausible mistake `Y`
in it. No specification uses these; they are put in the place of `X` to see
that the properties notice.

### Delivery

`pc` follows the delivery goroutine: `compile`, `open` (openDelivery),
`chain`/`route` (middleware on the way in), `attempt`/`do`/`decide`/`backoff`
(the retry loop), `unwind` (middleware on the way out), `finish` (the end of
`do()`), `result` (back in `Send`/`SendStream`), `buffer`, `streaming`,
`closing`, `returned`.

* An error is the set of causes `errors.Is`/`errors.AsType` would find;
  `errors.Join` is union. Text, logging and URL sanitizing are left out.
* Request bodies are numbered in the order they come into being; 1 is the one
  openDelivery made. `reqOpen` holds those nobody has closed, `sent` those the
  transport has been given. `deliveryBody`'s `sync.OnceValue` shows in
  `CloseRequestBodies`: `origCloses` counts the closes that reach body 1.
* Response bodies are named by the attempt that produced them, 0 for an answer
  of middleware itself. `resp.live` is false once `http.NoBody` is in the
  response. `twice` records a second close.
* The loop of `do()` is `StartAttempt` (with `resetRequestBody`), `ResetFails`,
  the three outcomes of `Do`, `StopRetrying`, `NotReplayable`, `CleanUp` (with
  `drainAndCloseBody`), and the two arms of the `select`, `TimerFires` and
  `CanceledInBackoff`. With both channels ready Go takes either, and so does
  the model: an attempt may start on a context that is already done.
* The second `http.NewRequestWithContext` of openDelivery repeats a call that
  succeeded with the same method and URL; its error path is unreachable and is
  not modelled.
* Middleware is caller code. It may keep, replace or clear `req.Body` of the
  request it passes on, answer by itself with any mix of response and error,
  close the body, add an error to a response, and call next again. In the last
  case it is assumed to obey `net/http`'s rules for callers: it disposes of the
  response it drops and restores the body from `GetBody`. A middleware may also
  clone the request and change the clone's body: `do()` cannot see that body,
  which is the middleware's own concern.
* The transport closes each body it was given, at any later time
  (`TransportClosesBody`), as `http.RoundTripper` demands.

### ResponseBuffer

`heap` maps each pooled buffer and each call's own slice to its bytes, so that
`r.body = buf.B` and `bytes.Clone(buf.B)` differ. Each body has a size, a
declared length that need not agree, a limit and a point at which reading
fails. `ReadByte`, `ReadEnds` and `Probe` are `ReadFrom` over `LimitReader` and
the `CopyN` of one byte; a read of several bytes is several `ReadByte` steps.
The deferred close and put run last, in that order.

### StreamResponse

The `sync.Once` is `once`: new, the goroutine that runs, or done. `Skip` waits
for done. The transport's body may fail to close and may wait for the end of
the request context.

### MultipartBody

A body is a sequence of writes. In streaming mode `Write` parks the producer in
the pipe until the transport reads or closes; in replay mode it goes through
`limitWriter`. As in the code the limit is in bytes: the constant `Length` gives
the bytes of every write of every body, `wrote` counts those in the buffer, and
a write is refused whole when it would go beyond the limit, also when the buffer
is below it. A form field is two writes, its header (`WriteField`) and its value
(`WriteValue`), so that a body can be refused between them. A part is sound, refused for its metadata, or
breaks while it is read. The producer writes the closing boundary even after a
failed part (`multipartWriter.Close` runs in any case); only `CloseWithError`
tells the transport. What a complete body is does not refer to the producer:
it is given by its first write and, for each write but the closing boundary, by
the write that follows it (`Following`); `Bytes` sums the lengths of a sequence
of writes, independently of `wrote`.

### Redirect

Hosts are written names with two given functions, lower case and IDNA form.
`net/http` may or may not copy the sensitive headers to a hop (its own rules
are external), and the callback strips them. Every list of policies is tried.

### OrderedHeaders, RequestBuilder, RequestProjection

`client` and `request` each hold headers, an ordered object, cookies and an
auth method; `body` is the selected `requestBodyPlan`. One action stands for
each option and each setter; setters that only differ in the plan they pass to
`selectBody` are `SetBody`, over the set `Bodies`. An `Option` is a function on
a `*Client` and may be applied to a client in use, so options and builder calls
interleave. The compiled plan and the sent request are functions of that state:
`PlanHeaders`, `PlanOrdered` and `PlanCookies` are
`compileRequestPlanSnapshot`, `DeliveredBody`, `DeliveredHeader` and
`DeliveredOrdered` are `buildDeliveryBody` and `applyPlanAuthAndHeaders`. The
exits that send nothing are functions too, `PreviewErr`, `PreviewHeader`, ...,
`PrepareErr`, `PreparedHeaders`, ...: neither changes builder or client.

* A key is a name and a spelling; keys with one name are `EqualFold`.
* A header text is a sequence of parts. Ordinary texts have one part, a text
  with an empty sequence is the empty string, a `Cookie` header has a part for
  each cookie, a multipart type its boundary.
* Header occurrences are grouped by name: nothing depends on their order across
  names. `Headers` takes maps with one entry, of which a larger map is a
  sequence. Pseudo-headers occur in ordered objects only, which is the only
  place where they have a meaning.
* Authorization and Proxy-Authorization carry credentials
  (`isCredentialRequestHeader`): the plan makes their values private and
  `Prepare` withholds them, even when the caller tagged them public.
* Cookie names are valid, and the context given to an exit is live.
* What encoders, readers and multipart sources do is a field of the body plan:
  `source`, and for multipart whether its configuration, its parts and their
  metadata are sound, whether it can be replayed and fits its limit.
* Form fields have a length as written and one as encoded, which is all
  `Prepare`'s budget sees of them.
* Removals are written with `Keep(s, I)`, what `s` has at the places in `I`,
  and not with `SelectSeq`; loops that build a value step by step
  (`cloneEntries`, `overrideEntries`, `Total`) are recursive functions on
  0..Len. A fact about every set of places, or about every step of such a
  function, can be stated and proved once; one about every predicate cannot.
* `SpoilAuth` is a caller that empties an auth value behind the pointer it
  passed to `Auth`.

### RequestTarget

Base URL, path template, path parameters and query occurrences of the same
builder; its calls share the bounds of the others and interleave with them. A
template is its parts, scheme, authority, path and query, each a sequence of
tokens: texts, slashes and placeholders. A placeholder left in scheme or
authority is refused by `url.Parse` (`Unparsable`). `Resolved` replaces a placeholder and remembers whether what
stands there now is public. `SentPath` and `SentQuery` are `resolveRequestURL`;
`compileQueryOccurrences`, `basePathPrivate`, `TargetPreparable` and
`PathShown` are what the plan and `Prepare` compute beside it. A template may
have a query that does not parse: the two compilations refuse it under
different conditions, and `PreparedTargetIsSent` says exactly when they differ
(a relative URL without a base, which cannot be sent in any case). Method
names are passed through and left out; fragments and userinfo are never shown.

### RetryTiming

Calls of one client, each at `select` (counter addition), `index` (use of its
result), `sent`, `answered`, `wait` or `done`. Time is in ticks. `Wrap` is the
wrap-around of a `time.Duration`; `Converted` is the conversion of a float64
that may not fit, for which Go promises no value and amd64 and arm64 give
different ones. Strategies return sets of delays because of jitter, which may be
any rounding in its interval. `retryAfterDelay` reads the clock when the timer
is started, after the answer was drained: `arrived` and `now` differ by then.
`wraps` counts the wraps of the rotation's counter, which the code does not
keep. That `Delivery` sees only a timer that fires, and `RetryTiming` only the
loop's decisions, is the division between the two modules.

### ClientConfig, ClientValues

Transports, TLS configurations and the arrays behind slices are objects of a
heap with numbers; a client, an export and the caller hold numbers. An option
that writes in place changes the object, an option that clones allocates one, so
that a missed clone shows as sharing. `Install` is the common shape of the
options that go through `ensureTransport`: make the transport if there is none,
change it, and write or replace its config. `hook` is `DialTLSContext`, with the
callback and the transport its closure reads (`bound`). `AppendTo` may leave
room in the array it makes, as Go's `append` does, and `Filtered` is the
in-place filter of `deleteHeaders` and `deleteCookies`.

`New` and `Clone` apply options one at a time, and other goroutines' steps may
come in between; a failing option or `validate` discards the client. An `Option`
is a function on a `*Client`, so it may also be applied to a client in use, under
its lock; a rejected one then leaves the client as it is, but for a bad
certificate, which is found after `ensureTransport` has made a transport
(`RefuseRootCAs`). `WithHTTPClient` takes an `http.Client` with any transport,
standard, nil or of another type, and any jar. Requests take a snapshot in two
steps, the slices and then the other fields; `Lock` keeps options out in between,
and without it a request could get the defaults of one configuration with the
base URL of another. Owners may edit what is theirs: the caller its transport and
config, an export, or a client through `UnsafeHTTPClient`. An export is not
given back to `WithTransport` or `WithHTTPClient`: its handshake closure stays
bound to the export then, which the library says it cannot repair
(`adapter.go:11`, `SPECS/20-client-api-specs.md:215`).

`ClientValues` has no pointers. Its one idea is that a step changes one holder,
and there one setting, or copies one holder to another; `TakesClient`
(`WithHTTPClient`) replaces the network settings and the jar together and nothing
else. A request takes the settings of one holder in one step, and they stay. `limit` stands for seven transport fields, `name` for three TLS fields,
`defaults` for three slices: each is written by options of one form.

## 3. Runs

| Run | Asks | Bounds | Result |
|---|---|---|---|
| `delivery_safety` | ownership of bodies and contexts, attempt budget, no resend, cancellation, refinement of the contract | 2 retries, 2 handler calls, 2 statuses, 3 transport errors, all body swaps | holds, 3.2 M states |
| `delivery_live` | every call ends or hands over; bodies get closed | 2 retries, 1 handler call, bodies kept | holds |
| `delivery_abandoned` | the original body is closed when middleware swaps it and calls next | 1 retry, 1 call | violated, see 6 |
| `response_buffer` | isolation, limits, outcome, resources | 2 calls, 2 buffers, 3 bytes, symmetry of calls and of buffers | holds, 4.6 M states |
| `stream_close` | one close, one error, no deadlock | 3 goroutines, 2 calls each | holds |
| `multipart` | EOF means complete; buffer exact; both ends stop | 2 fields, 2 parts, 2 chunks, limits to 16 bytes, 3 bodies with different lengths | holds, 145 k states |
| `redirect` | headers stay at their origin | 2 hops, 2 policies, 4 hosts | holds |
| `request_headers` | the ordered object mirrors the headers; one owner of Content-Type; precedence of layers; cookies; metadata for the transport; the target that `Prepare` shows | 2 options, 3 builder calls, 4 header names in 2 spellings, 2 base URLs, 5 templates | holds, 450 k states |
| `request_exits` | what `Preview` and `Prepare` say is what `Send` does; disclosure; budget | 1 option, 3 builder calls, 22 body plans, budgets -1 to 20, 5 header names | holds, 234 k states |
| `client_config` | nothing shared; handshakes bound to their own transport; HTTP/2 kept; refinement of `ClientValues` | 2 clients, 1 export, 1 request, 2 options or edits, 2 kinds of default transport, symmetry of clients | holds, 227 k states |
| `retry_timing` | `Retry-After`, balance of the rotation, growth of backoff | 2 calls, 3 proxies, counter of 4, Durations -8 to 7, 5 ticks, symmetry of calls | holds, 1.6 M states |
| `backoff_overflow` | backoff grows for every attempt | 1 call, 4 retries | violated, see 6 |

Why the bounds are enough. Two retries give a first, a middle and a last
attempt; two handler calls let middleware retry after the loop has. One status
and one error stand on each side of what `DefaultRetryIf` tells apart, and one
error carries a cancellation together with a retryable cause. Limits 0 to 3
with sizes 0 to 3 contain no limit, and a body below, at, one byte and two
bytes above it. A complete
multipart body of the run has at most 16 bytes, so that limits up to 16 are
below, at and above the smaller ones; its writes have zero to three bytes, so
that a write can begin below the limit and end at it or beyond. Two hops make the hop before different from the first
request. Three builder calls can select a body, take its header over and
replace it, or activate an ordered object, change a name in another spelling
and delete it; two options give the client both an ordered object and a later
change or an auth method. A budget of 20 exceeds every form that three calls
can build; `Budgets` is a constant, and any integer may be in it. Two options
separate what a clone inherits from what is done to it,
one option with one edit by an owner is enough to see a shared object
change, and one option during a snapshot to see it torn; longer sequences are covered by the proofs. Durations of four bits
overflow within the three retries of a policy, and a counter of two bits does
not divide by three proxies and wraps around several times. For safety the proofs below remove the bounds of `Delivery`,
`ResponseBuffer`, `StreamResponse`, `MultipartBody`, `Redirect`,
`RequestBuilder`, `RequestProjection`, `RequestTarget`, `ClientConfig` and
`RetryTiming` (but for `ImplementsValues`).

No run checks for deadlock: a call that has returned, a stream whose owner does
not close it, a producer that has ended have no further step, and that is how
these programs stop. The liveness properties say what must not hang.

Fairness. `Delivery`: the goroutine runs, an armed timer fires, middleware
returns, and the transport answers `Do` and closes what it was given; a
transport without timeout that never answers is outside the library's reach, so
this is an assumption about the environment. Nothing makes the caller cancel or
close a stream; a `Close` that has begun goes on. `StreamResponse`: a goroutine
inside `Close` runs on; nobody has to call it, and a body whose close waits for
a context without a cancel function may wait for ever (`CloseReturns` excludes
that case). `MultipartBody`: both goroutines run, the transport reads on until
it closes the body, and a part's reader returns from `Read`: the library cannot
interrupt a borrowed reader. `RetryTiming` and `ClientConfig` state safety only.

## 4. Proofs

All theorems are checked by TLAPS to the last leaf. They rest only on the named
assumptions about constants (`DeliveryAssumption`, `BufferAssumption`,
`StreamAssumption`, `MultipartAssumption`, `RedirectAssumption`, `BuilderAssumption`,
`BudgetAssumption`, `TargetAssumption`, `TimingAssumption`, `ConfigAssumption`):
bounds and the lengths of writes are naturals, sets have the shape the model uses, there are finitely many
calls. `BuilderAssumption` also says what the code fixes about its inputs: a
header name has no colon, the methods of the package set Authorization, a setter
that generates a media type has one of its own, only `SizedReader` gives a
length, and encoding a form field does not shorten it. TLC evaluates them in
every run.

* `DeliveryProofs`. The safety properties are not inductive: that a finished
  call leaves nothing open depends on what can be open at each earlier point.
  `IInv` says so point by point: nothing exists before the chain (`EarlyInv`);
  the loop index against the counters, with `Spent(c)` for the handler calls
  behind (`CountInv`); between attempts no response body is open, and later
  exactly the one in hand (`ResponseInv`); the derived context is held from
  `open` until a way out (`ContextInv`); the transport has seen only earlier
  bodies and the original closes at most once (`RequestInv` and the rest).
  There is a lemma for each action. From `IInv` follow the type invariant, the
  six safety invariants, the three action properties, and `Refinement`: each
  step maps to a step of `DeliveryContract` or to a stutter.
* `ResponseBufferProofs`. `IInv` says that a buffer has one holder, that the
  holder's bytes are its own up to `got`, and how `taken`, `got` and the limit
  are related at each point; isolation of a finished `Response` follows because
  its slice is nobody's buffer.
* `StreamResponseProofs`. `OnceInv` ties the state of the Once to the body, the
  kept error and the goroutines that can be past it.
* `MultipartBodyProofs`. The properties speak of finished bodies; `IInv` speaks
  of every moment. `Written` is what has been taken, the write in the pipe
  included, and `Upcoming` the write at the producer's cursor; `ContentInv` says
  that, as long as nothing has failed, `Written` is the beginning of a body and
  `Upcoming` follows it. Each write extends it by one (`Extended`,
  `ContentWrite`), into the pipe or the buffer alike, and a body that is
  continued by the closing boundary is whole (`Complete`). `ModeInv` and
  `CursorInv` say where an error can exist and where the cursor is; `LateInv`
  says that after a late read the producer waits in the pipe or is past `writeTo`.
  `LimitInv` says that `wrote` is `Bytes` of the buffer, within the limit, and
  that a refused write is the next one of the body and does not fit (`LimitKept`,
  `LimitRefused`). `Bytes` is a recursive function: `SumsExist` and `SumsAgree`
  show by induction over a set of naturals that it exists and what it computes,
  `BytesAppend` that a write adds its length.
* `RedirectProofs`. By induction on the chain: each hop is compared with
  `via[1]`, which never changes; each admitted hop was admitted by all policies.
* `RequestBuilderProofs`. All twelve properties of a request, for requests of
  any size. The invariant `RequestInv` has three parts. `BuilderInv`: the types;
  every header of client and request has in an active ordered object one entry
  with its values, or none when it has none (`InSync`); the client's values
  are private; and what a selected body can be. `OwnershipInv`: the
  shapes and `GeneratedTypeIsSole`, inductive because every call that changes
  the Content-Type also takes the mark `generatedContentType` away, except
  `selectBody`, which writes both. `TargetInv`: the types of path, parameters
  and query. The rest is about the functions that compile such a state:
  - Sequences. `SetInduction` is induction for a set in the place of a
    predicate, from the library's `WFMin`; `Recursion` uses it once to show that
    a recursive function on 0..n exists and unfolds, and `Keep`, `FlattenSeq`,
    `Total`, `cloneEntries` and `overrideEntries` are instances of it.
    `Places` is the only increasing list of its set (`ListsUnique`), from which
    the laws of `Keep`, and of `Sub` (what a sequence has in a set), follow.
  - Ordered objects. With one entry for each name a copy is the object itself
    (`CloneSame`), and the names after a merge are those of the base that
    are not overridden, then those of the override (`MergedNames`).
  - Layers. `DeliveredIs` gives every header that is sent as one case
    distinction; `LaterLayerTheorem` compares it with the precedence.
    `MergeFour` gives the cookies as four parts, each without the names of the
    later ones.
  - Order. `CompiledIs`, `PlanOrderedIs`, `TypedIs` and `DeliveredOrderedIs`
    give the names at each stage as a `Sub` of the stage before;
    `WantedStays` says that none of these sets lacks a name the request asked
    for, hence `OrderedIntentTheorem`.
  - Projections. `Preview` and `Prepare` are compared with the same case
    distinctions, header by header; `RawIsLeast` bounds the early estimate of a
    form by its encoded length, `NamedJoined` and `HidesTail` compare the two
    compilations of the query, `JoinedPath` and `PathTokensPublic` the path.

  `ReplacedTypeTheorem` follows with `KindLemma`: only `selectBody` changes the
  kind of a body. The provers do not know that a literal such as `"none"` is a
  string, so the types are over `Words`, strings together with these literals.
* `ClientConfigProofs`. `NothingShared` alone is not inductive: a new object
  must differ from all that are in use (`Allocated`), and a copy whose handshake
  is not managed must not carry a closure over its original (`Unbound`). The
  argument is by holder: every step changes the network settings of at most one
  of them and gives it objects that were its own or are new (`OneHolder`), and
  that preserves every part of `NetInv` (`OneHolderPreserves`); each action is
  then shown to be such a step, by `CopyStep`, `InstallStep`, `LocalStep` or
  `EditStep`. Slices go the same way with `OneSlice`.
* `RetryTimingProofs`. For `RetryAfterHonored`: `AfterInv` says that an answer
  arrived in the past and that a waiting call wakes at or after the instant that
  was asked for. For `RotationBalanced`: the number of values below k that are i
  modulo N is `Tickets(i, k)`; `RotationInv` says that the picks of proxy i and
  the calls that hold a ticket for it are together the tickets given out, wraps
  included. Two residues differ by at most one in each range, hence the bound.
  For `BackoffGrows`: `BackoffInv` says that the delay a call keeps is one the
  strategy gives for the attempt before. `Pow` is a recursive function, since
  the provers know nothing of `^`; `PowersExist` and `PowStep` show what it
  computes, by induction over a set of naturals (`SetInduction`, from the
  library's theorem on minimal elements, which takes no predicate).
  `FactorGrows` is then the growth of a quotient of powers, and below the
  overflow neither the conversion nor the product wraps around (`PlainDelay`).

Only model-checked: `ImplementsValues`, whose mapping reads slices off the heap;
liveness (`ImplementsFairContract`, `RequestBodiesEventuallyClosed`, `CloseReturns`,
`BothEnd`), which this prover does not handle.

## 5. Not modelled

Formatting, logging, diagnostics and URL sanitizing; codecs and decoding;
`StreamResponse.Lines`; the target and query names of `Preview`, which are read
off the resolved URL; the matching of proxy bypass lists and the checks on
proxy URLs, pure functions of strings; the random proxy choice; the internals of
`net/http`, `crypto/tls`, `io.Pipe`, `sync.Once` and the buffer pool, which are
taken by their contracts; TLS, HTTP/3 and fingerprint profiles, which configure
libraries; the bundled middlewares, which are within the freedom `Delivery`
gives to middleware. `src/.references/` holds sources of other HTTP clients for
comparison: no package of the library imports them, and the repository's own
tools skip them (`.yamllint.yml:26`, `codegraph.json:3`, `.gitleaks.toml:8`).
The library itself has about 8,400 lines.

## 6. Where code and words differ

Shown by a run:

* `delivery_abandoned`. The comment on `deliveryBody` says it preserves the
  original close obligation when middleware replaces `req.Body`. `do()`
  discharges it only when no attempt was made. Middleware that replaces or
  clears the body and calls next leaves the original open; with a streaming
  multipart body the producer goroutine stays blocked.
* `backoff_overflow`. `ExponentialBackoffStrategy` multiplies two Durations and
  caps the product with `min`, which keeps a product that became negative; the
  retry then happens without a pause. One second doubled 34 times is enough,
  and a larger multiplier needs fewer attempts. `BackoffGrows` shows that the
  strategy is right as long as the product is a Duration.

Noted while modelling, and visible in the model:

* An ordered header with an empty list of values replaces the client's header of
  that name in `Send`, which overlays header maps, and not in `Preview`, which
  merges occurrences that have values (`request_plan.go:394`). `ContentType`
  then reports a type that is not sent. `PreviewHeadersSent` shows that this is
  the only such case.
* `AddHeader` of a Content-Type after a typed body setter takes the header over
  together with the value the body generated; a later `Bytes` leaves both,
  while `SPECS/21-request-builder-api-specs.md:629` says that it removes a media
  type generated by the body it replaces.
* `NewAllowRedirectPolicy(n)` "allows up to the specified maximum number of
  redirects" (`redirect.go:49`), but refuses the n-th, since `via` includes the
  first request. A test expects the behaviour of the code.
* `WithTransport` and `WithHTTPClient` discard the transport and the managed
  handshake, not the dial settings in the client: a later dial option brings
  the earlier ones back (`transport.go:135`), while
  `SPECS/20-client-api-specs.md:122` says that replacing the client discards
  earlier transport mutations.

## 7. Plan

Done in this order: `Delivery` with its contract, `ResponseBuffer`,
`StreamResponse`, `MultipartBody`, `Redirect`, `RequestBuilder` and
`RequestProjection`, then `ClientConfig` with its values, `RetryTiming` and
`RequestTarget`. Left:

1. `ImplementsValues` as a theorem: the invariants it needs are proved, the
   contents of slices are not yet part of them.
2. `Preview`'s target, and the bypass list of proxies as an operator over parsed
   hosts and networks.
