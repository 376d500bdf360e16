---------------------------- MODULE ClientConfig ----------------------------
(***************************************************************************)
(* Clients under construction, their clones and exports (client.go,        *)
(* client_option.go, transport.go, tls.go, proxy.go, adapter.go,           *)
(* profile.go). Goroutines may construct clients from one base at the same *)
(* time, while the base dispatches requests. An Option is a function of    *)
(* the client: New and Clone apply it to a client that nobody else has,    *)
(* and it can be applied to one that is in use, so that its setter takes   *)
(* the client's lock.                                                      *)
(*                                                                         *)
(* *http.Transport and *tls.Config values live in a heap, because options  *)
(* write through pointers and copies may share what they point to; so do   *)
(* the arrays behind slices. Nil is the nil pointer, Custom a transport    *)
(* that is not an *http.Transport.                                         *)
(*                                                                         *)
(* limit stands for the timeouts and pool sizes set by applyTransport,     *)
(* proxy for the Proxy function, name for the values of a tls.Config that  *)
(* options overwrite (ServerName, Certificates, InsecureSkipVerify),       *)
(* roots for its certificate pool, which is a pointer too, jar for what an *)
(* http.Client has beside its transport (Jar, Timeout, CheckRedirect) and  *)
(* defaults for the slices of a client (middlewares, header and cookie     *)
(* occurrences), whose elements are cells: a name and who wrote it.        *)
(***************************************************************************)
EXTENDS Integers, Sequences

CONSTANTS Clients, Exports, Requests,
          Caller,         \* a transport of the caller that options are given
          Default,        \* http.DefaultTransport
          Handshakes,     \* callbacks given to WithTLSHandshake
          DialParts,      \* dialTimeout, resolver, localAddr
          Starts,         \* what the default and the caller's transport are at first
          MaxObjects,     \* bound on the objects of each kind in the heap
          MaxWrites       \* bound on the options applied and the owners' edits

Nil == 0
Custom == -1
Ids == 1..MaxObjects
Givens == {Caller, Default}
Holders == Clients \cup Exports \cup Givens

ASSUME ConfigAssumption ==
    /\ MaxObjects \in Nat /\ MaxObjects >= 2 /\ MaxWrites \in Nat
    /\ Caller # Default
    /\ Starts \subseteq [default : {1, Custom}, tls : {Nil, 1}, http2 : BOOLEAN]
    /\ Handshakes \cap {"none", "raw", "stray"} = {}
    /\ Clients \cap Exports = {} /\ Clients \cap Requests = {} /\ Givens \cap (Clients \cup Exports) = {}

VARIABLES client,      \* client -> its fields
          defaults,    \* client -> its slices
          export,      \* export -> the http.Client that AsHTTPClient returned
          given,       \* Caller, Default -> the transport
          request,     \* request -> the slice and URL in its snapshot
          transports, configs, arrays,   \* the heap
          nT, nK, nA,  \* objects of each kind that exist
          writes       \* options applied and edits made so far

heap == <<transports, configs, arrays, nT, nK, nA>>
vars == <<client, defaults, export, given, request, heap, writes>>

-----------------------------------------------------------------------------
\* The heap

\* A slice of Go: a prefix of an array that may be longer.
Cell(name, by) == [name |-> name, by |-> by]
NilSlice == [array |-> Nil, len |-> 0]
Content(a, s) == IF s.array = Nil THEN <<>> ELSE SubSeq(a[s.array], 1, s.len)

NoHook == [callback |-> "none", bound |-> Nil]
RawHook == [callback |-> "raw", bound |-> Nil]
NoDial == [kind |-> "none", parts |-> {}]
DefaultDial == [kind |-> "default", parts |-> {}]
H2 == {"h2", "http/1.1"}

NoConfig == [name |-> "none", roots |-> NilSlice, cache |-> "none", protos |-> {}]
BlankTransport ==
    [limit |-> 0, proxy |-> "env", dial |-> NoDial, http2 |-> FALSE, hook |-> NoHook, tls |-> Nil]

NoClient ==
    [status |-> "none", base |-> "empty", jar |-> "none", transport |-> Nil,
     handshake |-> "none", dialContext |-> FALSE, dialer |-> {}]
NoExport == [status |-> "none", jar |-> "none", transport |-> Nil]
NoRequest == [sent |-> FALSE, reading |-> {}, base |-> "empty", defaults |-> NilSlice]

\* c.mu.Lock: no snapshot holds the lock for reading.
Lock_Ignored(c) == TRUE
Lock(c) == \A r \in Requests : c \notin request[r].reading

\* An option may be applied to c.
Open(c) == client[c].status \in {"building", "live"} /\ Lock(c) /\ writes < MaxWrites

\* Room in the heap for the objects one operation makes.
Room == nT < MaxObjects /\ nK + 1 < MaxObjects /\ nA < MaxObjects

-----------------------------------------------------------------------------
\* Copies of transports

\* bindTLSHandshake: the hook reads the settings of the transport it is bound to.
bindTLSHandshake(id, callback) ==
    IF callback = "none" THEN NoHook ELSE [callback |-> callback, bound |-> id]

\* http.Transport.Clone copies the config with it.
ClonedConfig_Shared(t) == transports[t].tls
ClonedConfig(t) == IF transports[t].tls = Nil THEN Nil ELSE nK + 1

\* cloneHTTPClient: the copy, with number id, of transport t.
CopiedTransport_NotRebound(t, id, handshake) ==
    [transports[t] EXCEPT !.tls = ClonedConfig(t)]
CopiedTransport(t, id, handshake) ==
    [transports[t] EXCEPT
        !.tls = ClonedConfig(t),
        !.hook = IF handshake = "none" THEN @ ELSE bindTLSHandshake(id, handshake)]

CopiedConfigs(t) ==
    IF ClonedConfig(t) = Nil THEN configs
    ELSE [configs EXCEPT ![nK + 1] = configs[transports[t].tls]]
CopiedCount(t) == IF ClonedConfig(t) = Nil THEN nK ELSE nK + 1

\* The Transport of an http.Client is copied when it is an *http.Transport.
CopyTransport(t, handshake) ==
    IF t \in Ids
    THEN /\ transports' = [transports EXCEPT ![nT + 1] = CopiedTransport(t, nT + 1, handshake)]
         /\ nT' = nT + 1
         /\ configs' = CopiedConfigs(t)
         /\ nK' = CopiedCount(t)
    ELSE UNCHANGED <<transports, nT, configs, nK>>
Copied(t) == IF t \in Ids THEN nT + 1 ELSE t

-----------------------------------------------------------------------------
\* Construction: New or Clone, options one after the other, validate.

\* newClient
New(c) ==
    /\ client[c].status = "none"
    /\ client' = [client EXCEPT ![c] = [NoClient EXCEPT !.status = "building"]]
    /\ UNCHANGED <<defaults, export, given, request, heap, writes>>

\* slices.Clone
CloneSlice_Shared(s) == s
CloneSlice(s) == IF s.array = Nil THEN s ELSE [array |-> nA + 1, len |-> s.len]

CloneArray(s) == IF s.array = Nil THEN arrays ELSE [arrays EXCEPT ![nA + 1] = Content(arrays, s)]

\* Client.clone: fields are copied, slices cloned, the transport copied and
\* the managed handshake bound to the copy.
clone(b) == [client[b] EXCEPT !.status = "building", !.transport = Copied(@)]

Clone(c, b) ==
    /\ client[c].status = "none" /\ client[b].status = "live" /\ Room
    /\ client' = [client EXCEPT ![c] = clone(b)]
    /\ defaults' = [defaults EXCEPT ![c] = CloneSlice(defaults[b])]
    /\ CopyTransport(client[b].transport, client[b].handshake)
    /\ arrays' = CloneArray(defaults[b])
    /\ nA' = nA + 1
    /\ UNCHANGED <<export, given, request, writes>>

\* New and Clone return the error of an option or of validate: what the failed
\* option has already written belongs to a client that nobody gets.
Fail(c) ==
    /\ client' = [client EXCEPT ![c] = [NoClient EXCEPT !.status = "failed"]]
    /\ defaults' = [defaults EXCEPT ![c] = NilSlice]
    /\ UNCHANGED <<export, given, request, heap, writes>>

\* Client.validate
Valid(c) ==
    \/ client[c].base = "empty"
    \/ client[c].base = "http"
    \/ client[c].base = "scheme" /\ client[c].transport = Custom

Finish(c) ==
    /\ client[c].status = "building"
    /\ IF Valid(c)
       THEN /\ client' = [client EXCEPT ![c].status = "live"]
            /\ UNCHANGED <<defaults, export, given, request, heap, writes>>
       ELSE Fail(c)

-----------------------------------------------------------------------------
\* Options about the client itself

\* A nil or negative argument, a bad URL, certificate or profile. A client in
\* use stays as it is.
RejectOption(c) == client[c].status = "building" /\ Open(c) /\ Fail(c)

SetOwn(c, new) ==
    /\ client' = [client EXCEPT ![c] = new]
    /\ writes' = writes + 1

\* base is empty, an http or https URL, one of another scheme, or relative.
WithBaseURL(c) ==
    /\ Open(c)
    /\ \E base \in {"empty", "http", "scheme", "relative"} : SetOwn(c, [client[c] EXCEPT !.base = base])
    /\ UNCHANGED <<defaults, export, given, request, heap>>

WithCookieJar(c) ==
    /\ Open(c)
    /\ SetOwn(c, [client[c] EXCEPT !.jar = "caller"])
    /\ UNCHANGED <<defaults, export, given, request, heap>>

\* append: a value is written into the array of slice s when it has room; the
\* runtime may leave room for one more in an array that it has to make.
AppendTo(c, all, s, v) ==
    LET fits == s.array # Nil /\ s.len < Len(all[s.array])
    IN /\ IF fits
          THEN arrays' = [all EXCEPT ![s.array][s.len + 1] = v] /\ nA' = nA
          ELSE /\ \E spare \in {<<>>, <<Cell("free", "free")>>} :
                     arrays' = [all EXCEPT ![nA + 1] = Append(Content(all, s), v) \o spare]
               /\ nA' = nA + 1
       /\ defaults' = [defaults EXCEPT ![c] =
                           [array |-> IF fits THEN s.array ELSE nA + 1, len |-> s.len + 1]]
       /\ SetOwn(c, client[c])
       /\ UNCHANGED <<export, given, request, transports, configs, nT, nK>>

\* addMiddleware, addHeader, addCookie
WithMiddleware(c) ==
    Open(c) /\ Room /\ AppendTo(c, arrays, defaults[c], Cell("middleware", c))

\* setHeader, setDefaultCookie: what has the name is removed, in place, before
\* the value is appended.
Filtered(s, kept) ==
    IF s.array = Nil THEN arrays
    ELSE [arrays EXCEPT ![s.array] = kept \o SubSeq(@, Len(kept) + 1, Len(@))]

WithDefaultHeader(c) ==
    LET kept == SelectSeq(Content(arrays, defaults[c]), LAMBDA v : v.name # "header")
    IN /\ Open(c) /\ Room
       /\ AppendTo(c, Filtered(defaults[c], kept), [defaults[c] EXCEPT !.len = Len(kept)],
                   Cell("header", c))

-----------------------------------------------------------------------------
\* Options that replace the transport. The dial settings stay in the client.

\* setDefaultTransport: t is the caller's transport, Nil or Custom.
WithTransport(c) ==
    /\ Open(c) /\ Room
    /\ \E t \in {given[Caller], Nil, Custom} :
        /\ SetOwn(c, [client[c] EXCEPT !.transport = Copied(t), !.handshake = "none"])
        /\ CopyTransport(t, "none")
    /\ UNCHANGED <<defaults, export, given, request, arrays, nA>>

\* setHTTPClient: the whole http.Client is replaced, with whatever transport
\* and jar the caller's has.
WithHTTPClient(c) ==
    /\ Open(c) /\ Room
    /\ \E t \in {given[Caller], Nil, Custom}, jar \in {"none", "caller"} :
        /\ SetOwn(c, [client[c] EXCEPT !.transport = Copied(t), !.handshake = "none", !.jar = jar])
        /\ CopyTransport(t, "none")
    /\ UNCHANGED <<defaults, export, given, request, arrays, nA>>

-----------------------------------------------------------------------------
\* Options that write the transport

\* ensureTransport: a client without a transport gets a copy of
\* http.DefaultTransport; one that is no *http.Transport is an error.
Start(c) == IF client[c].transport = Nil THEN given[Default] ELSE client[c].transport
ensureTransport(c) == IF client[c].transport = Nil THEN nT + 1 ELSE client[c].transport
Ensured(c) ==
    IF client[c].transport = Nil THEN CopiedTransport(Start(c), nT + 1, "none")
    ELSE transports[client[c].transport]
EnsuredConfigs(c) == IF client[c].transport = Nil THEN CopiedConfigs(Start(c)) ELSE configs
EnsuredCount(c) == IF client[c].transport = Nil THEN CopiedCount(Start(c)) ELSE nK

\* The option leaves fields new in the client, the transport tr and, unless
\* place is Nil, the config cfg at place.
Install(c, new, tr, place, cfg) ==
    /\ SetOwn(c, [new EXCEPT !.transport = ensureTransport(c)])
    /\ transports' = [transports EXCEPT ![ensureTransport(c)] = tr]
    /\ nT' = IF client[c].transport = Nil THEN nT + 1 ELSE nT
    /\ configs' = IF place = Nil THEN EnsuredConfigs(c)
                  ELSE [EnsuredConfigs(c) EXCEPT ![place] = cfg]
    /\ nK' = IF place > EnsuredCount(c) THEN place ELSE EnsuredCount(c)
    /\ UNCHANGED <<defaults, export, given, request>>

InstallTransport(c, new, tr) == Install(c, new, tr, Nil, NoConfig)

CanWrite(c) == Open(c) /\ Room /\ Start(c) # Custom

\* ErrInvalidTransportType, which leaves a client in use as it is.
NoStandardTransport(c) ==
    client[c].status = "building" /\ Open(c) /\ Start(c) = Custom /\ Fail(c)

\* setProxy, setProxyWithBypass, setProxies, setProxySelector, setProxyFromEnv
\* and removeProxy, once the URLs have been verified
SetProxy(c) ==
    \E proxy \in {"none", "url", "env"} :
        InstallTransport(c, client[c], [Ensured(c) EXCEPT !.proxy = proxy])

\* applyTransport, with a function that sets a timeout or a pool size
SetLimit(c) == InstallTransport(c, client[c], [Ensured(c) EXCEPT !.limit = 1])

ApplyTransport(c) == CanWrite(c) /\ (SetLimit(c) \/ SetProxy(c)) /\ UNCHANGED <<arrays, nA>>

\* applyDialContextLocked
DialOf(context, parts) ==
    IF context THEN [kind |-> "context", parts |-> {}]
    ELSE IF parts = {} THEN NoDial ELSE [kind |-> "dialer", parts |-> parts]

\* applyDialContext, applyDialTimeout, applyResolver, applyLocalAddr
ApplyDial(c, context, parts) ==
    /\ InstallTransport(c, [client[c] EXCEPT !.dialContext = context, !.dialer = parts],
                        [Ensured(c) EXCEPT !.dial = DialOf(context, parts)])
    /\ UNCHANGED <<arrays, nA>>

WithDialOption(c) ==
    /\ CanWrite(c)
    /\ \/ \E on \in BOOLEAN : ApplyDial(c, on, client[c].dialer)
       \/ \E part \in DialParts, on \in BOOLEAN :
            ApplyDial(c, client[c].dialContext,
                      IF on THEN client[c].dialer \cup {part} ELSE client[c].dialer \ {part})

\* setTLSHandshake
WithTLSHandshake(c) ==
    /\ CanWrite(c)
    /\ \E callback \in Handshakes \cup {"none"} :
        InstallTransport(c, [client[c] EXCEPT !.handshake = callback],
                         [Ensured(c) EXCEPT !.hook = bindTLSHandshake(ensureTransport(c), callback)])
    /\ UNCHANGED <<arrays, nA>>

-----------------------------------------------------------------------------
\* TLS and HTTP/2

\* ensureHTTP2NextProtos writes into the config the transport has.
ensureHTTP2NextProtos(cfg) == [cfg EXCEPT !.protos = @ \cup H2]

\* setTransportTLSConfig with a config that is new
setTransportTLSConfig_ForgetsHTTP2(c, new, cfg) ==
    Install(c, new, [Ensured(c) EXCEPT !.tls = EnsuredCount(c) + 1], EnsuredCount(c) + 1, cfg)
setTransportTLSConfig(c, new, cfg) ==
    Install(c, new, [Ensured(c) EXCEPT !.tls = EnsuredCount(c) + 1], EnsuredCount(c) + 1,
            IF Ensured(c).http2 THEN ensureHTTP2NextProtos(cfg) ELSE cfg)

\* setTLSConfig: a clone of the caller's config, or nil.
WithTLSConfig(c) ==
    /\ CanWrite(c)
    /\ \/ setTransportTLSConfig(c, client[c], configs[transports[given[Caller]].tls])
       \/ Ensured(c).http2 /\ setTransportTLSConfig(c, client[c], NoConfig)
       \/ ~Ensured(c).http2 /\ InstallTransport(c, client[c], [Ensured(c) EXCEPT !.tls = Nil])
    /\ UNCHANGED <<arrays, nA>>

\* enableHTTP2Locked
WithHTTP2(c) ==
    LET tr == Ensured(c)
        place == IF tr.tls = Nil THEN EnsuredCount(c) + 1 ELSE tr.tls
        cfg == IF tr.tls = Nil THEN NoConfig ELSE EnsuredConfigs(c)[tr.tls]
    IN /\ CanWrite(c)
       /\ Install(c, client[c], [tr EXCEPT !.http2 = TRUE, !.tls = place], place,
                  ensureHTTP2NextProtos(cfg))
       /\ UNCHANGED <<arrays, nA>>

\* updateTLSConfigLocked: an update is made to a clone of the current config.
CurrentConfig(c) ==
    IF Ensured(c).tls = Nil THEN NoConfig ELSE EnsuredConfigs(c)[Ensured(c).tls]

\* insecureSkipVerify, setCertificates, setTLSServerName
UpdateTLS(c) ==
    /\ CanWrite(c)
    /\ setTransportTLSConfig(c, client[c], [CurrentConfig(c) EXCEPT !.name = "option"])
    /\ UNCHANGED <<arrays, nA>>

\* addRootCAs: the pool is cloned before a certificate is added to it.
GrownPool(roots) == [arrays EXCEPT ![nA + 1] = Append(Content(arrays, roots), Cell("cert", "option"))]
GrownRoots(roots) == [array |-> nA + 1, len |-> roots.len + 1]

\* A PEM without a certificate is refused when the transport exists already,
\* which a client in use keeps.
RefuseRootCAs(c) ==
    /\ CanWrite(c) /\ client[c].status = "live"
    /\ InstallTransport(c, client[c], Ensured(c))
    /\ UNCHANGED <<arrays, nA>>

AddRootCAs(c) ==
    /\ CanWrite(c)
    /\ LET roots == CurrentConfig(c).roots
       IN /\ arrays' = GrownPool(roots)
          /\ setTransportTLSConfig(c, client[c], [CurrentConfig(c) EXCEPT !.roots = GrownRoots(roots)])
    /\ nA' = nA + 1

\* enableSession: the jar only after the session cache
WithSession(c) ==
    /\ CanWrite(c)
    /\ setTransportTLSConfig(c,
            [client[c] EXCEPT !.jar = IF @ = "none" THEN "session" ELSE @],
            [CurrentConfig(c) EXCEPT !.cache = IF @ = "none" THEN "session" ELSE @])
    /\ UNCHANGED <<arrays, nA>>

-----------------------------------------------------------------------------
\* Use

\* AsHTTPClient
AsHTTPClient(e, c) ==
    /\ export[e].status = "none" /\ client[c].status = "live" /\ Room
    /\ export' = [export EXCEPT ![e] =
            [status |-> "live", jar |-> client[c].jar, transport |-> Copied(client[c].transport)]]
    /\ CopyTransport(client[c].transport, client[c].handshake)
    /\ UNCHANGED <<client, defaults, given, request, arrays, nA, writes>>

\* Client.snapshot, at the start of Send, SendStream, Preview and Prepare,
\* reads the client under its lock: what it keeps in slices is cloned, then
\* the other fields are read. The *http.Client is shared.
snapshot(r, c) ==
    /\ ~request[r].sent /\ request[r].reading = {} /\ client[c].status = "live" /\ Room
    /\ request' = [request EXCEPT ![r] =
            [sent |-> FALSE, reading |-> {c}, base |-> "empty", defaults |-> CloneSlice(defaults[c])]]
    /\ arrays' = CloneArray(defaults[c])
    /\ nA' = nA + 1
    /\ UNCHANGED <<client, defaults, export, given, transports, configs, nT, nK, writes>>

snapshotEnds(r, c) ==
    /\ c \in request[r].reading
    /\ request' = [request EXCEPT ![r] =
            [sent |-> TRUE, reading |-> {}, base |-> client[c].base, defaults |-> request[r].defaults]]
    /\ UNCHANGED <<client, defaults, export, given, heap, writes>>

\* Owners write what is theirs: the caller its own transport and its config,
\* an export, or a live client through UnsafeHTTPClient.
OwnerEdits(t) ==
    /\ t \in Ids
    /\ \/ /\ transports' = [transports EXCEPT ![t].limit = 2]
          /\ UNCHANGED configs
       \/ /\ transports[t].tls # Nil
          /\ configs' = [configs EXCEPT ![transports[t].tls].name = "edited"]
          /\ UNCHANGED transports
    /\ writes < MaxWrites /\ writes' = writes + 1
    /\ UNCHANGED <<client, defaults, export, given, request, arrays, nT, nK, nA>>

Edits ==
    \/ \E s \in Givens : OwnerEdits(given[s])
    \/ \E e \in Exports : export[e].status = "live" /\ OwnerEdits(export[e].transport)
    \/ \E c \in Clients : client[c].status = "live" /\ OwnerEdits(client[c].transport)

-----------------------------------------------------------------------------
\* http.DefaultTransport has the HTTP/2 defaults that http.Transport.Clone gives
\* it, or HTTP/2 is disabled, or it was replaced by a transport of another type.
\* The caller's transport has a TLS hook of its own and a certificate pool.
Init ==
    /\ client = [c \in Clients |-> NoClient]
    /\ defaults = [c \in Clients |-> NilSlice]
    /\ export = [e \in Exports |-> NoExport]
    /\ request = [r \in Requests |-> NoRequest]
    /\ \E start \in Starts :
        /\ given = [s \in Givens |-> IF s = Default THEN start.default ELSE 2]
        /\ transports = [t \in Ids |->
                CASE t = 1 -> [BlankTransport EXCEPT !.dial = DefaultDial, !.tls = start.tls]
                  [] t = 2 -> [BlankTransport EXCEPT !.limit = 3, !.proxy = "caller",
                                  !.http2 = start.http2, !.hook = RawHook, !.tls = 2]
                  [] OTHER -> BlankTransport]
        /\ configs = [k \in Ids |->
                CASE k = 1 -> [NoConfig EXCEPT !.protos = H2]
                  [] k = 2 -> [name |-> "caller", roots |-> [array |-> 1, len |-> 1], cache |-> "none",
                               protos |-> IF start.http2 THEN H2 ELSE {}]
                  [] OTHER -> NoConfig]
    /\ arrays = [a \in Ids |-> IF a = 1 THEN <<Cell("cert", Caller)>> ELSE <<>>]
    /\ nT = 2 /\ nK = 2 /\ nA = 1
    /\ writes = 0

Option(c) ==
    \/ RejectOption(c) \/ WithBaseURL(c) \/ WithCookieJar(c) \/ WithMiddleware(c)
    \/ WithDefaultHeader(c) \/ WithTransport(c) \/ WithHTTPClient(c) \/ NoStandardTransport(c)
    \/ ApplyTransport(c) \/ WithDialOption(c) \/ WithTLSHandshake(c) \/ WithTLSConfig(c) \/ WithHTTP2(c)
    \/ UpdateTLS(c) \/ AddRootCAs(c) \/ RefuseRootCAs(c) \/ WithSession(c)

Next ==
    \/ \E c \in Clients : New(c) \/ Option(c) \/ Finish(c)
    \/ \E c, b \in Clients : Clone(c, b)
    \/ \E e \in Exports, c \in Clients : AsHTTPClient(e, c)
    \/ \E r \in Requests, c \in Clients : snapshot(r, c) \/ snapshotEnds(r, c)
    \/ Edits

Spec == Init /\ [][Next]_vars

-----------------------------------------------------------------------------
\* Properties

TypeOK ==
    /\ client \in [Clients -> [status : {"none", "building", "live", "failed"},
                               base : {"empty", "http", "scheme", "relative"},
                               jar : {"none", "caller", "session"},
                               transport : Ids \cup {Nil, Custom},
                               handshake : Handshakes \cup {"none"},
                               dialContext : BOOLEAN, dialer : SUBSET DialParts]]
    /\ export \in [Exports -> [status : {"none", "live"}, jar : {"none", "caller", "session"},
                               transport : Ids \cup {Nil, Custom}]]
    /\ nT \in Ids /\ nK \in Ids /\ nA \in Ids

\* Where a holder's transport and its config are; Nil when it has none.
TransportOf(x) ==
    IF x \in Clients THEN client[x].transport
    ELSE IF x \in Exports THEN export[x].transport ELSE given[x]
ConfigOf(x) == IF TransportOf(x) \in Ids THEN transports[TransportOf(x)].tls ELSE Nil
ArrayOf(x) == IF x \in Clients THEN defaults[x].array ELSE request[x].defaults.array

\* Clients, exports and the caller never share a standard transport or a
\* tls.Config, and no client shares the array of a slice with another client or
\* with a request under way, whatever Clone, AsHTTPClient, snapshots and options
\* did before: options write all three in place (transport.go:112, tls.go:39,
\* request_metadata.go:179).
NothingShared ==
    /\ \A x, y \in Holders : x # y =>
        /\ TransportOf(x) \in Ids => TransportOf(x) # TransportOf(y)
        /\ ConfigOf(x) # Nil => ConfigOf(x) # ConfigOf(y)
    /\ \A x, y \in Clients \cup Requests : x # y /\ ArrayOf(x) # Nil => ArrayOf(x) # ArrayOf(y)

\* A managed TLS handshake (WithTLSHandshake) is bound to the transport of its
\* own client, so that it dials and shakes hands with that client's settings,
\* and an export that has one is bound to the exported transport.
HandshakeOwn ==
    /\ \A c \in Clients : client[c].handshake # "none" =>
          /\ client[c].transport \in Ids
          /\ transports[client[c].transport].hook
                = [callback |-> client[c].handshake, bound |-> client[c].transport]
    /\ \A x \in Holders : TransportOf(x) \in Ids =>
          transports[TransportOf(x)].hook.bound \in {Nil, TransportOf(x)}

\* A client that is in use and speaks HTTP/2 offers it in its TLS handshakes,
\* also after options replaced its TLS settings.
HTTP2Offered ==
    \A x \in Holders : TransportOf(x) \in Ids =>
        LET tr == transports[TransportOf(x)]
        IN tr.http2 => tr.tls # Nil /\ H2 \subseteq configs[tr.tls].protos

-----------------------------------------------------------------------------
\* The heap implements values.

Net(kind, tr, cfg, handshake) ==
    [f \in {"kind", "limit", "proxy", "dial", "name", "roots", "cache", "http2", "handshake"} |->
        CASE f = "kind" -> kind [] f = "limit" -> tr.limit [] f = "proxy" -> tr.proxy
          [] f = "dial" -> tr.dial [] f = "name" -> cfg.name
          [] f = "roots" -> Content(arrays, cfg.roots) [] f = "cache" -> cfg.cache
          [] f = "http2" -> tr.http2 [] f = "handshake" -> handshake]

NetOf(exists, t) ==
    IF ~exists THEN Net("absent", BlankTransport, NoConfig, "none")
    ELSE IF t = Nil THEN Net("unset", BlankTransport, NoConfig, "none")
    ELSE IF t = Custom THEN Net("custom", BlankTransport, NoConfig, "none")
    ELSE LET tr == transports[t]
             cfg == IF tr.tls = Nil THEN NoConfig ELSE configs[tr.tls]
             offered == tr.http2 /\ H2 \subseteq cfg.protos
         IN Net("standard", [tr EXCEPT !.http2 = offered], cfg,
                IF tr.hook.bound \in {Nil, t} THEN tr.hook.callback ELSE "stray")

OwnOf(r, s) == [base |-> r.base, jar |-> r.jar, defaults |-> Content(arrays, s)]

ValueOf(x) ==
    IF x \in Clients
    THEN [own |-> OwnOf(client[x], defaults[x]),
          net |-> NetOf(client[x].status \in {"building", "live"}, client[x].transport)]
    ELSE IF x \in Exports
    THEN [own |-> [base |-> "empty", jar |-> export[x].jar, defaults |-> <<>>],
          net |-> NetOf(export[x].status = "live", export[x].transport)]
    ELSE [own |-> [base |-> "empty", jar |-> "none", defaults |-> <<>>], net |-> NetOf(TRUE, given[x])]

Values == INSTANCE ClientValues WITH
    value <- [x \in Holders |-> ValueOf(x)],
    taken <- [r \in Requests |->
        [base |-> request[r].base,
         defaults |-> IF request[r].sent THEN Content(arrays, request[r].defaults) ELSE <<>>]]

\* Clients, exports and the caller's transports are values, although they are
\* made of pointers: every option changes one setting of the client it is
\* applied to and nothing else, every copy is independent of its original, and
\* a request takes the settings of one client as they are at one moment, which
\* then stay as they were.
ImplementsValues == Values!Spec
=============================================================================
