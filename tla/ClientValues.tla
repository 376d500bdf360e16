---------------------------- MODULE ClientValues ----------------------------
(***************************************************************************)
(* What client configuration promises: a client, an exported http.Client   *)
(* and a transport of the caller are values. One can be made from another, *)
(* and one setting of one of them can be changed; no step changes two of   *)
(* them, and no option changes a setting it is not about. What a request   *)
(* took with it when it was dispatched stays as it was.                    *)
(*                                                                         *)
(* A value has settings of its own, [base, jar, defaults], and network     *)
(* settings, a function on Settings. A client whose network settings have  *)
(* the kind "unset" has no transport: it uses http.DefaultTransport, and   *)
(* copies it when an option has to write.                                  *)
(***************************************************************************)
CONSTANTS Holders,   \* clients, exports and transports of the caller
          Requests,
          Default    \* the holder that stands for http.DefaultTransport

VARIABLES value,     \* holder -> [own, net]
          taken      \* request -> the base URL and the defaults at dispatch

TLSSettings == {"name", "roots", "cache"}
Settings == TLSSettings \cup {"kind", "limit", "proxy", "dial", "http2", "handshake"}

\* The network settings an option of x starts from.
Start(x) == IF value[x].net["kind"] = "unset" THEN value[Default].net ELSE value[x].net

Only(x) == taken' = taken /\ \A y \in Holders \ {x} : value'[y] = value[y]
OwnKept(x) == value'[x].own = value[x].own
NetKept(x) == value'[x].net = value[x].net
NetKeptBut(x, fields) == \A f \in Settings \ fields : value'[x].net[f] = Start(x)[f]

\* Options about the client itself, about one network setting, about TLS as a
\* whole, and WithSession.
ChangesOwn(x) == NetKept(x)
ChangesSetting(x) == OwnKept(x) /\ \E f \in Settings : NetKeptBut(x, {f})
ReplacesTLS(x) == OwnKept(x) /\ NetKeptBut(x, TLSSettings)
EnablesSession(x) ==
    /\ NetKeptBut(x, {"cache"})
    /\ value'[x].own = [value[x].own EXCEPT !.jar = value'[x].own.jar]
    /\ value[x].own.jar # "none" => OwnKept(x)
    /\ Start(x)["cache"] # "none" => NetKeptBut(x, {})

\* Clone, AsHTTPClient and WithTransport: the network settings become those of y.
Copies(x, y) ==
    /\ value'[x].net = value[y].net
    /\ value'[x].own \in {value[x].own, value[y].own, [value[x].own EXCEPT !.jar = value[y].own.jar]}

\* A client loses its transport, or takes one that only the caller knows.
Detached(x) == value'[x].net["kind"] \in {"unset", "custom"}
Detaches(x) == OwnKept(x) /\ Detached(x)

\* WithHTTPClient: what the caller's http.Client has replaces the network
\* settings and the jar together, and nothing else.
TakesClient(x) ==
    /\ value'[x].own = [value[x].own EXCEPT !.jar = value'[x].own.jar]
    /\ value'[x].own.jar \in {"none", "caller"}
    /\ Detached(x) \/ \E y \in Holders : value'[x].net = value[y].net

\* New, and a construction that fails.
Appears(x) == value[x].net["kind"] = "absent" /\ value'[x].net["kind"] = "unset"
Disappears(x) == value'[x].net["kind"] = "absent"

Changes(x) ==
    \/ ChangesOwn(x) \/ ChangesSetting(x) \/ ReplacesTLS(x) \/ EnablesSession(x)
    \/ Appears(x) \/ Disappears(x) \/ Detaches(x) \/ TakesClient(x)
    \/ \E y \in Holders : Copies(x, y)

Dispatches(r, x) ==
    taken' = [taken EXCEPT ![r] = [base |-> value[x].own.base, defaults |-> value[x].own.defaults]]

Next ==
    \/ \E x \in Holders : Only(x) /\ Changes(x)
    \/ value' = value /\ \E r \in Requests, x \in Holders : Dispatches(r, x)

\* Which values exist at first is for the implementation to say.
Spec == [][Next]_<<value, taken>>
=============================================================================
