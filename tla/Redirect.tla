------------------------------ MODULE Redirect ------------------------------
(***************************************************************************)
(* Redirect policies (redirect.go) and the CheckRedirect callback that     *)
(* setRedirectPolicy installs (client.go), over a chain of redirects that  *)
(* net/http follows. net/http is external: for every hop it copies the     *)
(* headers of the first request, or leaves the sensitive ones out.         *)
(***************************************************************************)
EXTENDS Integers, Sequences

CONSTANTS
    Hosts,       \* hostnames as they are written in URLs
    LowerOf,     \* strings.ToLower of a hostname
    ASCIIOf,     \* its IDNA form, "invalid" where there is none
    MaxAllowed,  \* bound: the argument of NewAllowRedirectPolicy
    MaxPolicies, \* bound: policies in one WithRedirectPolicy
    MaxHops      \* bound: redirects the servers answer with

ASSUME RedirectAssumption ==
    /\ LowerOf \in [Hosts -> Hosts]
    /\ ASCIIOf \in [Hosts -> Hosts \cup {"invalid"}]
    /\ MaxAllowed \in Nat /\ MaxPolicies \in Nat \ {0} /\ MaxHops \in Nat

URLs == [scheme: {"http", "https"}, host: Hosts, port: {"", "80", "443"}]

Policies ==
    [kind: {"prohibit"}] \cup [kind: {"allow"}, max: 0..MaxAllowed]
        \cup [kind: {"host"}, allowed: SUBSET {LowerOf[h] : h \in Hosts}]

VARIABLES
    policies, \* the arguments of WithRedirectPolicy
    via,      \* the requests sent so far: url, and whether sensitive headers
              \* went with it
    result    \* "sent", "answered", or the error of the policy that refused

vars == <<policies, via, result>>

Request(u, s) == [url |-> u, sensitive |-> s]

Init ==
    /\ policies \in UNION {[1..n -> Policies] : n \in 1..MaxPolicies}
    /\ \E u \in URLs : via = <<Request(u, TRUE)>>
    /\ result = "sent"

-----------------------------------------------------------------------------
effectivePort(u) ==
    IF u.port # "" THEN u.port ELSE IF u.scheme = "http" THEN "80" ELSE "443"

canonicalHostname(u) ==
    IF ASCIIOf[u.host] = "invalid" THEN "invalid" ELSE LowerOf[ASCIIOf[u.host]]

\* Two URLs without a canonical hostname are not the same origin.
sameOrigin(left, right) ==
    /\ left.scheme = right.scheme
    /\ canonicalHostname(left) # "invalid"
    /\ canonicalHostname(left) = canonicalHostname(right)
    /\ effectivePort(left) = effectivePort(right)

\* AllowRedirectPolicy.Apply; via holds the first request too. That it strips
\* the sensitive headers as well changes nothing: CheckRedirect does it again.
AllowApply(policy, sent) == IF Len(sent) >= policy.max THEN "tooMany" ELSE "ok"

HostApply(policy, u) == IF LowerOf[u.host] \in policy.allowed THEN "ok" ELSE "notAllowed"

Apply(policy, u, sent) ==
    CASE policy.kind = "prohibit" -> "disabled"
      [] policy.kind = "allow" -> AllowApply(policy, sent)
      [] policy.kind = "host" -> HostApply(policy, u)

\* CheckRedirect asks the policies in order until one returns an error.
Admits(u, sent) == \A i \in 1..Len(policies) : Apply(policies[i], u, sent) = "ok"

Refuses(i, u, sent) ==
    /\ Apply(policies[i], u, sent) # "ok"
    /\ \A j \in 1..(i - 1) : Apply(policies[j], u, sent) = "ok"

\* Compared with the request before, not with the first one.
keepsSensitive_PreviousHop(u, sent) == sameOrigin(u, sent[Len(sent)].url)

\* stripSensitiveHeadersOnRedirect(req, via[0])
keepsSensitive(u, sent) == sameOrigin(u, sent[1].url)

-----------------------------------------------------------------------------
\* A server answers with a Location that the policies refuse ...
RedirectRefused(u) ==
    /\ result = "sent" /\ Len(via) <= MaxHops
    /\ \E i \in 1..Len(policies) :
           Refuses(i, u, via) /\ result' = Apply(policies[i], u, via)
    /\ UNCHANGED <<policies, via>>

\* ... or allow, after net/http has copied the first request's headers.
RedirectFollowed(u, copied) ==
    /\ result = "sent" /\ Len(via) <= MaxHops
    /\ Admits(u, via)
    /\ via' = Append(via, Request(u, copied /\ keepsSensitive(u, via)))
    /\ UNCHANGED <<policies, result>>

Answered ==
    /\ result = "sent"
    /\ result' = "answered"
    /\ UNCHANGED <<policies, via>>

Next ==
    \/ \E u \in URLs : RedirectRefused(u)
    \/ \E u \in URLs, copied \in BOOLEAN : RedirectFollowed(u, copied)
    \/ Answered

Spec == Init /\ [][Next]_vars

-----------------------------------------------------------------------------
(* Properties.                                                             *)

\* Over any chain of redirects, sensitive headers of the first request go to
\* its own scheme, hostname and effective port only, also when a later hop
\* has the origin of a hop in between.
SensitiveStaysAtOrigin ==
    \A i \in 2..Len(via) : via[i].sensitive => sameOrigin(via[i].url, via[1].url)

\* Every policy of the list has admitted every hop that was followed,
\* whatever its place in the list.
PoliciesHold ==
    \A i \in 1..Len(policies) : LET policy == policies[i] IN
        /\ policy.kind = "prohibit" => Len(via) = 1
        /\ policy.kind = "allow" => Len(via) = 1 \/ Len(via) <= policy.max
        /\ policy.kind = "host" =>
               \A k \in 2..Len(via) : LowerOf[via[k].url.host] \in policy.allowed
=============================================================================
