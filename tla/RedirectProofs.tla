--------------------------- MODULE RedirectProofs ---------------------------
(***************************************************************************)
(* Proofs about redirects, for chains of any length over any hosts, with   *)
(* any list of policies and whatever headers net/http copies.              *)
(***************************************************************************)
EXTENDS Redirect, TLAPS

Requests == [url: URLs, sensitive: BOOLEAN]

\* The list of policies is what WithRedirectPolicy was given.
PolicyInv == policies \in UNION {[1..n -> Policies] : n \in 1..MaxPolicies}

\* The first request of the chain never changes.
ChainInv == via \in Seq(Requests) /\ Len(via) >= 1

IInv == ChainInv /\ SensitiveStaysAtOrigin /\ PoliciesHold

-----------------------------------------------------------------------------
LEMMA InitIInv == Init => IInv
<1> SUFFICES ASSUME Init PROVE IInv
    OBVIOUS
<1>1. PICK u \in URLs : via = <<Request(u, TRUE)>>
    BY DEF Init
<1>2. Request(u, TRUE) \in Requests
    BY DEF Request, Requests
<1>3. via \in Seq(Requests) /\ Len(via) = 1
    <2>1. PICK r \in Requests : via = <<r>>
        BY <1>1, <1>2
    <2>. QED  BY <2>1
<1>4. SensitiveStaysAtOrigin
    BY <1>3 DEF SensitiveStaysAtOrigin
<1>5. PoliciesHold
    BY <1>3 DEF PoliciesHold
<1>. QED  BY <1>3, <1>4, <1>5 DEF IInv, ChainInv

\* What each kind of policy has said when Admits holds.
LEMMA AdmitsMeaning ==
    ASSUME NEW u, NEW sent, Admits(u, sent), NEW i \in 1..Len(policies)
    PROVE  /\ policies[i].kind # "prohibit"
           /\ policies[i].kind = "allow" => ~(Len(sent) >= policies[i].max)
           /\ policies[i].kind = "host" => LowerOf[u.host] \in policies[i].allowed
<1>1. Apply(policies[i], u, sent) = "ok"
    BY DEF Admits
<1>. QED  BY <1>1 DEF Apply, AllowApply, HostApply

\* A hop that is followed keeps all that holds of the chain before it.
LEMMA RedirectFollowedStep ==
    ASSUME IInv, PolicyInv,
           NEW u \in URLs, NEW copied \in BOOLEAN, RedirectFollowed(u, copied)
    PROVE  IInv'
<1> DEFINE hop == Request(u, copied /\ keepsSensitive(u, via))
<1>1. via' = Append(via, hop) /\ policies' = policies
    BY DEF RedirectFollowed
<1>2. hop \in Requests
    <2>1. (copied /\ keepsSensitive(u, via)) \in BOOLEAN
        BY DEF keepsSensitive, sameOrigin
    <2>. QED  BY <2>1 DEF Request, Requests
<1> HIDE DEF hop
<1>3. ChainInv'
    BY <1>1, <1>2 DEF IInv, ChainInv
<1>4. /\ Len(via') = Len(via) + 1 /\ via'[Len(via) + 1] = hop
      /\ \A k \in 1..Len(via) : via'[k] = via[k]
    BY <1>1, <1>2 DEF IInv, ChainInv
<1>5. hop.sensitive => sameOrigin(hop.url, via[1].url)
    BY DEF hop, Request, keepsSensitive
<1>6. hop.url = u
    BY DEF hop, Request
<1>7. Len(via) \in Nat /\ Len(via) >= 1
    BY DEF IInv, ChainInv
<1>8. SensitiveStaysAtOrigin'
    <2> SUFFICES ASSUME NEW i \in 2..Len(via'), via'[i].sensitive
                 PROVE  sameOrigin(via'[i].url, via'[1].url)
        BY <1>1 DEF SensitiveStaysAtOrigin
    <2>1. via'[1] = via[1]
        BY <1>4, <1>7
    <2>2. CASE i = Len(via) + 1
        BY <2>1, <2>2, <1>4, <1>5
    <2>3. CASE i \in 2..Len(via)
        BY <2>1, <2>3, <1>4 DEF IInv, SensitiveStaysAtOrigin
    <2>. QED  BY <2>2, <2>3, <1>4, <1>7
<1>9. PoliciesHold'
    <2> SUFFICES ASSUME NEW i \in 1..Len(policies)
                 PROVE  /\ policies[i].kind = "prohibit" => Len(via') = 1
                        /\ policies[i].kind = "allow" =>
                               Len(via') = 1 \/ Len(via') <= policies[i].max
                        /\ policies[i].kind = "host" =>
                               \A k \in 2..Len(via') :
                                   LowerOf[via'[k].url.host] \in policies[i].allowed
        BY <1>1 DEF PoliciesHold
    <2>1. Admits(u, via)
        BY DEF RedirectFollowed
    <2>2. policies[i].kind # "prohibit"
        BY <2>1, AdmitsMeaning
    <2>3. ASSUME policies[i].kind = "allow" PROVE Len(via') <= policies[i].max
        <3>1. ~(Len(via) >= policies[i].max)
            BY <2>1, <2>3, AdmitsMeaning
        <3>2. policies[i].max \in Nat
            BY <2>3, RedirectAssumption DEF PolicyInv, Policies
        <3>. QED  BY <3>1, <3>2, <1>4, <1>7
    <2>4. ASSUME policies[i].kind = "host", NEW k \in 2..Len(via')
          PROVE  LowerOf[via'[k].url.host] \in policies[i].allowed
        <3>1. CASE k = Len(via) + 1
            BY <3>1, <2>1, <2>4, <1>4, <1>6, AdmitsMeaning
        <3>2. CASE k \in 2..Len(via)
            BY <3>2, <2>4, <1>4 DEF IInv, PoliciesHold
        <3>. QED  BY <3>1, <3>2, <1>4, <1>7
    <2>. QED  BY <2>2, <2>3, <2>4
<1>. QED  BY <1>3, <1>8, <1>9 DEF IInv

LEMMA NextIInv == PolicyInv /\ IInv /\ [Next]_vars => (PolicyInv /\ IInv)'
<1> SUFFICES ASSUME PolicyInv, IInv, [Next]_vars PROVE PolicyInv' /\ IInv'
    OBVIOUS
<1>1. PolicyInv'
    BY DEF PolicyInv, Next, vars, RedirectRefused, RedirectFollowed, Answered
<1>2. CASE UNCHANGED <<policies, via>>
    <2>1. ChainInv'
        BY <1>2 DEF IInv, ChainInv
    <2>2. SensitiveStaysAtOrigin'
        BY <1>2 DEF IInv, SensitiveStaysAtOrigin
    <2>3. PoliciesHold'
        BY <1>2 DEF IInv, PoliciesHold
    <2>. QED  BY <1>1, <2>1, <2>2, <2>3 DEF IInv
<1>3. ASSUME NEW u \in URLs, NEW copied \in BOOLEAN, RedirectFollowed(u, copied)
      PROVE  IInv'
    BY <1>3, RedirectFollowedStep
<1>. QED  BY <1>1, <1>2, <1>3 DEF Next, vars, RedirectRefused, Answered

\* The chain keeps its invariant over any sequence of redirects.
THEOREM Invariance == Spec => [](PolicyInv /\ IInv)
<1>1. Init => PolicyInv /\ IInv
    BY InitIInv DEF Init, PolicyInv
<1>. QED  BY <1>1, NextIInv, PTL DEF Spec

\* stripSensitiveHeadersOnRedirect: sensitive headers reach only the origin of
\* the first request, whatever chain the servers answer with.
THEOREM SensitiveStaysAtOriginHolds == Spec => []SensitiveStaysAtOrigin
<1>1. PolicyInv /\ IInv => SensitiveStaysAtOrigin
    BY DEF IInv
<1>. QED  BY <1>1, Invariance, PTL

\* setRedirectPolicy: every hop was admitted by every policy of the list.
THEOREM PoliciesHoldAlways == Spec => []PoliciesHold
<1>1. PolicyInv /\ IInv => PoliciesHold
    BY DEF IInv
<1>. QED  BY <1>1, Invariance, PTL
=============================================================================
