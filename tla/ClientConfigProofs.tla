------------------------- MODULE ClientConfigProofs -------------------------
(***************************************************************************)
(* Proofs about ClientConfig, for any set of clients, exports and requests *)
(* and any bounds: nothing that options write in place is shared, managed  *)
(* handshakes are bound to their own transport, and HTTP/2 is offered.     *)
(*                                                                         *)
(* Every step changes the network settings of one holder: it keeps its     *)
(* transport and config, gives them up, or takes ones that did not exist   *)
(* before (OneHolder). That is what the actions are shown to do; the       *)
(* invariants follow from it once and for all (OneHolderPreserves).        *)
(***************************************************************************)
EXTENDS ClientConfig, TLAPS

ClientTypes ==
    [status : {"none", "building", "live", "failed"},
     base : {"empty", "http", "scheme", "relative"}, jar : {"none", "caller", "session"},
     transport : Ids \cup {Nil, Custom}, handshake : Handshakes \cup {"none"},
     dialContext : BOOLEAN, dialer : SUBSET DialParts]
ExportTypes ==
    [status : {"none", "live"}, jar : {"none", "caller", "session"},
     transport : Ids \cup {Nil, Custom}]
TransportTypes ==
    [limit : 0..3, proxy : {"env", "none", "url", "caller"},
     dial : [kind : {"none", "default", "context", "dialer"}, parts : SUBSET DialParts],
     http2 : BOOLEAN, hook : [callback : Handshakes \cup {"none", "raw"}, bound : Ids \cup {Nil}],
     tls : Ids \cup {Nil}]
ConfigTypes ==
    [name : {"none", "caller", "option", "edited"}, roots : [array : Ids \cup {Nil}, len : Nat],
     cache : {"none", "session"}, protos : SUBSET H2]

Types ==
    /\ client \in [Clients -> ClientTypes]
    /\ export \in [Exports -> ExportTypes]
    /\ given \in [Givens -> Ids \cup {Custom}] /\ given[Caller] \in Ids
    /\ transports \in [Ids -> TransportTypes]
    /\ configs \in [Ids -> ConfigTypes]
    /\ nT \in Ids /\ nK \in Ids

\* Objects in use have been allocated.
Allocated ==
    /\ \A x \in Holders : TransportOf(x) \in Ids => TransportOf(x) <= nT
    /\ \A x \in Holders : ConfigOf(x) <= nK

TransportsOwn ==
    \A x, y \in Holders : x # y =>
        /\ TransportOf(x) \in Ids => TransportOf(x) # TransportOf(y)
        /\ ConfigOf(x) # Nil => ConfigOf(x) # ConfigOf(y)

CallerHasTLS == ConfigOf(Caller) # Nil

\* Where no handshake is managed, the hook is nil or the caller's own: a copy
\* that is not bound again must not read the settings of its original.
Unbound ==
    \A x \in Clients \cup Givens :
        TransportOf(x) \in Ids /\ (x \in Clients => client[x].handshake = "none")
            => transports[TransportOf(x)].hook.bound = Nil

NetInv ==
    /\ Types /\ Allocated /\ TransportsOwn /\ CallerHasTLS /\ HandshakeOwn /\ Unbound /\ HTTP2Offered

-----------------------------------------------------------------------------
\* What a step does to the network settings of holder x.

Sound(t, tr) ==
    /\ tr.hook.bound \in {Nil, t}
    /\ tr.http2 => tr.tls # Nil /\ H2 \subseteq configs'[tr.tls].protos

OneHolder(x) ==
    /\ \A y \in Holders \ {x} : TransportOf(y)' = TransportOf(y)
    /\ \A d \in Clients \ {x} : client'[d].handshake = client[d].handshake
    /\ \A i \in 1..nT : i # TransportOf(x) => transports'[i] = transports[i]
    /\ \A k \in 1..nK : k # ConfigOf(x) => configs'[k] = configs[k]
    /\ nT <= nT' /\ nK <= nK'
    /\ TransportOf(x)' \in Ids =>
        /\ TransportOf(x)' <= nT'
        /\ TransportOf(x)' = TransportOf(x) \/ nT < TransportOf(x)'
        /\ transports'[TransportOf(x)'].tls <= nK'
        /\ \/ transports'[TransportOf(x)'].tls \in {Nil, ConfigOf(x)}
           \/ nK < transports'[TransportOf(x)'].tls
        /\ Sound(TransportOf(x)', transports'[TransportOf(x)'])
    /\ x \in Clients /\ client'[x].handshake # "none" =>
        /\ TransportOf(x)' \in Ids
        /\ transports'[TransportOf(x)'].hook
              = [callback |-> client'[x].handshake, bound |-> TransportOf(x)']
    /\ TransportOf(x)' \in Ids /\ x \notin Exports /\ (x \in Clients => client'[x].handshake = "none")
        => transports'[TransportOf(x)'].hook.bound = Nil
    /\ x = Caller => ConfigOf(x)' # Nil

LEMMA HolderKinds ==
    /\ \A c \in Clients : c \in Holders /\ c \notin Exports /\ c \notin Givens /\ TransportOf(c) = client[c].transport
    /\ \A e \in Exports : e \in Holders /\ e \notin Clients /\ e \notin Givens /\ TransportOf(e) = export[e].transport
    /\ \A g \in Givens : g \in Holders /\ g \notin Clients /\ g \notin Exports /\ TransportOf(g) = given[g]
    /\ Caller \in Givens /\ Default \in Givens
    /\ \A x \in Holders : x \in Clients \/ x \in Exports \/ x \in Givens
  BY ConfigAssumption DEF Holders, Givens, TransportOf

LEMMA IdFacts ==
    /\ 1 \in Ids /\ 2 \in Ids /\ Nil \notin Ids /\ Custom \notin Ids
    /\ Nil = 0 /\ Custom = -1
    /\ \A i \in Ids : i \in Nat /\ i >= 1 /\ i <= MaxObjects
    /\ \A i \in Nat : i >= 1 /\ i <= MaxObjects => i \in Ids
  BY ConfigAssumption DEF Ids, Nil, Custom

LEMMA TransportTyped ==
    ASSUME Types, NEW x \in Holders
    PROVE  /\ TransportOf(x) \in Ids \cup {Nil, Custom}
           /\ ConfigOf(x) \in Ids \cup {Nil}
           /\ TransportOf(x) \in Ids => ConfigOf(x) = transports[TransportOf(x)].tls
  <1>1. TransportOf(x) \in Ids \cup {Nil, Custom}
    BY HolderKinds DEF Types, ClientTypes, ExportTypes
  <1> QED
    BY <1>1 DEF ConfigOf, Types, TransportTypes

LEMMA InUse ==
    ASSUME NetInv, NEW x \in Holders
    PROVE  /\ nT \in Nat /\ nK \in Nat
           /\ TransportOf(x) \in Ids => TransportOf(x) \in 1..nT
           /\ ConfigOf(x) # Nil => ConfigOf(x) \in Ids /\ ConfigOf(x) \in 1..nK
  <1>1. nT \in Nat /\ nK \in Nat
    BY IdFacts DEF NetInv, Types
  <1>2. /\ TransportOf(x) \in Ids => TransportOf(x) <= nT
        /\ ConfigOf(x) <= nK
    BY DEF NetInv, Allocated
  <1>3. ConfigOf(x) \in Ids \cup {Nil}
    BY TransportTyped DEF NetInv
  <1>4. TransportOf(x) \in Ids => TransportOf(x) \in 1..nT
    BY <1>1, <1>2, IdFacts
  <1>5. ConfigOf(x) # Nil => ConfigOf(x) \in Ids /\ ConfigOf(x) \in 1..nK
    BY <1>1, <1>2, <1>3, IdFacts
  <1> QED
    BY <1>1, <1>4, <1>5

LEMMA NotShared ==
    ASSUME NetInv, NEW x \in Holders, NEW y \in Holders, x # y
    PROVE  /\ TransportOf(x) \in Ids => TransportOf(x) # TransportOf(y)
           /\ ConfigOf(x) # Nil => ConfigOf(x) # ConfigOf(y)
  BY DEF NetInv, TransportsOwn

\* A step on one holder disturbs nothing that another one has.
LEMMA OthersKept ==
    ASSUME NetInv, Types', NEW x \in Holders, OneHolder(x), NEW y \in Holders, y # x
    PROVE  /\ TransportOf(y)' = TransportOf(y)
           /\ ConfigOf(y)' = ConfigOf(y)
           /\ TransportOf(y) \in Ids => transports'[TransportOf(y)] = transports[TransportOf(y)]
           /\ ConfigOf(y) # Nil => configs'[ConfigOf(y)] = configs[ConfigOf(y)]
  <1>1. TransportOf(y)' = TransportOf(y)
    BY DEF OneHolder
  <1>2. TransportOf(y) \in Ids => transports'[TransportOf(y)] = transports[TransportOf(y)]
    <2>1. SUFFICES ASSUME TransportOf(y) \in Ids
                   PROVE transports'[TransportOf(y)] = transports[TransportOf(y)]
      OBVIOUS
    <2>2. TransportOf(y) \in 1..nT /\ TransportOf(y) # TransportOf(x)
      BY <2>1, InUse, NotShared
    <2> QED
      BY <2>2 DEF OneHolder
  <1>3. ConfigOf(y)' = ConfigOf(y)
    BY <1>1, <1>2 DEF ConfigOf
  <1>4. ConfigOf(y) # Nil => ConfigOf(y) \in 1..nK /\ ConfigOf(y) # ConfigOf(x)
    BY InUse, NotShared
  <1> QED
    BY <1>1, <1>2, <1>3, <1>4 DEF OneHolder

LEMMA OneHolderPreserves ==
    ASSUME NetInv, Types', NEW x \in Holders, OneHolder(x)
    PROVE  NetInv'
  <1> DEFINE t == TransportOf(x)'
  <1>1. Types
    BY DEF NetInv
  <1>2. t \in Ids \cup {Nil, Custom} /\ ConfigOf(x)' \in Ids \cup {Nil}
        /\ (t \in Ids => ConfigOf(x)' = transports'[t].tls)
        /\ (t \notin Ids => ConfigOf(x)' = Nil)
    <2>1. t \in Ids \cup {Nil, Custom}
      BY HolderKinds DEF Types, ClientTypes, ExportTypes, TransportOf
    <2> QED
      BY <2>1 DEF ConfigOf, Types, TransportTypes
  <1>3. nT \in Nat /\ nK \in Nat /\ nT' \in Nat /\ nK' \in Nat
    BY <1>1, IdFacts DEF Types
  <1>4. \A y \in Holders : TransportOf(y) \in Ids \cup {Nil, Custom} /\ ConfigOf(y) \in Ids \cup {Nil}
    BY <1>1, TransportTyped
  <1>5. Allocated'
    <2>1. ASSUME NEW y \in Holders
          PROVE (TransportOf(y)' \in Ids => TransportOf(y)' <= nT') /\ ConfigOf(y)' <= nK'
      <3>1. CASE y = x
        BY <3>1, <1>2, <1>3, IdFacts DEF OneHolder
      <3>2. CASE y # x
        <4>1. TransportOf(y)' = TransportOf(y) /\ ConfigOf(y)' = ConfigOf(y)
          BY <3>2, OthersKept
        <4>2. nT <= nT' /\ nK <= nK'
          BY DEF OneHolder
        <4>3. (TransportOf(y) \in Ids => TransportOf(y) <= nT) /\ ConfigOf(y) <= nK
          BY DEF NetInv, Allocated
        <4>4. TransportOf(y) \in Int /\ ConfigOf(y) \in Int
          BY <1>4, IdFacts
        <4> QED BY <4>1, <4>2, <4>3, <4>4, <1>3
      <3> QED BY <3>1, <3>2
    <2> QED BY <2>1 DEF Allocated
  <1>6. TransportsOwn'
    <2>1. ASSUME NEW y \in Holders, y # x
          PROVE /\ TransportOf(y) \in Ids => TransportOf(y) # t
                /\ ConfigOf(y) # Nil => ConfigOf(y) # ConfigOf(x)'
      <3>1. TransportOf(y) \in Ids => TransportOf(y) # t
        <4>1. t \in Ids => t = TransportOf(x) \/ nT < t
          BY DEF OneHolder
        <4> QED BY <4>1, <2>1, InUse, NotShared, <1>2, IdFacts
      <3>2. ConfigOf(y) # Nil => ConfigOf(y) # ConfigOf(x)'
        <4>1. ConfigOf(x)' \in {Nil, ConfigOf(x)} \/ nK < ConfigOf(x)'
          BY <1>2 DEF OneHolder
        <4> QED BY <4>1, <2>1, InUse, NotShared, <1>2, IdFacts
      <3> QED BY <3>1, <3>2
    <2>2. ASSUME NEW y \in Holders, NEW z \in Holders, y # z
          PROVE /\ TransportOf(y)' \in Ids => TransportOf(y)' # TransportOf(z)'
                /\ ConfigOf(y)' # Nil => ConfigOf(y)' # ConfigOf(z)'
      <3>1. CASE y = x
        BY <3>1, <2>2, <2>1, OthersKept, <1>2
      <3>2. CASE z = x
        BY <3>2, <2>2, <2>1, OthersKept, <1>2
      <3>3. CASE y # x /\ z # x
        BY <3>3, <2>2, OthersKept DEF NetInv, TransportsOwn
      <3> QED BY <3>1, <3>2, <3>3
    <2> QED BY <2>2 DEF TransportsOwn
  <1>7. CallerHasTLS'
    BY OthersKept, HolderKinds DEF CallerHasTLS, NetInv, OneHolder
  <1>8. HandshakeOwn'
    <2>1. ASSUME NEW c \in Clients, client'[c].handshake # "none"
          PROVE /\ client'[c].transport \in Ids
                /\ transports'[client'[c].transport].hook
                      = [callback |-> client'[c].handshake, bound |-> client'[c].transport]
      <3>0. TransportOf(c)' = client'[c].transport /\ TransportOf(c) = client[c].transport /\ c \in Holders
        BY HolderKinds DEF TransportOf
      <3>1. CASE c = x
        BY <3>0, <3>1, <2>1 DEF OneHolder
      <3>2. CASE c # x
        BY <3>0, <3>2, <2>1, OthersKept DEF OneHolder, NetInv, HandshakeOwn
      <3> QED BY <3>1, <3>2
    <2>2. ASSUME NEW y \in Holders, TransportOf(y)' \in Ids
          PROVE transports'[TransportOf(y)'].hook.bound \in {Nil, TransportOf(y)'}
      <3>1. CASE y = x
        BY <3>1, <2>2 DEF OneHolder, Sound
      <3>2. CASE y # x
        BY <3>2, <2>2, OthersKept DEF NetInv, HandshakeOwn
      <3> QED BY <3>1, <3>2
    <2> QED BY <2>1, <2>2 DEF HandshakeOwn
  <1>9. HTTP2Offered'
    <2>1. ASSUME NEW y \in Holders, TransportOf(y)' \in Ids, transports'[TransportOf(y)'].http2
          PROVE /\ transports'[TransportOf(y)'].tls # Nil
                /\ H2 \subseteq configs'[transports'[TransportOf(y)'].tls].protos
      <3>1. CASE y = x
        BY <3>1, <2>1 DEF OneHolder, Sound
      <3>2. CASE y # x
        <4>1. TransportOf(y) \in Ids /\ transports[TransportOf(y)].http2
              /\ transports'[TransportOf(y)'].tls = ConfigOf(y)
          BY <3>2, <2>1, OthersKept, TransportTyped, <1>1
        <4>2. ConfigOf(y) # Nil /\ H2 \subseteq configs[ConfigOf(y)].protos
          BY <4>1, TransportTyped, <1>1 DEF NetInv, HTTP2Offered
        <4> QED BY <4>1, <4>2, <3>2, OthersKept
      <3> QED BY <3>1, <3>2
    <2> QED BY <2>1 DEF HTTP2Offered
  <1>10. Unbound'
    <2>1. ASSUME NEW y \in Clients \cup Givens, TransportOf(y)' \in Ids,
                 y \in Clients => client'[y].handshake = "none"
          PROVE transports'[TransportOf(y)'].hook.bound = Nil
      <3>1. y \in Holders /\ y \notin Exports
        BY HolderKinds
      <3>2. CASE y = x
        BY <3>1, <3>2, <2>1 DEF OneHolder
      <3>3. CASE y # x
        <4>1. TransportOf(y) \in Ids /\ transports'[TransportOf(y)'] = transports[TransportOf(y)]
          BY <3>1, <3>3, <2>1, OthersKept
        <4>2. y \in Clients => client[y].handshake = "none"
          BY <3>3, <2>1 DEF OneHolder
        <4> QED BY <4>1, <4>2 DEF NetInv, Unbound
      <3> QED BY <3>2, <3>3
    <2> QED BY <2>1 DEF Unbound
  <1> QED
    BY <1>5, <1>6, <1>7, <1>8, <1>9, <1>10 DEF NetInv

-----------------------------------------------------------------------------
\* The copy of a transport

\* The copy of transport t with number id has the config of t in a new place,
\* and its hook is bound to the copy.
GoodCopy(t, id, h) ==
    /\ CopiedTransport(t, id, h) \in TransportTypes
    /\ CopiedConfigs(t) \in [Ids -> ConfigTypes]
    /\ \A k \in 1..nK : CopiedConfigs(t)[k] = configs[k]
    /\ CopiedTransport(t, id, h).tls \in {Nil, nK + 1}
    /\ CopiedTransport(t, id, h).tls = Nil => CopiedCount(t) = nK
    /\ CopiedTransport(t, id, h).tls # Nil => CopiedCount(t) = nK + 1
    /\ CopiedTransport(t, id, h).tls # Nil <=> transports[t].tls # Nil
    /\ CopiedTransport(t, id, h).http2 =>
         /\ CopiedTransport(t, id, h).tls # Nil
         /\ H2 \subseteq CopiedConfigs(t)[CopiedTransport(t, id, h).tls].protos
    /\ h = "none" => CopiedTransport(t, id, h).hook.bound = Nil
    /\ h # "none" => CopiedTransport(t, id, h).hook = [callback |-> h, bound |-> id]

LEMMA CopyFacts ==
    ASSUME NetInv, NEW x \in Holders, NEW t \in Ids, TransportOf(x) = t,
           NEW h \in Handshakes \cup {"none"}, NEW id \in Ids, nK + 1 \in Ids,
           h = "none" => transports[t].hook.bound = Nil
    PROVE  GoodCopy(t, id, h)
  <1>1. /\ transports[t] \in TransportTypes /\ configs \in [Ids -> ConfigTypes]
        /\ nK \in Nat
    BY IdFacts DEF NetInv, Types
  <1>2. transports[t].tls \in Ids \cup {Nil}
    BY <1>1 DEF TransportTypes
  <1>3. ClonedConfig(t) \in {Nil, nK + 1} /\ ClonedConfig(t) \in Ids \cup {Nil}
        /\ (ClonedConfig(t) # Nil <=> transports[t].tls # Nil)
    BY <1>1, IdFacts DEF ClonedConfig
  <1>4. CopiedTransport(t, id, h) \in TransportTypes
    BY <1>1, <1>3 DEF CopiedTransport, TransportTypes, bindTLSHandshake
  <1>5. /\ CopiedTransport(t, id, h).tls = ClonedConfig(t)
        /\ CopiedTransport(t, id, h).http2 = transports[t].http2
        /\ h = "none" => CopiedTransport(t, id, h).hook = transports[t].hook
        /\ h # "none" => CopiedTransport(t, id, h).hook = [callback |-> h, bound |-> id]
    BY <1>1 DEF CopiedTransport, TransportTypes, bindTLSHandshake
  <1>6. CASE ClonedConfig(t) = Nil
    <2>1. CopiedConfigs(t) = configs /\ CopiedCount(t) = nK
      BY <1>6 DEF CopiedConfigs, CopiedCount
    <2>2. ~transports[t].http2
      BY <1>6, <1>3 DEF NetInv, HTTP2Offered
    <2> QED BY <1>1, <1>3, <1>4, <1>5, <1>6, <2>1, <2>2 DEF GoodCopy
  <1>7. CASE ClonedConfig(t) # Nil
    <2>1. CopiedConfigs(t) = [configs EXCEPT ![nK + 1] = configs[transports[t].tls]]
          /\ CopiedCount(t) = nK + 1 /\ ClonedConfig(t) = nK + 1
      BY <1>7, <1>3 DEF CopiedConfigs, CopiedCount
    <2>2. transports[t].tls \in Ids
      BY <1>7, <1>3, <1>2
    <2>3. CopiedConfigs(t) \in [Ids -> ConfigTypes]
      BY <2>1, <2>2, <1>1
    <2>4. CopiedConfigs(t)[nK + 1] = configs[transports[t].tls]
      BY <2>1, <1>1
    <2>5. \A k \in 1..nK : CopiedConfigs(t)[k] = configs[k]
      <3>1. \A k \in 1..nK : k \in Ids /\ k # nK + 1
        BY <1>1, ConfigAssumption DEF Ids
      <3> QED BY <3>1, <2>1, <1>1
    <2>6. transports[t].http2 => H2 \subseteq CopiedConfigs(t)[nK + 1].protos
      BY <2>4 DEF NetInv, HTTP2Offered
    <2> QED BY <1>3, <1>4, <1>5, <1>7, <2>1, <2>3, <2>5, <2>6 DEF GoodCopy
  <1> QED BY <1>6, <1>7

\* Room leaves a number for the objects of one operation.
LEMMA RoomFacts ==
    ASSUME NetInv, Room
    PROVE  /\ nT \in Nat /\ nK \in Nat /\ nT >= 1 /\ nK >= 1
           /\ nT + 1 \in Ids /\ nK + 1 \in Ids /\ nK + 2 \in Ids
           /\ \A i \in 1..nT : i \in Ids
           /\ \A k \in 1..nK : k \in Ids
  <1>1. nT \in Ids /\ nK \in Ids
    BY DEF NetInv, Types
  <1> QED
    BY <1>1, ConfigAssumption DEF Room, Ids

\* A holder x takes a copy of the transport t of some holder.
LEMMA CopyStep ==
    ASSUME NetInv, Room, NEW x \in Clients \cup Exports, NEW t \in Ids \cup {Nil, Custom},
           t \in Ids => \E y \in Holders : TransportOf(y) = t,
           NEW h \in Handshakes \cup {"none"},
           h = "none" /\ t \in Ids => transports[t].hook.bound = Nil,
           h # "none" => t \in Ids,
           CopyTransport(t, h),
           TransportOf(x)' = Copied(t),
           x \in Clients => client'[x].handshake = h,
           \A y \in Holders \ {x} : TransportOf(y)' = TransportOf(y),
           \A d \in Clients \ {x} : client'[d].handshake = client[d].handshake
    PROVE  OneHolder(x) /\ transports' \in [Ids -> TransportTypes] /\ configs' \in [Ids -> ConfigTypes]
           /\ nT' \in Ids /\ nK' \in Ids /\ Copied(t) \in Ids \cup {Nil, Custom}
  <1>0. x \in Holders /\ x # Caller
    BY HolderKinds
  <1>1. /\ transports \in [Ids -> TransportTypes] /\ configs \in [Ids -> ConfigTypes]
        /\ nT \in Ids /\ nK \in Ids
    BY DEF NetInv, Types
  <1>2. CASE t \in Ids
    <2> DEFINE new == CopiedTransport(t, nT + 1, h)
    <2>1. PICK y \in Holders : TransportOf(y) = t
      BY <1>2
    <2>2. /\ transports' = [transports EXCEPT ![nT + 1] = new] /\ nT' = nT + 1
          /\ configs' = CopiedConfigs(t) /\ nK' = CopiedCount(t) /\ TransportOf(x)' = nT + 1
          /\ Copied(t) = nT + 1
      BY <1>2 DEF CopyTransport, Copied
    <2>3. /\ new \in TransportTypes
          /\ CopiedConfigs(t) \in [Ids -> ConfigTypes]
          /\ \A k \in 1..nK : CopiedConfigs(t)[k] = configs[k]
          /\ new.tls \in {Nil, nK + 1}
          /\ new.tls = Nil => CopiedCount(t) = nK
          /\ new.tls # Nil => CopiedCount(t) = nK + 1
          /\ new.http2 => new.tls # Nil /\ H2 \subseteq CopiedConfigs(t)[new.tls].protos
          /\ h = "none" => new.hook.bound = Nil
          /\ h # "none" => new.hook = [callback |-> h, bound |-> nT + 1]
      <3>1. GoodCopy(t, nT + 1, h)
        BY <1>2, <2>1, RoomFacts, CopyFacts
      <3> QED BY <3>1 DEF GoodCopy
    <2> HIDE DEF new
    <2>4. transports' \in [Ids -> TransportTypes] /\ transports'[nT + 1] = new
      BY <2>2, <2>3, <1>1, RoomFacts
    <2>5. \A i \in 1..nT : transports'[i] = transports[i]
      <3>1. \A i \in 1..nT : i \in Ids /\ i # nT + 1
        BY RoomFacts
      <3> QED BY <3>1, <2>2, <1>1
    <2>6. /\ nT' \in Ids /\ nK' \in Ids /\ nT <= nT' /\ nK <= nK'
          /\ new.tls <= nK' /\ nT < nT + 1 /\ (new.tls = Nil \/ nK < new.tls)
      BY <2>2, <2>3, RoomFacts, IdFacts
    <2>7. new.hook.bound \in {Nil, nT + 1}
      BY <2>3
    <2> QED
      BY <1>0, <2>2, <2>3, <2>4, <2>5, <2>6, <2>7, RoomFacts DEF OneHolder, Sound
  <1>3. CASE t \notin Ids
    <2>1. UNCHANGED <<transports, nT, configs, nK>> /\ TransportOf(x)' = t /\ h = "none" /\ Copied(t) = t
      BY <1>3 DEF CopyTransport, Copied
    <2>2. nT <= nT' /\ nK <= nK'
      BY <2>1, RoomFacts
    <2> QED
      BY <1>0, <1>1, <1>3, <2>1, <2>2 DEF OneHolder
  <1> QED BY <1>2, <1>3

\* A client that keeps its transport, or gives it up.
LEMMA LocalStep ==
    ASSUME NetInv, NEW c \in Clients, NEW new \in ClientTypes,
           \/ new.transport = client[c].transport /\ new.handshake = client[c].handshake
           \/ new.transport = Nil /\ new.handshake = "none",
           client' = [client EXCEPT ![c] = new],
           UNCHANGED <<export, given, transports, configs, nT, nK>>
    PROVE  NetInv'
  <1>1. client \in [Clients -> ClientTypes] /\ nT \in Nat /\ nK \in Nat /\ Types
    BY IdFacts DEF NetInv, Types
  <1>2. Types'
    BY <1>1 DEF Types
  <1>3. c \in Holders /\ c # Caller /\ TransportOf(c) = client[c].transport /\ client'[c] = new
        /\ TransportOf(c)' = new.transport
    BY <1>1, HolderKinds DEF TransportOf
  <1>4. \A y \in Holders \ {c} : TransportOf(y)' = TransportOf(y)
    BY <1>1 DEF TransportOf
  <1>5. \A d \in Clients \ {c} : client'[d].handshake = client[d].handshake
    BY <1>1
  <1>6. CASE TransportOf(c)' = TransportOf(c) /\ new.handshake = client[c].handshake
    <2>1. TransportOf(c) \in Ids =>
            /\ TransportOf(c) <= nT
            /\ transports[TransportOf(c)].tls = ConfigOf(c) /\ ConfigOf(c) <= nK
            /\ transports[TransportOf(c)].hook.bound \in {Nil, TransportOf(c)}
            /\ transports[TransportOf(c)].http2 =>
                  /\ transports[TransportOf(c)].tls # Nil
                  /\ H2 \subseteq configs[transports[TransportOf(c)].tls].protos
            /\ client[c].handshake = "none" => transports[TransportOf(c)].hook.bound = Nil
      BY <1>3, TransportTyped, <1>1 DEF NetInv, Allocated, HandshakeOwn, HTTP2Offered, Unbound
    <2>2. client[c].handshake # "none" =>
            /\ TransportOf(c) \in Ids
            /\ transports[TransportOf(c)].hook
                  = [callback |-> client[c].handshake, bound |-> TransportOf(c)]
      BY <1>3 DEF NetInv, HandshakeOwn
    <2>3. OneHolder(c)
      BY <1>1, <1>3, <1>4, <1>5, <1>6, <2>1, <2>2 DEF OneHolder, Sound
    <2> QED BY <2>3, <1>2, <1>3, OneHolderPreserves
  <1>7. CASE new.transport = Nil /\ new.handshake = "none"
    <2>1. OneHolder(c)
      BY <1>1, <1>3, <1>4, <1>5, <1>7, IdFacts DEF OneHolder
    <2> QED BY <2>1, <1>2, <1>3, OneHolderPreserves
  <1> QED BY <1>6, <1>7, <1>3

-----------------------------------------------------------------------------
\* Options that write the transport

LEMMA EnsuredFacts ==
    ASSUME NetInv, NEW c \in Clients, CanWrite(c)
    PROVE  /\ Room /\ ensureTransport(c) \in Ids
           /\ \/ client[c].transport \in Ids /\ ensureTransport(c) = client[c].transport
              \/ client[c].transport = Nil /\ ensureTransport(c) = nT + 1
           /\ Ensured(c) \in TransportTypes
           /\ EnsuredConfigs(c) \in [Ids -> ConfigTypes]
           /\ EnsuredCount(c) \in {nK, nK + 1} /\ Ensured(c).tls <= EnsuredCount(c)
           /\ \A k \in 1..nK : EnsuredConfigs(c)[k] = configs[k]
           /\ Ensured(c).tls \in {Nil, ConfigOf(c)} \/ nK < Ensured(c).tls
           /\ Ensured(c).http2 =>
                Ensured(c).tls # Nil /\ H2 \subseteq EnsuredConfigs(c)[Ensured(c).tls].protos
           /\ client[c].handshake = "none" => Ensured(c).hook.bound = Nil
           /\ client[c].handshake # "none" =>
                Ensured(c).hook = [callback |-> client[c].handshake, bound |-> ensureTransport(c)]
  <1>1. /\ Room /\ Start(c) # Custom /\ Types
        /\ client[c] \in ClientTypes /\ client[c].transport \in Ids \cup {Nil, Custom}
        /\ given[Default] \in Ids \cup {Custom}
        /\ c \in Holders /\ TransportOf(c) = client[c].transport
        /\ Default \in Holders /\ TransportOf(Default) = given[Default] /\ Default \in Givens
    BY HolderKinds DEF CanWrite, NetInv, Types, ClientTypes
  <1>2. CASE client[c].transport = Nil
    <2>1. Start(c) = given[Default] /\ given[Default] \in Ids
      BY <1>1, <1>2 DEF Start
    <2>2. /\ ensureTransport(c) = nT + 1 /\ Ensured(c) = CopiedTransport(given[Default], nT + 1, "none")
          /\ EnsuredConfigs(c) = CopiedConfigs(given[Default])
          /\ EnsuredCount(c) = CopiedCount(given[Default])
      BY <1>2, <2>1 DEF ensureTransport, Ensured, EnsuredConfigs, EnsuredCount
    <2>3. transports[given[Default]].hook.bound = Nil
      <3>1. Default \notin Clients
        BY <1>1, HolderKinds
      <3> QED BY <3>1, <1>1, <2>1 DEF NetInv, Unbound
    <2>4. client[c].handshake = "none"
      BY <1>2, IdFacts DEF NetInv, HandshakeOwn
    <2> DEFINE new == CopiedTransport(given[Default], nT + 1, "none")
    <2>5. /\ new \in TransportTypes
          /\ CopiedConfigs(given[Default]) \in [Ids -> ConfigTypes]
          /\ \A k \in 1..nK : CopiedConfigs(given[Default])[k] = configs[k]
          /\ new.tls \in {Nil, nK + 1}
          /\ new.tls = Nil => CopiedCount(given[Default]) = nK
          /\ new.tls # Nil => CopiedCount(given[Default]) = nK + 1
          /\ new.http2 => new.tls # Nil /\ H2 \subseteq CopiedConfigs(given[Default])[new.tls].protos
          /\ new.hook.bound = Nil
      <3>1. nT + 1 \in Ids /\ nK + 1 \in Ids /\ "none" \in Handshakes \cup {"none"}
        BY <1>1, RoomFacts
      <3>2. GoodCopy(given[Default], nT + 1, "none")
        BY <3>1, <1>1, <2>1, <2>3, CopyFacts
      <3> QED BY <3>2 DEF GoodCopy
    <2> HIDE DEF new
    <2>6. Ensured(c) = new
      BY <2>2 DEF new
    <2>7. nT + 1 \in Ids /\ nK \in Nat /\ Nil = 0
      BY <1>1, RoomFacts, IdFacts
    <2>8. new.tls <= EnsuredCount(c) /\ EnsuredCount(c) \in {nK, nK + 1} /\ (new.tls = Nil \/ nK < new.tls)
      BY <2>2, <2>5, <2>7
    <2> QED BY <1>1, <1>2, <2>2, <2>4, <2>5, <2>6, <2>7, <2>8
  <1>3. CASE client[c].transport \in Ids
    <2> DEFINE t == client[c].transport
    <2>0. client[c].transport # Nil
      BY <1>3, IdFacts
    <2>1. /\ ensureTransport(c) = t /\ Ensured(c) = transports[t]
          /\ EnsuredConfigs(c) = configs /\ EnsuredCount(c) = nK
      BY <2>0 DEF ensureTransport, Ensured, EnsuredConfigs, EnsuredCount
    <2>2. /\ transports[t] \in TransportTypes /\ configs \in [Ids -> ConfigTypes]
      BY <1>1, <1>3 DEF Types
    <2>3. ConfigOf(c) = transports[t].tls /\ ConfigOf(c) <= nK
      BY <1>1, <1>3, TransportTyped DEF NetInv, Allocated
    <2>4. /\ transports[t].http2 =>
                transports[t].tls # Nil /\ H2 \subseteq configs[transports[t].tls].protos
          /\ client[c].handshake = "none" => transports[t].hook.bound = Nil
          /\ client[c].handshake # "none" =>
                transports[t].hook = [callback |-> client[c].handshake, bound |-> t]
      BY <1>1, <1>3 DEF NetInv, HTTP2Offered, Unbound, HandshakeOwn
    <2> QED BY <1>1, <1>3, <2>1, <2>2, <2>3, <2>4
  <1>4. client[c].transport # Custom
    BY <1>1, IdFacts DEF Start
  <1> QED BY <1>1, <1>2, <1>3, <1>4

\* Install keeps the invariant when the transport it leaves has the config the
\* transport had, none, or a new one, and is sound with it.
LEMMA InstallStep ==
    ASSUME NetInv, NEW c \in Clients, CanWrite(c),
           NEW new \in ClientTypes, NEW tr \in TransportTypes,
           NEW place \in {Nil, EnsuredCount(c) + 1, Ensured(c).tls}, NEW cfg \in ConfigTypes,
           Install(c, new, tr, place, cfg),
           place = Nil => tr.tls \in {Nil, Ensured(c).tls},
           place # Nil => tr.tls = place,
           tr.http2 /\ place = Nil => Ensured(c).http2 /\ tr.tls = Ensured(c).tls,
           tr.http2 /\ place # Nil => H2 \subseteq cfg.protos,
           new.handshake = "none" => tr.hook.bound = Nil,
           new.handshake # "none" =>
                tr.hook = [callback |-> new.handshake, bound |-> ensureTransport(c)]
    PROVE  NetInv'
  <1> DEFINE e == ensureTransport(c)
             after == [new EXCEPT !.transport = e]
  <1>1. /\ Room /\ e \in Ids
        /\ \/ client[c].transport \in Ids /\ e = client[c].transport
           \/ client[c].transport = Nil /\ e = nT + 1
        /\ Ensured(c) \in TransportTypes
        /\ EnsuredConfigs(c) \in [Ids -> ConfigTypes]
        /\ EnsuredCount(c) \in {nK, nK + 1} /\ Ensured(c).tls <= EnsuredCount(c)
        /\ \A k \in 1..nK : EnsuredConfigs(c)[k] = configs[k]
        /\ Ensured(c).tls \in {Nil, ConfigOf(c)} \/ nK < Ensured(c).tls
        /\ Ensured(c).http2 =>
             Ensured(c).tls # Nil /\ H2 \subseteq EnsuredConfigs(c)[Ensured(c).tls].protos
    BY EnsuredFacts
  <1>2. /\ client \in [Clients -> ClientTypes] /\ transports \in [Ids -> TransportTypes] /\ Types
        /\ nT \in Nat /\ nK \in Nat /\ nT + 1 \in Ids /\ nK + 1 \in Ids /\ nK + 2 \in Ids /\ nK \in Ids
    BY <1>1, RoomFacts DEF NetInv, Types
  <1>3. Ensured(c).tls \in Ids \cup {Nil} /\ tr.tls \in Ids \cup {Nil} /\ Nil = 0
    BY <1>1, IdFacts DEF TransportTypes
  <1>4. /\ client' = [client EXCEPT ![c] = after]
        /\ transports' = [transports EXCEPT ![e] = tr]
        /\ nT' = IF client[c].transport = Nil THEN nT + 1 ELSE nT
        /\ configs' = IF place = Nil THEN EnsuredConfigs(c) ELSE [EnsuredConfigs(c) EXCEPT ![place] = cfg]
        /\ nK' = IF place > EnsuredCount(c) THEN place ELSE EnsuredCount(c)
        /\ UNCHANGED <<export, given>>
    BY DEF Install, SetOwn
  <1>5. after \in ClientTypes /\ after.transport = e /\ after.handshake = new.handshake
    BY <1>1 DEF ClientTypes
  <1> HIDE DEF e, after
  <1>6. client' \in [Clients -> ClientTypes] /\ client'[c] = after
    BY <1>2, <1>4, <1>5
  <1>7. transports' \in [Ids -> TransportTypes] /\ transports'[e] = tr
    BY <1>1, <1>2, <1>4
  <1>8. place \in Ids \cup {Nil} /\ place \in Int /\ (place \in {Nil, ConfigOf(c)} \/ nK < place)
    BY <1>1, <1>2, <1>3, IdFacts
  <1>9. nT' \in Ids /\ nT <= nT' /\ e <= nT' /\ (e = client[c].transport \/ nT < e)
    <2>1. nT \in Ids /\ (client[c].transport \in Ids => client[c].transport <= nT)
      BY <1>2, HolderKinds DEF NetInv, Types, Allocated
    <2> QED BY <2>1, <1>1, <1>2, <1>4, IdFacts
  <1>10. nK' \in Ids /\ nK <= nK' /\ place <= nK' /\ EnsuredCount(c) <= nK' /\ tr.tls <= nK'
    <2>1. place \in {Nil, EnsuredCount(c), EnsuredCount(c) + 1} \/ place <= EnsuredCount(c)
      BY <1>1
    <2>2. place \in Int /\ EnsuredCount(c) \in Int /\ EnsuredCount(c) + 1 \in Ids /\ EnsuredCount(c) \in Ids
      BY <1>1, <1>2, <1>8
    <2>3. nK' \in Ids /\ nK <= nK' /\ place <= nK' /\ EnsuredCount(c) <= nK'
      BY <1>1, <1>2, <1>3, <1>4, <2>1, <2>2, IdFacts
    <2>4. nK' \in Int /\ Ensured(c).tls \in Int
      BY <2>3, <1>3, IdFacts
    <2>5. Ensured(c).tls <= nK' /\ 0 <= nK'
      BY <2>3, <2>4, <1>1, <2>2, IdFacts
    <2> QED BY <2>3, <2>5, <1>3
  <1>11. configs' \in [Ids -> ConfigTypes]
    BY <1>1, <1>4, <1>8
  <1>12. \A k \in 1..nK : k # ConfigOf(c) => configs'[k] = configs[k]
    <2>1. SUFFICES ASSUME NEW k \in 1..nK, k # ConfigOf(c) PROVE configs'[k] = configs[k]
      OBVIOUS
    <2>2. k \in Ids /\ k # 0 /\ EnsuredConfigs(c)[k] = configs[k]
      BY <1>1, RoomFacts, <1>2
    <2>3. k # place \/ place = Nil
      BY <2>1, <2>2, <1>8, <1>2
    <2> QED BY <2>2, <2>3, <1>4, <1>1
  <1>13. tr.tls \in {Nil, ConfigOf(c)} \/ nK < tr.tls
    BY <1>1, <1>8
  <1>14. tr.http2 => tr.tls # Nil /\ H2 \subseteq configs'[tr.tls].protos
    <2>1. CASE place = Nil
      BY <2>1, <1>1, <1>4
    <2>2. CASE place # Nil
      BY <2>2, <1>1, <1>4, <1>8
    <2> QED BY <2>1, <2>2
  <1>15. /\ c \in Holders /\ c # Caller /\ c \notin Exports /\ TransportOf(c) = client[c].transport
         /\ TransportOf(c)' = e
    BY <1>5, <1>6, HolderKinds DEF TransportOf
  <1>16. \A y \in Holders \ {c} : TransportOf(y)' = TransportOf(y)
    BY <1>2, <1>4 DEF TransportOf
  <1>17. \A d \in Clients \ {c} : client'[d].handshake = client[d].handshake
    BY <1>2, <1>4
  <1>18. \A i \in 1..nT : i # TransportOf(c) => transports'[i] = transports[i]
    <2>1. SUFFICES ASSUME NEW i \in 1..nT, i # TransportOf(c) PROVE transports'[i] = transports[i]
      OBVIOUS
    <2>2. i \in Ids /\ i # e
      BY <2>1, <1>1, <1>2, <1>15, RoomFacts
    <2> QED BY <2>2, <1>2, <1>4
  <1>19. tr.hook.bound \in {Nil, e}
    BY DEF e
  <1>20. new.handshake # "none" => tr.hook = [callback |-> new.handshake, bound |-> e]
    BY DEF e
  <1>21. OneHolder(c)
    BY <1>5, <1>6, <1>7, <1>9, <1>10, <1>12, <1>13, <1>14, <1>15, <1>16, <1>17, <1>18, <1>19, <1>20, <1>1
       DEF OneHolder, Sound
  <1>22. Types'
    BY <1>2, <1>4, <1>6, <1>7, <1>9, <1>10, <1>11 DEF Types
  <1> QED BY <1>15, <1>21, <1>22, OneHolderPreserves

\* Steps that write the config: it is typed, and offers HTTP/2 where it must.
LEMMA TLSStep ==
    ASSUME NetInv, NEW c \in Clients, CanWrite(c), NEW new \in ClientTypes, NEW cfg \in ConfigTypes,
           new.handshake = client[c].handshake, setTransportTLSConfig(c, new, cfg)
    PROVE  NetInv'
  <1> DEFINE place == EnsuredCount(c) + 1
             tr == [Ensured(c) EXCEPT !.tls = place]
             written == IF Ensured(c).http2 THEN ensureHTTP2NextProtos(cfg) ELSE cfg
  <1>1. Install(c, new, tr, place, written)
    BY DEF setTransportTLSConfig
  <1>2. /\ Ensured(c) \in TransportTypes /\ place \in Ids /\ place # Nil
        /\ client[c].handshake = "none" => Ensured(c).hook.bound = Nil
        /\ client[c].handshake # "none" =>
             Ensured(c).hook = [callback |-> client[c].handshake, bound |-> ensureTransport(c)]
    BY EnsuredFacts, RoomFacts, IdFacts
  <1>3. tr \in TransportTypes /\ tr.tls = place /\ tr.http2 = Ensured(c).http2 /\ tr.hook = Ensured(c).hook
    BY <1>2 DEF TransportTypes
  <1>4. written \in ConfigTypes /\ (Ensured(c).http2 => H2 \subseteq written.protos)
    BY DEF ConfigTypes, ensureHTTP2NextProtos
  <1>5. place \in {Nil, EnsuredCount(c) + 1, Ensured(c).tls}
    OBVIOUS
  <1> HIDE DEF tr, written
  <1> QED BY <1>1, <1>2, <1>3, <1>4, <1>5, InstallStep

\* Steps that write neither the config nor the managed hook.
LEMMA TransportStep ==
    ASSUME NetInv, NEW c \in Clients, CanWrite(c), NEW new \in ClientTypes, NEW tr \in TransportTypes,
           tr.tls = Ensured(c).tls, tr.http2 = Ensured(c).http2,
           \/ new.handshake = client[c].handshake /\ tr.hook = Ensured(c).hook
           \/ tr.hook = bindTLSHandshake(ensureTransport(c), new.handshake),
           InstallTransport(c, new, tr)
    PROVE  NetInv'
  <1>1. Install(c, new, tr, Nil, NoConfig)
    BY DEF InstallTransport
  <1>2. NoConfig \in ConfigTypes
    BY DEF NoConfig, ConfigTypes, NilSlice
  <1>3. /\ new.handshake = "none" => tr.hook.bound = Nil
        /\ new.handshake # "none" => tr.hook = [callback |-> new.handshake, bound |-> ensureTransport(c)]
    BY EnsuredFacts DEF bindTLSHandshake, NoHook
  <1> QED BY <1>1, <1>2, <1>3, InstallStep

LEMMA ClientTyped ==
    ASSUME NetInv, NEW c \in Clients
    PROVE  client[c] \in ClientTypes /\ client \in [Clients -> ClientTypes]
  BY DEF NetInv, Types

\* Updates of the current config
LEMMA CurrentTyped ==
    ASSUME NetInv, NEW c \in Clients, CanWrite(c)
    PROVE  CurrentConfig(c) \in ConfigTypes
  <1>1. Ensured(c) \in TransportTypes /\ EnsuredConfigs(c) \in [Ids -> ConfigTypes]
    BY EnsuredFacts
  <1>2. NoConfig \in ConfigTypes
    BY DEF NoConfig, ConfigTypes, NilSlice
  <1>3. Ensured(c).tls \in Ids \cup {Nil}
    BY <1>1 DEF TransportTypes
  <1> QED BY <1>1, <1>2, <1>3 DEF CurrentConfig

-----------------------------------------------------------------------------
\* The actions

LEMMA OwnSteps ==
    ASSUME NetInv, NEW c \in Clients,
           New(c) \/ RejectOption(c) \/ WithBaseURL(c) \/ WithCookieJar(c) \/ WithMiddleware(c)
              \/ WithDefaultHeader(c) \/ NoStandardTransport(c) \/ Finish(c)
    PROVE  NetInv'
  <1>0. client[c] \in ClientTypes
    BY ClientTyped
  <1>1. CASE New(c)
    <2> DEFINE new == [NoClient EXCEPT !.status = "building"]
    <2>1. new \in ClientTypes /\ new.transport = Nil /\ new.handshake = "none"
      BY DEF ClientTypes, NoClient
    <2>2. client' = [client EXCEPT ![c] = new] /\ UNCHANGED <<export, given, transports, configs, nT, nK>>
      BY <1>1 DEF New, heap
    <2> HIDE DEF new
    <2> QED BY <2>1, <2>2, LocalStep
  <1>2. ASSUME Fail(c) PROVE NetInv'
    <2> DEFINE new == [NoClient EXCEPT !.status = "failed"]
    <2>1. new \in ClientTypes /\ new.transport = Nil /\ new.handshake = "none"
      BY DEF ClientTypes, NoClient
    <2>2. client' = [client EXCEPT ![c] = new] /\ UNCHANGED <<export, given, transports, configs, nT, nK>>
      BY <1>2 DEF Fail, heap
    <2> HIDE DEF new
    <2> QED BY <2>1, <2>2, LocalStep
  <1>3. CASE RejectOption(c) \/ NoStandardTransport(c)
    BY <1>2, <1>3 DEF RejectOption, NoStandardTransport
  <1>4. CASE WithBaseURL(c)
    <2>1. PICK base \in {"empty", "http", "scheme", "relative"} :
             client' = [client EXCEPT ![c] = [client[c] EXCEPT !.base = base]]
      BY <1>4 DEF WithBaseURL, SetOwn
    <2> DEFINE new == [client[c] EXCEPT !.base = base]
    <2>2. new \in ClientTypes /\ new.transport = client[c].transport /\ new.handshake = client[c].handshake
      BY <1>0 DEF ClientTypes
    <2>3. UNCHANGED <<export, given, transports, configs, nT, nK>>
      BY <1>4 DEF WithBaseURL, heap
    <2> HIDE DEF new
    <2>4. client' = [client EXCEPT ![c] = new]
      BY <2>1 DEF new
    <2> QED BY <2>2, <2>3, <2>4, LocalStep
  <1>5. CASE WithCookieJar(c)
    <2> DEFINE new == [client[c] EXCEPT !.jar = "caller"]
    <2>1. client' = [client EXCEPT ![c] = new] /\ UNCHANGED <<export, given, transports, configs, nT, nK>>
      BY <1>5 DEF WithCookieJar, SetOwn, heap
    <2>2. new \in ClientTypes /\ new.transport = client[c].transport /\ new.handshake = client[c].handshake
      BY <1>0 DEF ClientTypes
    <2> HIDE DEF new
    <2> QED BY <2>1, <2>2, LocalStep
  <1>6. CASE WithMiddleware(c) \/ WithDefaultHeader(c)
    <2>1. client' = [client EXCEPT ![c] = client[c]] /\ UNCHANGED <<export, given, transports, configs, nT, nK>>
      BY <1>6 DEF WithMiddleware, WithDefaultHeader, AppendTo, SetOwn
    <2> QED BY <1>0, <2>1, LocalStep
  <1>7. CASE Finish(c)
    <2>1. CASE Valid(c)
      <3> DEFINE new == [client[c] EXCEPT !.status = "live"]
      <3>1. client' = [client EXCEPT ![c] = new] /\ UNCHANGED <<export, given, transports, configs, nT, nK>>
        BY <1>7, <2>1 DEF Finish, heap
      <3>2. new \in ClientTypes /\ new.transport = client[c].transport /\ new.handshake = client[c].handshake
        BY <1>0 DEF ClientTypes
      <3> HIDE DEF new
      <3> QED BY <3>1, <3>2, LocalStep
    <2>2. CASE ~Valid(c)
      BY <1>2, <1>7, <2>2 DEF Finish
    <2> QED BY <2>1, <2>2
  <1> QED BY <1>1, <1>3, <1>4, <1>5, <1>6, <1>7

LEMMA WriteSteps ==
    ASSUME NetInv, nA \in Ids, NEW c \in Clients,
           ApplyTransport(c) \/ WithDialOption(c) \/ WithTLSHandshake(c) \/ WithTLSConfig(c) \/ WithHTTP2(c)
              \/ UpdateTLS(c) \/ AddRootCAs(c) \/ RefuseRootCAs(c) \/ WithSession(c)
    PROVE  NetInv'
  <1>0. CanWrite(c) /\ client[c] \in ClientTypes
    BY ClientTyped
       DEF ApplyTransport, WithDialOption, WithTLSHandshake, WithTLSConfig, WithHTTP2, UpdateTLS,
           AddRootCAs, RefuseRootCAs, WithSession
  <1>1. /\ Ensured(c) \in TransportTypes /\ CurrentConfig(c) \in ConfigTypes /\ ensureTransport(c) \in Ids
        /\ NoConfig \in ConfigTypes
    <2>1. NoConfig \in ConfigTypes
      BY DEF NoConfig, ConfigTypes, NilSlice
    <2> QED BY <1>0, <2>1, EnsuredFacts, CurrentTyped
  <1>2. CASE ApplyTransport(c)
    <2>1. ASSUME NEW tr, tr = [Ensured(c) EXCEPT !.limit = 1], InstallTransport(c, client[c], tr)
          PROVE NetInv'
      <3>1. /\ tr \in TransportTypes /\ tr.tls = Ensured(c).tls /\ tr.http2 = Ensured(c).http2
            /\ tr.hook = Ensured(c).hook
        BY <1>1, <2>1 DEF TransportTypes
      <3> QED BY <1>0, <2>1, <3>1, TransportStep
    <2>2. ASSUME NEW tr, NEW proxy \in {"none", "url", "env"}, tr = [Ensured(c) EXCEPT !.proxy = proxy],
                 InstallTransport(c, client[c], tr)
          PROVE NetInv'
      <3>1. /\ tr \in TransportTypes /\ tr.tls = Ensured(c).tls /\ tr.http2 = Ensured(c).http2
            /\ tr.hook = Ensured(c).hook
        BY <1>1, <2>2 DEF TransportTypes
      <3> QED BY <1>0, <2>2, <3>1, TransportStep
    <2> QED BY <1>2, <2>1, <2>2 DEF ApplyTransport, SetLimit, SetProxy
  <1>3. CASE WithDialOption(c)
    <2>1. ASSUME NEW context \in BOOLEAN, NEW parts \in SUBSET DialParts, ApplyDial(c, context, parts)
          PROVE NetInv'
      <3> DEFINE new == [client[c] EXCEPT !.dialContext = context, !.dialer = parts]
                 tr == [Ensured(c) EXCEPT !.dial = DialOf(context, parts)]
      <3>1. new \in ClientTypes /\ new.handshake = client[c].handshake
        BY <1>0 DEF ClientTypes
      <3>2. DialOf(context, parts) \in [kind : {"none", "default", "context", "dialer"}, parts : SUBSET DialParts]
        BY DEF DialOf, NoDial
      <3>3. /\ tr \in TransportTypes /\ tr.tls = Ensured(c).tls /\ tr.http2 = Ensured(c).http2
            /\ tr.hook = Ensured(c).hook
        BY <1>1, <3>2 DEF TransportTypes
      <3>4. InstallTransport(c, new, tr)
        BY <2>1 DEF ApplyDial
      <3> HIDE DEF new, tr
      <3> QED BY <1>0, <3>1, <3>3, <3>4, TransportStep
    <2>2. client[c].dialContext \in BOOLEAN /\ client[c].dialer \in SUBSET DialParts
      BY <1>0 DEF ClientTypes
    <2>3. \A part \in DialParts, on \in BOOLEAN :
             (IF on THEN client[c].dialer \cup {part} ELSE client[c].dialer \ {part}) \in SUBSET DialParts
      BY <2>2
    <2> QED BY <1>3, <2>1, <2>2, <2>3 DEF WithDialOption
  <1>4. CASE WithTLSHandshake(c)
    <2>1. PICK callback \in Handshakes \cup {"none"} :
            InstallTransport(c, [client[c] EXCEPT !.handshake = callback],
                             [Ensured(c) EXCEPT !.hook = bindTLSHandshake(ensureTransport(c), callback)])
      BY <1>4 DEF WithTLSHandshake
    <2> DEFINE new == [client[c] EXCEPT !.handshake = callback]
               tr == [Ensured(c) EXCEPT !.hook = bindTLSHandshake(ensureTransport(c), callback)]
    <2>2. new \in ClientTypes /\ new.handshake = callback
      BY <1>0 DEF ClientTypes
    <2>3. bindTLSHandshake(ensureTransport(c), callback)
             \in [callback : Handshakes \cup {"none", "raw"}, bound : Ids \cup {Nil}]
      BY <1>1 DEF bindTLSHandshake, NoHook
    <2>4. /\ tr \in TransportTypes /\ tr.tls = Ensured(c).tls /\ tr.http2 = Ensured(c).http2
          /\ tr.hook = bindTLSHandshake(ensureTransport(c), new.handshake)
      BY <1>1, <2>2, <2>3 DEF TransportTypes
    <2>5. InstallTransport(c, new, tr)
      BY <2>1
    <2> HIDE DEF new, tr
    <2> QED BY <1>0, <2>2, <2>4, <2>5, TransportStep
  <1>5. CASE WithTLSConfig(c)
    <2>1. CASE setTransportTLSConfig(c, client[c], configs[transports[given[Caller]].tls])
      <3>1. configs[transports[given[Caller]].tls] \in ConfigTypes
        <4>1. ConfigOf(Caller) # Nil /\ ConfigOf(Caller) \in Ids
          BY HolderKinds, InUse DEF NetInv, CallerHasTLS
        <4>2. TransportOf(Caller) = given[Caller] /\ given[Caller] \in Ids
          BY HolderKinds DEF NetInv, Types
        <4>3. ConfigOf(Caller) = transports[given[Caller]].tls
          BY <4>2 DEF ConfigOf
        <4> QED BY <4>1, <4>3 DEF NetInv, Types
      <3> QED BY <1>0, <2>1, <3>1, TLSStep
    <2>2. CASE setTransportTLSConfig(c, client[c], NoConfig)
      BY <1>0, <1>1, <2>2, TLSStep
    <2>3. CASE ~Ensured(c).http2 /\ InstallTransport(c, client[c], [Ensured(c) EXCEPT !.tls = Nil])
      <3> DEFINE tr == [Ensured(c) EXCEPT !.tls = Nil]
      <3>1. Install(c, client[c], tr, Nil, NoConfig)
        BY <2>3 DEF InstallTransport
      <3>2. tr \in TransportTypes /\ tr.tls = Nil /\ ~tr.http2 /\ tr.hook = Ensured(c).hook
        BY <1>1, <2>3 DEF TransportTypes
      <3>3. /\ client[c].handshake = "none" => tr.hook.bound = Nil
            /\ client[c].handshake # "none" =>
                 tr.hook = [callback |-> client[c].handshake, bound |-> ensureTransport(c)]
        BY <1>0, <3>2, EnsuredFacts
      <3> HIDE DEF tr
      <3> QED BY <1>0, <1>1, <3>1, <3>2, <3>3, InstallStep
    <2> QED BY <1>5, <2>1, <2>2, <2>3 DEF WithTLSConfig
  <1>6. CASE WithHTTP2(c)
    <2> DEFINE place == IF Ensured(c).tls = Nil THEN EnsuredCount(c) + 1 ELSE Ensured(c).tls
               tr == [Ensured(c) EXCEPT !.http2 = TRUE, !.tls = place]
               cfg == ensureHTTP2NextProtos(CurrentConfig(c))
    <2>1. Install(c, client[c], tr, place, cfg)
      BY <1>6 DEF WithHTTP2, CurrentConfig
    <2>2. Ensured(c).tls \in Ids \cup {Nil} /\ EnsuredCount(c) + 1 \in Ids
      <3>1. EnsuredCount(c) \in {nK, nK + 1} /\ Room
        BY <1>0, EnsuredFacts
      <3>2. nK \in Nat /\ nK + 1 \in Ids /\ nK + 2 \in Ids
        BY <3>1, RoomFacts
      <3>3. EnsuredCount(c) + 1 \in Ids
        BY <3>1, <3>2
      <3> QED BY <1>1, <3>3 DEF TransportTypes
    <2>3. place \in Ids /\ place # Nil /\ place \in {Nil, EnsuredCount(c) + 1, Ensured(c).tls}
      BY <2>2, IdFacts
    <2>4. tr \in TransportTypes /\ tr.tls = place /\ tr.hook = Ensured(c).hook
      BY <1>1, <2>3 DEF TransportTypes
    <2>5. cfg \in ConfigTypes /\ H2 \subseteq cfg.protos
      BY <1>1 DEF ConfigTypes, ensureHTTP2NextProtos
    <2>6. /\ client[c].handshake = "none" => tr.hook.bound = Nil
          /\ client[c].handshake # "none" =>
               tr.hook = [callback |-> client[c].handshake, bound |-> ensureTransport(c)]
      BY <1>0, <2>4, EnsuredFacts
    <2> HIDE DEF place, tr, cfg
    <2> QED BY <1>0, <2>1, <2>3, <2>4, <2>5, <2>6, InstallStep
  <1>7. CASE UpdateTLS(c)
    <2> DEFINE cfg == [CurrentConfig(c) EXCEPT !.name = "option"]
    <2>1. cfg \in ConfigTypes
      BY <1>1 DEF ConfigTypes
    <2>2. setTransportTLSConfig(c, client[c], cfg)
      BY <1>7 DEF UpdateTLS
    <2> HIDE DEF cfg
    <2> QED BY <1>0, <2>1, <2>2, TLSStep
  <1>8. CASE AddRootCAs(c)
    <2> DEFINE roots == CurrentConfig(c).roots
               cfg == [CurrentConfig(c) EXCEPT !.roots = GrownRoots(roots)]
    <2>1. nA + 1 \in Ids
      BY <1>0, IdFacts, ConfigAssumption DEF CanWrite, Room
    <2>2. roots \in [array : Ids \cup {Nil}, len : Nat]
      BY <1>1 DEF ConfigTypes
    <2>3. GrownRoots(roots) \in [array : Ids \cup {Nil}, len : Nat]
      BY <2>1, <2>2 DEF GrownRoots
    <2>4. cfg \in ConfigTypes
      BY <1>1, <2>3 DEF ConfigTypes
    <2>5. setTransportTLSConfig(c, client[c], cfg)
      BY <1>8 DEF AddRootCAs
    <2> HIDE DEF cfg
    <2> QED BY <1>0, <2>4, <2>5, TLSStep
  <1>9. CASE WithSession(c)
    <2> DEFINE new == [client[c] EXCEPT !.jar = IF @ = "none" THEN "session" ELSE @]
               cfg == [CurrentConfig(c) EXCEPT !.cache = IF @ = "none" THEN "session" ELSE @]
    <2>1. new \in ClientTypes /\ new.handshake = client[c].handshake
      BY <1>0 DEF ClientTypes
    <2>2. cfg \in ConfigTypes
      BY <1>1 DEF ConfigTypes
    <2>3. setTransportTLSConfig(c, new, cfg)
      BY <1>9 DEF WithSession
    <2> HIDE DEF new, cfg
    <2> QED BY <1>0, <2>1, <2>2, <2>3, TLSStep
  <1>10. CASE RefuseRootCAs(c)
    <2>1. ASSUME NEW tr, tr = Ensured(c), InstallTransport(c, client[c], tr) PROVE NetInv'
      BY <1>0, <1>1, <2>1, TransportStep
    <2> QED BY <1>10, <2>1 DEF RefuseRootCAs
  <1> QED BY <1>2, <1>3, <1>4, <1>5, <1>6, <1>7, <1>8, <1>9, <1>10

LEMMA ReplaceSteps ==
    ASSUME NetInv, NEW c \in Clients, WithTransport(c) \/ WithHTTPClient(c)
    PROVE  NetInv'
  <1>1. PICK t \in {given[Caller], Nil, Custom}, jar \in {"none", "caller", client[c].jar} :
           /\ client' = [client EXCEPT ![c] =
                  [client[c] EXCEPT !.transport = Copied(t), !.handshake = "none", !.jar = jar]]
           /\ CopyTransport(t, "none")
    <2>0. client[c] \in ClientTypes
      BY ClientTyped
    <2>1. CASE WithTransport(c)
      <3>1. PICK t \in {given[Caller], Nil, Custom} :
               /\ client' = [client EXCEPT ![c] = [client[c] EXCEPT !.transport = Copied(t), !.handshake = "none"]]
               /\ CopyTransport(t, "none")
        BY <2>1 DEF WithTransport, SetOwn
      <3>2. [client[c] EXCEPT !.transport = Copied(t), !.handshake = "none"]
              = [client[c] EXCEPT !.transport = Copied(t), !.handshake = "none", !.jar = client[c].jar]
        BY <2>0 DEF ClientTypes
      <3> QED BY <3>1, <3>2
    <2>2. CASE WithHTTPClient(c)
      BY <2>2 DEF WithHTTPClient, SetOwn
    <2> QED BY <2>1, <2>2
  <1>2. Room /\ UNCHANGED <<export, given>>
    BY DEF WithTransport, WithHTTPClient
  <1> DEFINE new == [client[c] EXCEPT !.transport = Copied(t), !.handshake = "none", !.jar = jar]
  <1>3. client[c] \in ClientTypes /\ client \in [Clients -> ClientTypes] /\ given[Caller] \in Ids /\ Types
    BY ClientTyped DEF NetInv, Types
  <1>4. new.transport = Copied(t) /\ new.handshake = "none"
    BY <1>3 DEF ClientTypes
  <1>5. client' = [client EXCEPT ![c] = new]
    BY <1>1
  <1>6. Copied(t) \in Ids \cup {Nil, Custom} => new \in ClientTypes
    BY <1>3 DEF ClientTypes
  <1> HIDE DEF new
  <1>7. c \in Holders /\ TransportOf(c)' = Copied(t) /\ client'[c].handshake = "none"
    BY <1>3, <1>4, <1>5, HolderKinds DEF TransportOf
  <1>8. /\ \A y \in Holders \ {c} : TransportOf(y)' = TransportOf(y)
        /\ \A d \in Clients \ {c} : client'[d].handshake = client[d].handshake
    BY <1>2, <1>3, <1>5 DEF TransportOf
  <1>9. /\ t \in Ids \cup {Nil, Custom}
        /\ t \in Ids => t = given[Caller] /\ Caller \in Holders /\ TransportOf(Caller) = t
    BY <1>3, IdFacts, HolderKinds
  <1>10. t \in Ids => transports[t].hook.bound = Nil
    BY <1>9, HolderKinds DEF NetInv, Unbound
  <1>11. PICK h \in Handshakes \cup {"none"} : h = "none"
    OBVIOUS
  <1>12. CopyTransport(t, h) /\ client'[c].handshake = h
    BY <1>1, <1>7, <1>11
  <1>13. /\ OneHolder(c) /\ transports' \in [Ids -> TransportTypes] /\ configs' \in [Ids -> ConfigTypes]
         /\ nT' \in Ids /\ nK' \in Ids /\ Copied(t) \in Ids \cup {Nil, Custom}
    BY <1>2, <1>7, <1>8, <1>9, <1>10, <1>11, <1>12, CopyStep
  <1>14. client' \in [Clients -> ClientTypes]
    BY <1>3, <1>5, <1>6, <1>13
  <1>15. Types'
    BY <1>2, <1>3, <1>13, <1>14 DEF Types
  <1> QED BY <1>7, <1>13, <1>15, OneHolderPreserves

\* The transport of a live client is what it is copied from.
LEMMA CopySource ==
    ASSUME NetInv, NEW b \in Clients
    PROVE  /\ client[b].transport \in Ids \cup {Nil, Custom} /\ client[b].handshake \in Handshakes \cup {"none"}
           /\ client[b].transport \in Ids => \E y \in Holders : TransportOf(y) = client[b].transport
           /\ client[b].handshake = "none" /\ client[b].transport \in Ids
                => transports[client[b].transport].hook.bound = Nil
           /\ client[b].handshake # "none" => client[b].transport \in Ids
  <1>1. client[b].transport \in Ids \cup {Nil, Custom} /\ client[b].handshake \in Handshakes \cup {"none"}
    BY ClientTyped DEF ClientTypes
  <1>2. b \in Holders /\ TransportOf(b) = client[b].transport
    BY HolderKinds
  <1> QED BY <1>1, <1>2 DEF NetInv, Unbound, HandshakeOwn

LEMMA CloneStep ==
    ASSUME NetInv, NEW c \in Clients, NEW b \in Clients, Clone(c, b)
    PROVE  NetInv'
  <1> DEFINE t == client[b].transport  h == client[b].handshake
             new == [client[b] EXCEPT !.status = "building", !.transport = Copied(t)]
  <1>1. client[b] \in ClientTypes /\ client \in [Clients -> ClientTypes] /\ Types
    BY ClientTyped DEF NetInv
  <1>2. /\ client' = [client EXCEPT ![c] = new] /\ CopyTransport(t, h) /\ Room
        /\ UNCHANGED <<export, given>>
    BY DEF Clone, clone
  <1>3. new.transport = Copied(t) /\ new.handshake = h
    BY <1>1 DEF ClientTypes
  <1>4. Copied(t) \in Ids \cup {Nil, Custom} => new \in ClientTypes
    BY <1>1 DEF ClientTypes
  <1> HIDE DEF new
  <1>5. c \in Holders /\ TransportOf(c)' = Copied(t) /\ client'[c].handshake = h
    BY <1>1, <1>2, <1>3, HolderKinds DEF TransportOf
  <1>6. /\ \A y \in Holders \ {c} : TransportOf(y)' = TransportOf(y)
        /\ \A d \in Clients \ {c} : client'[d].handshake = client[d].handshake
    BY <1>1, <1>2 DEF TransportOf
  <1>7. /\ t \in Ids \cup {Nil, Custom} /\ h \in Handshakes \cup {"none"}
        /\ t \in Ids => \E y \in Holders : TransportOf(y) = t
        /\ h = "none" /\ t \in Ids => transports[t].hook.bound = Nil
        /\ h # "none" => t \in Ids
    BY CopySource
  <1> HIDE DEF t, h
  <1>8. /\ OneHolder(c) /\ transports' \in [Ids -> TransportTypes] /\ configs' \in [Ids -> ConfigTypes]
        /\ nT' \in Ids /\ nK' \in Ids /\ Copied(t) \in Ids \cup {Nil, Custom}
    BY <1>2, <1>5, <1>6, <1>7, CopyStep
  <1>9. client' \in [Clients -> ClientTypes]
    BY <1>1, <1>2, <1>4, <1>8
  <1>10. Types'
    BY <1>1, <1>2, <1>8, <1>9 DEF Types
  <1> QED BY <1>5, <1>8, <1>10, OneHolderPreserves

LEMMA ExportStep ==
    ASSUME NetInv, NEW e \in Exports, NEW c \in Clients, AsHTTPClient(e, c)
    PROVE  NetInv'
  <1> DEFINE t == client[c].transport  h == client[c].handshake
             new == [status |-> "live", jar |-> client[c].jar, transport |-> Copied(t)]
  <1>1. /\ client[c] \in ClientTypes /\ client \in [Clients -> ClientTypes]
        /\ export \in [Exports -> ExportTypes] /\ Types
    BY ClientTyped DEF NetInv, Types
  <1>2. /\ export' = [export EXCEPT ![e] = new] /\ CopyTransport(t, h) /\ Room
        /\ UNCHANGED <<client, given>>
    BY DEF AsHTTPClient
  <1>3. new.transport = Copied(t)
    OBVIOUS
  <1>4. Copied(t) \in Ids \cup {Nil, Custom} => new \in ExportTypes
    BY <1>1 DEF ClientTypes, ExportTypes
  <1> HIDE DEF new
  <1>5. e \in Holders /\ e \notin Clients /\ TransportOf(e)' = Copied(t)
    BY <1>1, <1>2, <1>3, HolderKinds DEF TransportOf
  <1>6. /\ \A y \in Holders \ {e} : TransportOf(y)' = TransportOf(y)
        /\ \A d \in Clients \ {e} : client'[d].handshake = client[d].handshake
    BY <1>1, <1>2 DEF TransportOf
  <1>7. /\ t \in Ids \cup {Nil, Custom} /\ h \in Handshakes \cup {"none"}
        /\ t \in Ids => \E y \in Holders : TransportOf(y) = t
        /\ h = "none" /\ t \in Ids => transports[t].hook.bound = Nil
        /\ h # "none" => t \in Ids
    BY CopySource
  <1> HIDE DEF t, h
  <1>8. /\ OneHolder(e) /\ transports' \in [Ids -> TransportTypes] /\ configs' \in [Ids -> ConfigTypes]
        /\ nT' \in Ids /\ nK' \in Ids /\ Copied(t) \in Ids \cup {Nil, Custom}
    BY <1>2, <1>5, <1>6, <1>7, CopyStep
  <1>9. export' \in [Exports -> ExportTypes]
    BY <1>1, <1>2, <1>4, <1>8
  <1>10. Types'
    BY <1>1, <1>2, <1>8, <1>9 DEF Types
  <1> QED BY <1>5, <1>8, <1>10, OneHolderPreserves

LEMMA EditStep ==
    ASSUME NetInv, NEW x \in Holders, OwnerEdits(TransportOf(x))
    PROVE  NetInv'
  <1> DEFINE t == TransportOf(x)  k == transports[t].tls
  <1>1. /\ t \in Ids /\ UNCHANGED <<client, export, given, nT, nK>>
        /\ \/ transports' = [transports EXCEPT ![t].limit = 2] /\ UNCHANGED configs
           \/ /\ k # Nil /\ UNCHANGED transports
              /\ configs' = [configs EXCEPT ![k].name = "edited"]
    BY DEF OwnerEdits
  <1>2. /\ Types /\ transports \in [Ids -> TransportTypes] /\ configs \in [Ids -> ConfigTypes]
        /\ nT \in Nat /\ nK \in Nat
    BY IdFacts DEF NetInv, Types
  <1>3. transports[t] \in TransportTypes /\ k \in Ids \cup {Nil} /\ k = ConfigOf(x) /\ t <= nT /\ k <= nK
    BY <1>1, <1>2, TransportTyped DEF TransportTypes, NetInv, Allocated
  <1>4. /\ transports' \in [Ids -> TransportTypes]
        /\ transports'[t].tls = k /\ transports'[t].hook = transports[t].hook
        /\ transports'[t].http2 = transports[t].http2
        /\ \A i \in Ids : i # t => transports'[i] = transports[i]
    <2>1. CASE transports' = [transports EXCEPT ![t].limit = 2]
      BY <1>1, <1>2, <1>3, <2>1 DEF TransportTypes
    <2>2. CASE UNCHANGED transports
      BY <1>2, <2>2
    <2> QED BY <1>1, <2>1, <2>2
  <1>5. /\ configs' \in [Ids -> ConfigTypes]
        /\ k # Nil => configs'[k].protos = configs[k].protos
        /\ \A i \in Ids : i # k => configs'[i] = configs[i]
    <2>1. CASE k # Nil /\ configs' = [configs EXCEPT ![k].name = "edited"]
      <3>1. k \in Ids /\ configs[k] \in ConfigTypes
        BY <1>2, <1>3, <2>1
      <3>2. [configs[k] EXCEPT !.name = "edited"] \in ConfigTypes
            /\ [configs[k] EXCEPT !.name = "edited"].protos = configs[k].protos
        BY <3>1 DEF ConfigTypes
      <3> QED BY <1>2, <2>1, <3>1, <3>2
    <2>2. CASE UNCHANGED configs
      BY <1>2, <2>2
    <2> QED BY <1>1, <2>1, <2>2
  <1>6. \A y \in Holders : TransportOf(y)' = TransportOf(y)
    BY <1>1 DEF TransportOf
  <1>7. /\ transports[t].hook.bound \in {Nil, t}
        /\ transports[t].http2 => k # Nil /\ H2 \subseteq configs[k].protos
        /\ x \in Clients /\ client[x].handshake # "none" =>
              transports[t].hook = [callback |-> client[x].handshake, bound |-> t]
        /\ x \notin Exports /\ (x \in Clients => client[x].handshake = "none") =>
              transports[t].hook.bound = Nil
    BY <1>1, HolderKinds DEF NetInv, HandshakeOwn, HTTP2Offered, Unbound
  <1>8. /\ \A i \in 1..nT : i \in Ids
        /\ \A i \in 1..nK : i \in Ids
    BY <1>2, ConfigAssumption DEF Types, Ids
  <1>9. x = Caller => ConfigOf(x)' # Nil
    BY <1>1, <1>3, <1>4, <1>6 DEF NetInv, CallerHasTLS, ConfigOf
  <1>10. Types'
    BY <1>1, <1>2, <1>4, <1>5 DEF Types
  <1>11. TransportOf(x)' = t
    BY <1>6
  <1> HIDE DEF t, k
  <1>12. OneHolder(x)
    BY <1>1, <1>2, <1>3, <1>4, <1>5, <1>6, <1>7, <1>8, <1>9, <1>11 DEF OneHolder, Sound, t
  <1> QED BY <1>10, <1>12, OneHolderPreserves

-----------------------------------------------------------------------------
\* The arrays behind slices

SliceShapes ==
    /\ defaults = [c \in Clients |-> defaults[c]]
    /\ request = [r \in Requests |-> request[r]]
    /\ \A c \in Clients : defaults[c] = [array |-> defaults[c].array, len |-> defaults[c].len]

SlicesOwn ==
    \A x, y \in Clients \cup Requests : x # y /\ ArrayOf(x) # Nil => ArrayOf(x) # ArrayOf(y)

ArrayInv ==
    /\ nA \in Ids /\ SliceShapes
    /\ \A x \in Clients \cup Requests : ArrayOf(x) \in Ids \cup {Nil} /\ ArrayOf(x) <= nA
    /\ SlicesOwn

\* A step that changes at most the slice of x, which keeps its array, gives it
\* up or takes a new one, lets no two slices share an array.
LEMMA OneSlice ==
    ASSUME ArrayInv, SliceShapes', NEW x \in Clients \cup Requests, nA' \in Ids, nA <= nA',
           \A y \in (Clients \cup Requests) \ {x} : ArrayOf(y)' = ArrayOf(y),
           ArrayOf(x)' \in {Nil, ArrayOf(x)} \/ (ArrayOf(x)' = nA + 1 /\ nA' = nA + 1)
    PROVE  ArrayInv'
  <1>1. nA \in Nat /\ nA >= 1 /\ nA' \in Nat /\ Nil = 0
    BY IdFacts DEF ArrayInv
  <1>2. \A y \in Clients \cup Requests : ArrayOf(y) \in Ids \cup {Nil} /\ ArrayOf(y) <= nA /\ ArrayOf(y) \in Nat
    BY IdFacts DEF ArrayInv
  <1>3. ArrayOf(x)' \in Ids \cup {Nil} /\ ArrayOf(x)' <= nA'
    <2>1. CASE ArrayOf(x)' \in {Nil, ArrayOf(x)}
      BY <1>1, <1>2, <2>1
    <2>2. CASE ArrayOf(x)' = nA + 1 /\ nA' = nA + 1
      BY <1>1, <2>2
    <2> QED BY <2>1, <2>2
  <1>4. \A y \in Clients \cup Requests : ArrayOf(y)' \in Ids \cup {Nil} /\ ArrayOf(y)' <= nA'
    <2>1. ASSUME NEW y \in Clients \cup Requests, y # x
          PROVE ArrayOf(y)' \in Ids \cup {Nil} /\ ArrayOf(y)' <= nA'
      <3>1. ArrayOf(y)' = ArrayOf(y)
        BY <2>1
      <3> QED BY <1>1, <1>2, <3>1
    <2> QED BY <1>3, <2>1
  <1>5. ASSUME NEW y \in Clients \cup Requests, y # x
        PROVE /\ ArrayOf(y)' = ArrayOf(y)
              /\ ArrayOf(y) # Nil => ArrayOf(y) # ArrayOf(x)'
    <2>1. ArrayOf(y)' = ArrayOf(y) /\ ArrayOf(y) \in Nat /\ ArrayOf(y) <= nA
      BY <1>2, <1>5
    <2>2. ArrayOf(y) # Nil => ArrayOf(y) # ArrayOf(x)
      BY <1>5 DEF ArrayInv, SlicesOwn
    <2> QED BY <1>1, <2>1, <2>2
  <1>6. SlicesOwn'
    <2>1. ASSUME NEW y \in Clients \cup Requests, NEW z \in Clients \cup Requests, y # z, ArrayOf(y)' # Nil
          PROVE ArrayOf(y)' # ArrayOf(z)'
      <3>1. CASE y = x
        BY <1>5, <2>1, <3>1
      <3>2. CASE z = x
        BY <1>5, <2>1, <3>2
      <3>3. CASE y # x /\ z # x
        BY <1>5, <2>1, <3>3 DEF ArrayInv, SlicesOwn
      <3> QED BY <3>1, <3>2, <3>3
    <2> QED BY <2>1 DEF SlicesOwn
  <1> QED BY <1>4, <1>6 DEF ArrayInv

LEMMA SliceKinds ==
    /\ \A c \in Clients : c \notin Requests /\ ArrayOf(c) = defaults[c].array
    /\ \A r \in Requests : r \notin Clients /\ ArrayOf(r) = request[r].defaults.array
  BY ConfigAssumption DEF ArrayOf

\* Client c gets slice s.
LEMMA ClientSlice ==
    ASSUME ArrayInv, NEW c \in Clients, NEW s, s = [array |-> s.array, len |-> s.len],
           defaults' = [defaults EXCEPT ![c] = s], UNCHANGED request, nA' \in Ids, nA <= nA',
           s.array \in {Nil, defaults[c].array} \/ (s.array = nA + 1 /\ nA' = nA + 1)
    PROVE  ArrayInv'
  <1>1. SliceShapes
    BY DEF ArrayInv
  <1>2. SliceShapes' /\ defaults'[c] = s /\ \A d \in Clients \ {c} : defaults'[d] = defaults[d]
    BY <1>1 DEF SliceShapes
  <1>3. ArrayOf(c) = defaults[c].array /\ ArrayOf(c)' = s.array
    BY <1>2 DEF ArrayOf
  <1>4. \A y \in (Clients \cup Requests) \ {c} : ArrayOf(y)' = ArrayOf(y)
    BY <1>2 DEF ArrayOf
  <1> QED BY <1>2, <1>3, <1>4, OneSlice

LEMMA NothingSliced ==
    ASSUME ArrayInv, UNCHANGED <<defaults, request>>, nA' \in Ids, nA <= nA'
    PROVE  ArrayInv'
  <1>1. \A x \in Clients \cup Requests :
           /\ ArrayOf(x)' = ArrayOf(x) /\ ArrayOf(x) \in Ids \cup {Nil} /\ ArrayOf(x) \in Nat
           /\ ArrayOf(x) <= nA
    BY IdFacts DEF ArrayInv, ArrayOf
  <1>2. nA \in Nat /\ nA' \in Nat
    BY IdFacts DEF ArrayInv
  <1>3. \A x \in Clients \cup Requests : ArrayOf(x)' \in Ids \cup {Nil} /\ ArrayOf(x)' <= nA'
    BY <1>1, <1>2
  <1>4. SlicesOwn'
    BY <1>1 DEF ArrayInv, SlicesOwn
  <1>5. SliceShapes'
    BY DEF ArrayInv, SliceShapes
  <1> QED BY <1>3, <1>4, <1>5 DEF ArrayInv

LEMMA AppendStep ==
    ASSUME ArrayInv, Room, NEW c \in Clients, NEW all, NEW s, NEW v,
           s.array = defaults[c].array, AppendTo(c, all, s, v)
    PROVE  ArrayInv'
  <1> DEFINE fits == s.array # Nil /\ s.len < Len(all[s.array])
             new == [array |-> IF fits THEN s.array ELSE nA + 1, len |-> s.len + 1]
  <1>1. nA \in Nat /\ nA \in Ids /\ nA + 1 \in Ids
    BY IdFacts, ConfigAssumption DEF ArrayInv, Room, Ids
  <1>2. /\ defaults' = [defaults EXCEPT ![c] = new] /\ UNCHANGED request
        /\ fits => nA' = nA
        /\ ~fits => nA' = nA + 1
    BY DEF AppendTo
  <1>3. new = [array |-> new.array, len |-> new.len]
    OBVIOUS
  <1>4. (fits => new.array = defaults[c].array) /\ (~fits => new.array = nA + 1)
    OBVIOUS
  <1>5. nA' \in Ids /\ nA <= nA'
    BY <1>1, <1>2
  <1> HIDE DEF new
  <1> QED BY <1>2, <1>3, <1>4, <1>5, ClientSlice

LEMMA ArrayStep ==
    ASSUME ArrayInv, [Next]_vars
    PROVE  ArrayInv'
  <1>0. nA \in Nat /\ nA \in Ids /\ (Room => nA + 1 \in Ids)
    BY IdFacts, ConfigAssumption DEF ArrayInv, Room, Ids
  <1>1. CASE UNCHANGED vars
    BY <1>0, <1>1, NothingSliced DEF vars, heap
  <1>2. ASSUME NEW c \in Clients, Fail(c) PROVE ArrayInv'
    <2>1. NilSlice = [array |-> NilSlice.array, len |-> NilSlice.len] /\ NilSlice.array = Nil
      BY DEF NilSlice
    <2>2. defaults' = [defaults EXCEPT ![c] = NilSlice] /\ UNCHANGED <<request, nA>>
      BY <1>2 DEF Fail, heap
    <2>3. nA' \in Ids /\ nA <= nA'
      BY <1>0, <2>2
    <2> HIDE DEF NilSlice
    <2> QED BY <2>1, <2>2, <2>3, ClientSlice
  <1>3. ASSUME NEW c \in Clients, New(c) \/ Finish(c) PROVE ArrayInv'
    <2>1. CASE Fail(c)
      BY <1>2, <2>1
    <2>2. CASE ~Fail(c)
      <3>1. UNCHANGED <<defaults, request, nA>>
        BY <1>3, <2>2 DEF New, Finish, heap
      <3> QED BY <1>0, <3>1, NothingSliced
    <2> QED BY <2>1, <2>2
  <1>4. ASSUME NEW c \in Clients, RejectOption(c) \/ NoStandardTransport(c) PROVE ArrayInv'
    BY <1>2, <1>4 DEF RejectOption, NoStandardTransport
  <1>5. ASSUME NEW c \in Clients,
               WithBaseURL(c) \/ WithCookieJar(c) \/ WithTransport(c) \/ WithHTTPClient(c)
        PROVE ArrayInv'
    <2>1. UNCHANGED <<defaults, request, nA>>
      BY <1>5 DEF WithBaseURL, WithCookieJar, WithTransport, WithHTTPClient, heap
    <2> QED BY <1>0, <2>1, NothingSliced
  <1>6. ASSUME NEW c \in Clients, WithMiddleware(c) PROVE ArrayInv'
    BY <1>6, AppendStep DEF WithMiddleware
  <1>7. ASSUME NEW c \in Clients, WithDefaultHeader(c) PROVE ArrayInv'
    <2>1. PICK kept : /\ Room
                      /\ AppendTo(c, Filtered(defaults[c], kept), [defaults[c] EXCEPT !.len = Len(kept)],
                                  Cell("header", c))
      BY <1>7 DEF WithDefaultHeader
    <2>2. defaults[c] = [array |-> defaults[c].array, len |-> defaults[c].len]
      BY DEF ArrayInv, SliceShapes
    <2>3. [defaults[c] EXCEPT !.len = Len(kept)].array = defaults[c].array
      BY <2>2
    <2> QED BY <2>1, <2>3, AppendStep
  <1>8. ASSUME NEW c \in Clients,
               ApplyTransport(c) \/ WithDialOption(c) \/ WithTLSHandshake(c) \/ WithTLSConfig(c)
                  \/ WithHTTP2(c) \/ UpdateTLS(c) \/ RefuseRootCAs(c) \/ WithSession(c)
        PROVE ArrayInv'
    <2>1. UNCHANGED <<defaults, request, nA>>
      BY <1>8 DEF ApplyTransport, SetLimit, SetProxy, WithDialOption, ApplyDial, WithTLSHandshake, WithTLSConfig, WithHTTP2,
                  UpdateTLS, RefuseRootCAs, WithSession, setTransportTLSConfig, InstallTransport, Install
    <2> QED BY <1>0, <2>1, NothingSliced
  <1>9. ASSUME NEW c \in Clients, AddRootCAs(c) PROVE ArrayInv'
    <2>1. UNCHANGED <<defaults, request>> /\ nA' = nA + 1 /\ Room
      BY <1>9 DEF AddRootCAs, setTransportTLSConfig, Install, CanWrite
    <2> QED BY <1>0, <2>1, NothingSliced
  <1>10. ASSUME NEW c \in Clients, NEW b \in Clients, Clone(c, b) PROVE ArrayInv'
    <2> DEFINE s == CloneSlice(defaults[b])
    <2>1. defaults' = [defaults EXCEPT ![c] = s] /\ UNCHANGED request /\ nA' = nA + 1 /\ Room
      BY <1>10 DEF Clone
    <2>2. defaults[b] = [array |-> defaults[b].array, len |-> defaults[b].len]
      BY DEF ArrayInv, SliceShapes
    <2>3. s = [array |-> s.array, len |-> s.len] /\ (s.array = Nil \/ s.array = nA + 1)
      BY <2>2 DEF CloneSlice
    <2> HIDE DEF s
    <2>4. nA' \in Ids /\ nA <= nA'
      BY <1>0, <2>1
    <2> QED BY <2>1, <2>3, <2>4, ClientSlice
  <1>11. ASSUME NEW e \in Exports, NEW c \in Clients, AsHTTPClient(e, c) PROVE ArrayInv'
    <2>1. UNCHANGED <<defaults, request, nA>>
      BY <1>11 DEF AsHTTPClient
    <2> QED BY <1>0, <2>1, NothingSliced
  <1>12. ASSUME NEW r \in Requests, NEW c \in Clients, snapshot(r, c) PROVE ArrayInv'
    <2> DEFINE s == CloneSlice(defaults[c])
               new == [sent |-> FALSE, reading |-> {c}, base |-> "empty", defaults |-> s]
    <2>1. request' = [request EXCEPT ![r] = new] /\ UNCHANGED defaults /\ nA' = nA + 1 /\ Room
      BY <1>12 DEF snapshot
    <2>2. new.defaults = s /\ (s.array = Nil \/ s.array = nA + 1)
      BY DEF CloneSlice
    <2> HIDE DEF s, new
    <2>3. SliceShapes
      BY DEF ArrayInv
    <2>4. SliceShapes' /\ request'[r] = new /\ \A q \in Requests \ {r} : request'[q] = request[q]
      BY <2>1, <2>3 DEF SliceShapes
    <2>5. ArrayOf(r)' = s.array
      BY <2>2, <2>4, SliceKinds DEF ArrayOf
    <2>6. \A y \in (Clients \cup Requests) \ {r} : ArrayOf(y)' = ArrayOf(y)
      BY <2>1, <2>4 DEF ArrayOf
    <2>7. nA' \in Ids /\ nA <= nA'
      BY <1>0, <2>1
    <2> QED BY <2>1, <2>2, <2>4, <2>5, <2>6, <2>7, OneSlice
  <1>13. ASSUME NEW r \in Requests, NEW c \in Clients, snapshotEnds(r, c) PROVE ArrayInv'
    <2> DEFINE new == [sent |-> TRUE, reading |-> {}, base |-> client[c].base, defaults |-> request[r].defaults]
    <2>1. request' = [request EXCEPT ![r] = new] /\ UNCHANGED <<defaults, nA>>
      BY <1>13 DEF snapshotEnds, heap
    <2>2. new.defaults = request[r].defaults
      OBVIOUS
    <2> HIDE DEF new
    <2>3. SliceShapes
      BY DEF ArrayInv
    <2>4. SliceShapes' /\ request'[r] = new /\ \A q \in Requests \ {r} : request'[q] = request[q]
      BY <2>1, <2>3 DEF SliceShapes
    <2>5. \A y \in Clients \cup Requests : ArrayOf(y)' = ArrayOf(y)
      BY <2>1, <2>2, <2>4 DEF ArrayOf
    <2> QED BY <1>0, <2>1, <2>4, <2>5, OneSlice
  <1>14. ASSUME Edits PROVE ArrayInv'
    <2>1. UNCHANGED <<defaults, request, nA>>
      BY <1>14 DEF Edits, OwnerEdits
    <2> QED BY <1>0, <2>1, NothingSliced
  <1> QED
    BY <1>1, <1>3, <1>4, <1>5, <1>6, <1>7, <1>8, <1>9, <1>10, <1>11, <1>12, <1>13, <1>14 DEF Next, Option

\* A step that leaves the network settings alone keeps what is said of them.
LEMMA NetUntouched ==
    ASSUME NetInv, UNCHANGED <<client, export, given, transports, configs, nT, nK>>
    PROVE  NetInv'
  <1>1. \A x : TransportOf(x)' = TransportOf(x) /\ ConfigOf(x)' = ConfigOf(x)
    BY DEF TransportOf, ConfigOf
  <1>2. Types'
    BY DEF NetInv, Types
  <1>3. CallerHasTLS'
    BY <1>1 DEF NetInv, CallerHasTLS
  <1>4. Unbound'
    BY <1>1 DEF NetInv, Unbound
  <1>5. Allocated' /\ TransportsOwn'
    BY <1>1 DEF NetInv, Allocated, TransportsOwn
  <1>6. HandshakeOwn'
    BY <1>1 DEF NetInv, HandshakeOwn
  <1>7. HTTP2Offered'
    BY <1>1 DEF NetInv, HTTP2Offered
  <1> QED BY <1>2, <1>3, <1>4, <1>5, <1>6, <1>7 DEF NetInv

LEMMA NetStep ==
    ASSUME NetInv, nA \in Ids, [Next]_vars
    PROVE  NetInv'
  <1>1. CASE UNCHANGED vars
    BY <1>1, NetUntouched DEF vars, heap
  <1>2. ASSUME NEW c \in Clients, New(c) \/ Option(c) \/ Finish(c) PROVE NetInv'
    BY <1>2, OwnSteps, WriteSteps, ReplaceSteps DEF Option
  <1>3. ASSUME NEW r \in Requests, NEW c \in Clients, snapshot(r, c) \/ snapshotEnds(r, c) PROVE NetInv'
    <2>1. UNCHANGED <<client, export, given, transports, configs, nT, nK>>
      BY <1>3 DEF snapshot, snapshotEnds, heap
    <2> QED BY <2>1, NetUntouched
  <1>4. ASSUME Edits PROVE NetInv'
    <2>1. PICK x \in Holders : OwnerEdits(TransportOf(x))
      BY <1>4, HolderKinds DEF Edits
    <2> QED BY <2>1, EditStep
  <1> QED BY <1>1, <1>2, <1>3, <1>4, CloneStep, ExportStep DEF Next

-----------------------------------------------------------------------------
\* The initial states

LEMMA InitNet == Init => NetInv
  <1> SUFFICES ASSUME Init PROVE NetInv
    OBVIOUS
  <1>1. PICK start \in Starts :
        /\ given = [s \in Givens |-> IF s = Default THEN start.default ELSE 2]
        /\ transports = [t \in Ids |->
                CASE t = 1 -> [BlankTransport EXCEPT !.dial = DefaultDial, !.tls = start.tls]
                  [] t = 2 -> [BlankTransport EXCEPT !.limit = 3, !.proxy = "caller",
                                  !.http2 = start.http2, !.hook = RawHook, !.tls = 2]
                  [] OTHER -> BlankTransport]
        /\ configs = [k \in Ids |->
                CASE k = 1 -> [NoConfig EXCEPT !.protos = H2]
                  [] k = 2 -> [name |-> "caller", roots |-> [array |-> 1, len |-> 1], cache |-> "none",
                               protos |-> IF start.http2 THEN H2 ELSE {}]
                  [] OTHER -> NoConfig]
    BY DEF Init
  <1>2. start.default \in {1, Custom} /\ start.tls \in {Nil, 1} /\ start.http2 \in BOOLEAN
    BY ConfigAssumption
  <1>3. /\ client = [c \in Clients |-> NoClient] /\ export = [e \in Exports |-> NoExport]
        /\ nT = 2 /\ nK = 2
    BY DEF Init
  <1>4. /\ transports \in [Ids -> TransportTypes]
        /\ transports[1].tls = start.tls /\ transports[2].tls = 2
        /\ transports[1].hook.bound = Nil /\ transports[2].hook.bound = Nil
        /\ transports[1].http2 = FALSE /\ transports[2].http2 = start.http2
    <2>3. BlankTransport \in TransportTypes
      BY DEF BlankTransport, TransportTypes, NoDial, NoHook
    <2>1. [BlankTransport EXCEPT !.dial = DefaultDial, !.tls = start.tls] \in TransportTypes
      <3>1. DefaultDial \in [kind : {"none", "default", "context", "dialer"}, parts : SUBSET DialParts]
        BY DEF DefaultDial
      <3>2. start.tls \in Ids \cup {Nil}
        BY <1>2, IdFacts
      <3> QED BY <2>3, <3>1, <3>2 DEF TransportTypes
    <2>2. [BlankTransport EXCEPT !.limit = 3, !.proxy = "caller",
             !.http2 = start.http2, !.hook = RawHook, !.tls = 2] \in TransportTypes
      <3>1. RawHook \in [callback : Handshakes \cup {"none", "raw"}, bound : Ids \cup {Nil}]
        BY DEF RawHook
      <3>2. 2 \in Ids \cup {Nil} /\ 3 \in 0..3 /\ "caller" \in {"env", "none", "url", "caller"}
        BY IdFacts
      <3>3. CASE start.http2 = TRUE
        BY <2>3, <3>1, <3>2, <3>3 DEF TransportTypes
      <3>4. CASE start.http2 = FALSE
        BY <2>3, <3>1, <3>2, <3>4 DEF TransportTypes
      <3> QED BY <1>2, <3>3, <3>4
    <2>4. transports \in [Ids -> TransportTypes]
      BY <1>1, <2>1, <2>2, <2>3
    <2>5. /\ transports[1] = [BlankTransport EXCEPT !.dial = DefaultDial, !.tls = start.tls]
          /\ transports[2] = [BlankTransport EXCEPT !.limit = 3, !.proxy = "caller",
                                !.http2 = start.http2, !.hook = RawHook, !.tls = 2]
      BY <1>1, IdFacts
    <2> QED BY <2>4, <2>5 DEF BlankTransport, NoHook, RawHook
  <1>5. /\ configs \in [Ids -> ConfigTypes]
        /\ start.http2 => configs[2].protos = H2
    <2>1. [NoConfig EXCEPT !.protos = H2] \in ConfigTypes /\ NoConfig \in ConfigTypes
      BY DEF NoConfig, ConfigTypes, NilSlice
    <2>2. [name |-> "caller", roots |-> [array |-> 1, len |-> 1], cache |-> "none",
           protos |-> IF start.http2 THEN H2 ELSE {}] \in ConfigTypes
      BY IdFacts DEF ConfigTypes
    <2>3. configs \in [Ids -> ConfigTypes]
      BY <1>1, <2>1, <2>2
    <2>4. configs[2] = [name |-> "caller", roots |-> [array |-> 1, len |-> 1], cache |-> "none",
                        protos |-> IF start.http2 THEN H2 ELSE {}]
      BY <1>1, IdFacts
    <2> QED BY <2>3, <2>4
  <1>6. /\ \A x \in Clients \cup Exports : TransportOf(x) = Nil
        /\ TransportOf(Caller) = 2 /\ TransportOf(Default) \in {1, Custom}
        /\ given \in [Givens -> Ids \cup {Custom}] /\ given[Caller] \in Ids
    <2>1. given[Caller] = 2 /\ given[Default] = start.default
      BY <1>1, HolderKinds, ConfigAssumption
    <2>2. \A x \in Clients \cup Exports : TransportOf(x) = Nil
      BY <1>3, HolderKinds DEF NoClient, NoExport
    <2> QED BY <1>1, <1>2, <2>1, <2>2, HolderKinds, IdFacts
  <1>7. Types
    <2>1. NoClient \in ClientTypes /\ NoExport \in ExportTypes
      BY DEF NoClient, NoExport, ClientTypes, ExportTypes
    <2> QED BY <1>3, <1>4, <1>5, <1>6, <2>1, IdFacts DEF Types
  <1>8. /\ \A x \in Holders : x \in Clients \cup Exports \/ x = Caller \/ x = Default
        /\ Caller # Default
    BY HolderKinds, ConfigAssumption DEF Givens
  <1>9. /\ \A x \in Clients \cup Exports : ConfigOf(x) = Nil
        /\ ConfigOf(Caller) = 2 /\ ConfigOf(Default) \in {Nil, 1}
    BY <1>2, <1>4, <1>6, IdFacts DEF ConfigOf
  <1>10. Allocated
    BY <1>3, <1>6, <1>8, <1>9, IdFacts DEF Allocated
  <1>11. TransportsOwn
    BY <1>6, <1>8, <1>9, IdFacts DEF TransportsOwn
  <1>12. CallerHasTLS
    BY <1>9, IdFacts DEF CallerHasTLS
  <1>13. \A x \in Holders : TransportOf(x) \in Ids => TransportOf(x) = 1 \/ (TransportOf(x) = 2 /\ x = Caller)
    BY <1>6, <1>8, IdFacts
  <1>14. HandshakeOwn
    BY <1>3, <1>4, <1>13 DEF HandshakeOwn, NoClient
  <1>15. Unbound
    BY <1>4, <1>13, HolderKinds DEF Unbound
  <1>16. HTTP2Offered
    BY <1>4, <1>5, <1>13, IdFacts DEF HTTP2Offered
  <1> QED BY <1>7, <1>10, <1>11, <1>12, <1>14, <1>15, <1>16 DEF NetInv

LEMMA InitArrays == Init => ArrayInv
  <1> SUFFICES ASSUME Init PROVE ArrayInv
    OBVIOUS
  <1>1. /\ defaults = [c \in Clients |-> NilSlice] /\ request = [r \in Requests |-> NoRequest]
        /\ nA = 1
    BY DEF Init
  <1>2. SliceShapes
    BY <1>1 DEF SliceShapes, NilSlice
  <1>3. \A x \in Clients \cup Requests : ArrayOf(x) = Nil
    BY <1>1 DEF ArrayOf, NilSlice, NoRequest
  <1> QED BY <1>1, <1>2, <1>3, IdFacts DEF ArrayInv, SlicesOwn

-----------------------------------------------------------------------------
\* The theorems

\* The strengthened invariant, from which the others follow.
THEOREM ConfigInvariant == Spec => [](NetInv /\ ArrayInv)
  <1>1. Init => NetInv /\ ArrayInv
    BY InitNet, InitArrays
  <1>2. NetInv /\ ArrayInv /\ [Next]_vars => (NetInv /\ ArrayInv)'
    BY NetStep, ArrayStep DEF ArrayInv
  <1> QED BY <1>1, <1>2, PTL DEF Spec

\* The fields of clients and exports, and the numbers of objects, have their
\* types in every reachable state.
THEOREM TypeCorrect == Spec => []TypeOK
  <1>1. NetInv /\ ArrayInv => TypeOK
    BY DEF NetInv, Types, ArrayInv, TypeOK, ClientTypes, ExportTypes
  <1> QED BY <1>1, ConfigInvariant, PTL

\* No transport, tls.Config or array that options and requests use in place is
\* reachable from two owners (transport.go, tls.go, client.go, adapter.go), for
\* any number of clients, exports, requests and options.
THEOREM NothingSharedHolds == Spec => []NothingShared
  <1>1. NetInv /\ ArrayInv => NothingShared
    BY DEF NetInv, TransportsOwn, ArrayInv, SlicesOwn, NothingShared
  <1> QED BY <1>1, ConfigInvariant, PTL

\* Managed TLS handshakes dial with the settings of the client they belong to.
THEOREM HandshakeOwnHolds == Spec => []HandshakeOwn
  <1>1. NetInv /\ ArrayInv => HandshakeOwn
    BY DEF NetInv
  <1> QED BY <1>1, ConfigInvariant, PTL

\* No option makes a client that speaks HTTP/2 stop offering it.
THEOREM HTTP2OfferedHolds == Spec => []HTTP2Offered
  <1>1. NetInv /\ ArrayInv => HTTP2Offered
    BY DEF NetInv
  <1> QED BY <1>1, ConfigInvariant, PTL
=============================================================================
