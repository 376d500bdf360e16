--------------------------- MODULE DeliveryProofs ---------------------------
(***************************************************************************)
(* Proofs about Delivery, for every bound, every set of transport errors   *)
(* and status codes and every kind of middleware the model has.            *)
(*                                                                         *)
(* IInv is the inductive invariant: for every control point of the         *)
(* delivery goroutine it says which bodies are open, who has the derived   *)
(* context, how far the attempt counters are apart, and which bodies the   *)
(* transport has seen.                                                     *)
(***************************************************************************)
EXTENDS Delivery, TLAPS

\* Control points by what can be in hand there.
Early     == {"compile", "open", "chain", "route"}
Looping   == {"attempt", "do", "backoff"}
Answered  == {"decide", "unwind", "finish", "result", "buffer", "streaming", "closing"}
Working   == {"chain", "route", "attempt", "do", "decide", "backoff", "unwind",
              "finish", "result", "buffer", "streaming"}

\* Nothing has happened before the chain is entered.
EarlyInv ==
    pc \in Early =>
        /\ attempt = 0 /\ calls = 0 /\ attempts = 0 /\ sent = {} /\ origCloses = 0
        /\ resp = NoResponse /\ respOpen = {} /\ err = Nil /\ errs = Nil
        /\ pc \in {"compile", "open"} => reqOpen = {} /\ derived = "none"

\* The loop index and the counters. Spent(c) is what c finished handler calls
\* may have used.
Spent(c) == c * (retryMax + 1)

CountInv ==
    /\ attempt <= retryMax
    /\ pc = "backoff" => attempt < retryMax
    /\ pc \in {"attempt", "do", "decide", "backoff", "unwind"} => calls > 0
    /\ pc = "attempt" => attempts <= Spent(calls - 1) + attempt
    /\ pc \in {"do", "decide", "backoff"} => attempts <= Spent(calls - 1) + attempt + 1
    /\ attempts <= Spent(calls)

\* Which response body is open where.
ResponseInv ==
    /\ ~twice
    /\ pc \in Looping => respOpen = {}
    /\ pc = "returned" => respOpen = {}
    /\ pc \in Answered =>
        /\ respOpen = IF resp.present /\ resp.live THEN {resp.id} ELSE {}
        /\ resp.present => resp.id \in {0, attempts}
        /\ (resp.present /\ err = Nil) => resp.live
    /\ pc = "decide" => err \subseteq errs /\ (err = Nil <=> resp.present /\ resp.live)
    /\ pc \in {"buffer", "streaming", "closing"} => resp.present /\ err = Nil
    /\ pc \in {"streaming", "closing"} => b.stream

\* Who has the derived context where.
ContextInv ==
    /\ pc \in Working => derived = (IF b.timeout THEN "held" ELSE "none")
    /\ pc \in {"closing", "returned"} => derived # "held"

\* Request bodies: the transport has seen old ones only, the original is
\* closed at most once, and only two can be open without a handler call.
RequestInv ==
    /\ reqBody <= made
    /\ \A i \in sent : i <= made
    /\ (pc = "attempt" /\ attempt = 0) => reqBody \notin sent
    /\ origCloses \in {0, 1}
    /\ origCloses = 1 => 1 \notin reqOpen
    /\ calls = 0 => attempts = 0
    /\ pc = "chain" => reqOpen \subseteq {1}
    /\ (calls = 0 /\ pc \in {"route", "finish"}) => reqOpen \subseteq {reqBody, 1}
    /\ (calls = 0 /\ pc \in {"result", "buffer", "streaming", "closing", "returned"})
           => reqOpen = {}

\* A canceled attempt, under DefaultRetryIf, is never behind a live loop.
CancelInv ==
    /\ (pc \in Looping /\ ~b.custom) => "canceled" \notin errs
    /\ (pc = "decide" /\ ~b.custom /\ "canceled" \in errs) => "canceled" \in err

IInv ==
    /\ TypeOK /\ EarlyInv /\ CountInv /\ ResponseInv
    /\ ContextInv /\ RequestInv /\ CancelInv

-----------------------------------------------------------------------------
(* What closing does to the state it touches.                              *)

\* CloseResponse keeps the types of what it changes.
LEMMA CloseResponseType ==
  ASSUME TypeOK, CloseResponse
  PROVE  respOpen' \subseteq Nat /\ twice' \in BOOLEAN
<1>1. respOpen' \subseteq respOpen
  BY DEF CloseResponse
<1>2. twice' \in BOOLEAN
  BY Zenon DEF CloseResponse, TypeOK
<1>3. QED
  BY <1>1, <1>2 DEF TypeOK

\* Wherever the invariant says the response in hand has the only open body,
\* closing it leaves none open and is no second Close.
LEMMA CloseResponseInHand ==
  ASSUME TypeOK, ResponseInv, pc \in Answered, CloseResponse
  PROVE  respOpen' = {} /\ ~twice'
<1>1. respOpen = IF resp.present /\ resp.live THEN {resp.id} ELSE {}
  BY DEF ResponseInv
<1>2. ~twice
  BY DEF ResponseInv
<1>3. CASE resp.present /\ resp.live
  BY <1>1, <1>2, <1>3 DEF CloseResponse
<1>4. CASE ~(resp.present /\ resp.live)
  BY <1>1, <1>2, <1>4 DEF CloseResponse
<1>5. QED
  BY <1>3, <1>4

\* CloseRequestBodies keeps the types, closes only, and reaches the body of
\* openDelivery only when that is still open.
LEMMA CloseRequestBodiesType ==
  ASSUME NEW S, TypeOK, CloseRequestBodies(S)
  PROVE  /\ reqOpen' \subseteq Nat \ {0}
         /\ origCloses' \in Nat
         /\ reqOpen' = reqOpen \ S
         /\ (1 \in S \cap reqOpen) => origCloses' = origCloses + 1
         /\ (1 \notin S \cap reqOpen) => origCloses' = origCloses
<1>1. reqOpen' = reqOpen \ S
  BY DEF CloseRequestBodies
<1>2. reqOpen' \subseteq Nat \ {0}
  BY <1>1 DEF TypeOK
<1>3. (1 \in S \cap reqOpen) => origCloses' = origCloses + 1
  BY DEF CloseRequestBodies
<1>4. (1 \notin S \cap reqOpen) => origCloses' = origCloses + 0
  BY DEF CloseRequestBodies
<1>5. origCloses \in Nat
  BY DEF TypeOK
<1>6. QED
  BY <1>1, <1>2, <1>3, <1>4, <1>5

\* At most one Close reaches the body of openDelivery.
LEMMA OriginalClosedOnce ==
  ASSUME NEW S, TypeOK, RequestInv, CloseRequestBodies(S)
  PROVE  origCloses' \in {0, 1} /\ (origCloses' = 1 => 1 \notin reqOpen')
BY CloseRequestBodiesType DEF RequestInv, TypeOK

\* A body with a new number is typed, is the newest, has not been sent and is
\* not the one of openDelivery.
LEMMA FreshBody ==
  ASSUME TypeOK, RequestInv,
         made' = made + 1, reqBody' = made + 1, reqOpen' = reqOpen \cup {made + 1}
  PROVE  /\ made' \in Nat \ {0} /\ reqBody' \in Nat /\ reqOpen' \subseteq Nat \ {0}
         /\ made <= made' /\ reqBody' <= made'
         /\ (1 \in reqOpen' => 1 \in reqOpen)
         /\ reqOpen' \subseteq reqOpen \cup {reqBody'}
         /\ reqBody' \notin sent
<1>1. made \in Nat /\ made > 0 /\ reqOpen \subseteq Nat \ {0}
  BY DEF TypeOK
<1>2. made + 1 \in Nat \ {0} /\ made + 1 # 1
  BY <1>1
<1>3. reqOpen' \subseteq Nat \ {0}
  BY <1>1, <1>2
<1>4. made + 1 \notin sent
  BY <1>1 DEF RequestInv, TypeOK
<1>5. QED
  BY <1>1, <1>2, <1>3, <1>4

-----------------------------------------------------------------------------
(* Compilation and opening keep the invariant. *)

LEMMA CompileFailsStep ==
  ASSUME IInv, CompileFails
  PROVE  IInv'
<1> USE DeliveryAssumption DEF IInv, reqVars, respVars, loopVars, errVars
<1>1. TypeOK'
  BY DEF TypeOK, CompileFails, Causes, PCs, NoResponse, Nil
<1>2. EarlyInv' /\ ContextInv' /\ CancelInv'
  BY <1>1 DEF TypeOK, CompileFails, EarlyInv, ContextInv, CancelInv, Early, Looping, Working, NoResponse, Nil
<1>3. CountInv'
  BY <1>1 DEF TypeOK, CompileFails, CountInv, EarlyInv, Early, Spent
<1>4. ResponseInv'
  BY <1>1 DEF TypeOK, CompileFails, EarlyInv, Early, Nil, ResponseInv, Looping, Answered, NoResponse
<1>5. RequestInv'
  BY <1>1 DEF TypeOK, CompileFails, EarlyInv, Early, RequestInv
<1>6. QED
  BY <1>1, <1>2, <1>3, <1>4, <1>5

LEMMA CompileStep ==
  ASSUME IInv,
         NEW hasRetryPolicy \in BOOLEAN,
         NEW requestMax \in 0..MaxRetry,
         NEW clientMax \in 0..MaxRetry,
         Compile(hasRetryPolicy, requestMax, clientMax)
  PROVE  IInv'
<1> USE DeliveryAssumption DEF IInv, reqVars, respVars, loopVars, errVars
<1>1. TypeOK'
  BY DEF TypeOK, Compile, EffectiveMax, normalize, Causes, PCs, NoResponse, Nil
<1>2. EarlyInv' /\ ContextInv' /\ CancelInv'
  BY <1>1 DEF TypeOK, Compile, EffectiveMax, normalize, EarlyInv, ContextInv, CancelInv, Early, Looping, Working, NoResponse, Nil
<1>3. CountInv'
  BY <1>1 DEF TypeOK, Compile, EffectiveMax, normalize, CountInv, EarlyInv, Early, Spent
<1>4. ResponseInv'
  BY <1>1 DEF TypeOK, Compile, EffectiveMax, normalize, EarlyInv, Early, Nil, ResponseInv, Looping, Answered, NoResponse
<1>5. RequestInv'
  BY <1>1 DEF TypeOK, Compile, EffectiveMax, normalize, EarlyInv, Early, RequestInv
<1>6. QED
  BY <1>1, <1>2, <1>3, <1>4, <1>5

LEMMA OpenFailsStep ==
  ASSUME IInv, OpenFails
  PROVE  IInv'
<1> USE DeliveryAssumption DEF IInv, reqVars, respVars, loopVars, errVars
<1>1. TypeOK'
  BY DEF TypeOK, OpenFails, Causes, PCs, NoResponse, Nil
<1>2. EarlyInv' /\ ContextInv' /\ CancelInv'
  BY <1>1 DEF TypeOK, OpenFails, EarlyInv, ContextInv, CancelInv, Early, Looping, Working, NoResponse, Nil
<1>3. CountInv'
  BY <1>1 DEF TypeOK, OpenFails, CountInv, EarlyInv, Early, Spent
<1>4. ResponseInv'
  BY <1>1 DEF TypeOK, OpenFails, EarlyInv, Early, Nil, ResponseInv, Looping, Answered, NoResponse
<1>5. RequestInv'
  BY <1>1 DEF TypeOK, OpenFails, EarlyInv, Early, RequestInv
<1>6. QED
  BY <1>1, <1>2, <1>3, <1>4, <1>5

LEMMA OpenStep ==
  ASSUME IInv, Open
  PROVE  IInv'
<1> USE DeliveryAssumption DEF IInv, reqVars, respVars, loopVars, errVars
<1>1. TypeOK'
  <2>1. made' = made /\ sent' = sent /\ origCloses' = origCloses
    BY DEF Open
  <2>2. (reqBody' = reqBody /\ reqOpen' = reqOpen) \/ (reqBody' = 1 /\ reqOpen' = {1})
    BY DEF Open
  <2>3. reqBody \in Nat /\ reqOpen \subseteq Nat \ {0}
    BY DEF TypeOK
  <2>4. reqBody' \in Nat
    BY <2>2, <2>3
  <2>5. reqOpen' \subseteq Nat \ {0}
    <3>1. CASE reqOpen' = reqOpen
      BY <2>3, <3>1
    <3>2. CASE reqOpen' = {1}
      BY <3>2
    <3>3. QED
      BY <2>2, <3>1, <3>2
  <2>6. QED
    BY <2>1, <2>4, <2>5 DEF TypeOK, Open, PCs
<1>2. EarlyInv' /\ ContextInv' /\ CancelInv'
  BY <1>1 DEF TypeOK, Open, EarlyInv, ContextInv, CancelInv, Early, Looping, Working, NoResponse, Nil
<1>3. CountInv'
  BY <1>1 DEF TypeOK, Open, CountInv, EarlyInv, Early, Spent
<1>4. ResponseInv'
  BY <1>1 DEF TypeOK, Open, EarlyInv, Early, Nil, ResponseInv, Looping, Answered, NoResponse
<1>5. RequestInv'
  BY <1>1 DEF TypeOK, Open, EarlyInv, Early, RequestInv
<1>6. QED
  BY <1>1, <1>2, <1>3, <1>4, <1>5

-----------------------------------------------------------------------------
(* Middleware keeps the invariant. *)

LEMMA MiddlewareBodyStep ==
  ASSUME IInv, NEW s \in BodySwaps, MiddlewareBody(s)
  PROVE  IInv'
<1> USE DeliveryAssumption DEF IInv, reqVars, respVars, loopVars, errVars
<1>0. /\ made' \in Nat \ {0} /\ reqBody' \in Nat /\ reqOpen' \subseteq Nat \ {0}
      /\ made <= made' /\ reqBody' <= made'
      /\ (1 \in reqOpen' => 1 \in reqOpen)
      /\ reqOpen' \subseteq reqOpen \cup {reqBody'}
  <2>1. CASE s = "replace"
    <3>1. made' = made + 1 /\ reqBody' = made + 1 /\ reqOpen' = reqOpen \cup {made + 1}
      BY <2>1 DEF MiddlewareBody
    <3>2. QED
      BY <3>1, FreshBody
  <2>2. CASE s = "keep"
    <3>1. made' = made /\ reqBody' = reqBody /\ reqOpen' = reqOpen
      BY <2>2 DEF MiddlewareBody
    <3>2. QED
      BY <3>1, <2>2 DEF TypeOK, RequestInv
  <2>3. CASE s = "clear"
    <3>1. made' = made /\ reqBody' = 0 /\ reqOpen' = reqOpen
      BY <2>3 DEF MiddlewareBody
    <3>2. QED
      BY <3>1, <2>3 DEF TypeOK, RequestInv
  <2>4. QED
    BY <2>1, <2>2, <2>3 DEF MiddlewareBody
<1>1. TypeOK'
  BY <1>0 DEF TypeOK, MiddlewareBody, PCs
<1>2. EarlyInv' /\ ContextInv' /\ CancelInv'
  BY <1>1 DEF TypeOK, MiddlewareBody, EarlyInv, ContextInv, CancelInv, Early, Looping, Working, NoResponse, Nil
<1>3. CountInv'
  BY <1>1 DEF TypeOK, MiddlewareBody, CountInv, EarlyInv, Early, Spent
<1>4. ResponseInv'
  BY <1>1 DEF TypeOK, MiddlewareBody, EarlyInv, Early, Nil, ResponseInv, Looping, Answered, NoResponse
<1>5. RequestInv'
  <2>1. reqOpen \subseteq {1}
    BY DEF MiddlewareBody, RequestInv
  <2>2. reqOpen' \subseteq {reqBody', 1}
    BY <1>0, <2>1
  <2>3. QED
    BY <1>0, <2>2 DEF TypeOK, MiddlewareBody, EarlyInv, Early, RequestInv
<1>6. QED
  BY <1>1, <1>2, <1>3, <1>4, <1>5

LEMMA CallNextStep ==
  ASSUME IInv, CallNext
  PROVE  IInv'
<1> USE DeliveryAssumption DEF IInv, reqVars, respVars, loopVars, errVars
<1>1. TypeOK'
  BY DEF TypeOK, CallNext, Causes, PCs, NoResponse, Nil, EarlyInv, Early
<1>2. EarlyInv' /\ ContextInv' /\ CancelInv'
  BY <1>1 DEF TypeOK, CallNext, EarlyInv, ContextInv, CancelInv, Early, Looping, Working, NoResponse, Nil
<1>3. CountInv'
  BY <1>1 DEF TypeOK, CallNext, CountInv, EarlyInv, Early, Spent
<1>4. ResponseInv'
  BY <1>1 DEF TypeOK, CallNext, EarlyInv, Early, Nil, ResponseInv, Looping, Answered, NoResponse
<1>5. RequestInv'
  BY <1>1 DEF TypeOK, CallNext, EarlyInv, Early, RequestInv
<1>6. QED
  BY <1>1, <1>2, <1>3, <1>4, <1>5

LEMMA ShortCircuitStep ==
  ASSUME IInv,
         NEW withResponse \in BOOLEAN,
         NEW e \in MiddlewareErrors,
         NEW closes \in BOOLEAN,
         ShortCircuit(withResponse, e, closes)
  PROVE  IInv'
<1> USE DeliveryAssumption DEF IInv, reqVars, respVars, loopVars, errVars
<1>0. /\ reqOpen' \subseteq reqOpen /\ reqOpen' \subseteq Nat \ {0}
      /\ origCloses' \in {0, 1} /\ (origCloses' = 1 => 1 \notin reqOpen')
  <2>1. CASE closes
    BY <2>1, CloseRequestBodiesType, OriginalClosedOnce DEF ShortCircuit
  <2>2. CASE ~closes
    <3>1. reqOpen' = reqOpen /\ origCloses' = origCloses
      BY <2>2 DEF ShortCircuit
    <3>2. QED
      BY <3>1 DEF RequestInv, TypeOK
  <2>3. QED
    BY <2>1, <2>2
<1>1. TypeOK'
  <2>1. /\ resp' \in [present: BOOLEAN, id: Nat, live: BOOLEAN, status: Nat]
        /\ respOpen' \subseteq Nat
    <3>1. CASE withResponse
      <4>1. PICK st \in Statuses : resp' = Response(0, TRUE, st)
        BY <3>1 DEF ShortCircuit
      <4>2. respOpen' = {0}
        BY <3>1 DEF ShortCircuit
      <4>3. st \in Nat
        BY <4>1
      <4>4. QED
        BY <4>1, <4>2, <4>3 DEF Response
    <3>2. CASE ~withResponse
      BY <3>2 DEF ShortCircuit, TypeOK
    <3>3. QED
      BY <3>1, <3>2
  <2>2. err' \subseteq Causes /\ pc' \in PCs
    BY DEF ShortCircuit, MiddlewareErrors, Causes, PCs, Nil
  <2>3. QED
    BY <1>0, <2>1, <2>2 DEF TypeOK, ShortCircuit
<1>2. EarlyInv' /\ ContextInv' /\ CancelInv'
  BY <1>1 DEF TypeOK, ShortCircuit, CloseRequestBodies, Response, Nil, EarlyInv, ContextInv, CancelInv, Early, Looping, Working, NoResponse, Nil
<1>3. CountInv'
  BY <1>1 DEF TypeOK, ShortCircuit, CloseRequestBodies, Response, Nil, CountInv, EarlyInv, Early, Spent
<1>4. ResponseInv'
  BY <1>1 DEF TypeOK, ShortCircuit, CloseRequestBodies, Response, Nil, EarlyInv, Early, Nil, ResponseInv, Looping, Answered, NoResponse
<1>5. RequestInv'
  <2>1. reqOpen \subseteq {reqBody, 1}
    BY DEF ShortCircuit, RequestInv, EarlyInv, Early
  <2>2. QED
    BY <1>0, <2>1 DEF TypeOK, ShortCircuit, EarlyInv, Early, RequestInv
<1>6. QED
  BY <1>1, <1>2, <1>3, <1>4, <1>5

LEMMA PassThroughStep ==
  ASSUME IInv, NEW e \in MiddlewareErrors, PassThrough(e)
  PROVE  IInv'
<1> USE DeliveryAssumption DEF IInv, reqVars, respVars, loopVars, errVars
<1>1. TypeOK'
  BY DEF TypeOK, PassThrough, MiddlewareErrors, Causes, PCs, NoResponse, Nil
<1>2. EarlyInv' /\ ContextInv' /\ CancelInv'
  BY <1>1 DEF TypeOK, PassThrough, MiddlewareErrors, EarlyInv, ContextInv, CancelInv, Early, Looping, Working, NoResponse, Nil
<1>3. CountInv'
  BY <1>1 DEF TypeOK, PassThrough, MiddlewareErrors, CountInv, EarlyInv, Early, Spent
<1>4. ResponseInv'
  BY <1>1 DEF TypeOK, PassThrough, MiddlewareErrors, EarlyInv, Early, Nil, ResponseInv, Looping, Answered, NoResponse
<1>5. RequestInv'
  BY DEF TypeOK, PassThrough, CountInv, RequestInv
<1>6. QED
  BY <1>1, <1>2, <1>3, <1>4, <1>5

LEMMA CallNextAgainStep ==
  ASSUME IInv, CallNextAgain
  PROVE  IInv'
<1> USE DeliveryAssumption DEF IInv, reqVars, respVars, loopVars, errVars
<1>0. /\ made' \in Nat \ {0} /\ reqBody' \in Nat /\ reqOpen' \subseteq Nat \ {0}
      /\ made <= made' /\ reqBody' <= made'
      /\ (1 \in reqOpen' => 1 \in reqOpen)
      /\ reqBody' \notin sent
  <2>1. CASE reqBody = 0
    <3>1. made' = made /\ reqBody' = reqBody /\ reqOpen' = reqOpen
      BY <2>1 DEF CallNextAgain
    <3>2. QED
      BY <3>1, <2>1 DEF TypeOK, RequestInv
  <2>2. CASE reqBody # 0
    <3>1. made' = made + 1 /\ reqBody' = made + 1 /\ reqOpen' = reqOpen \cup {made + 1}
      BY <2>2 DEF CallNextAgain
    <3>2. QED
      BY <3>1, FreshBody
  <2>3. QED
    BY <2>1, <2>2
<1>1. TypeOK'
  <2>1. respOpen' \subseteq Nat /\ twice' \in BOOLEAN
    BY CloseResponseType DEF CallNextAgain
  <2>2. QED
    BY <1>0, <2>1 DEF TypeOK, CallNextAgain, Causes, PCs, NoResponse, Nil
<1>2. EarlyInv' /\ ContextInv' /\ CancelInv'
  BY <1>1 DEF TypeOK, CallNextAgain, CloseResponse, EarlyInv, ContextInv, CancelInv, Early, Looping, Working, NoResponse, Nil
<1>3. CountInv'
  BY <1>1 DEF TypeOK, CallNextAgain, CloseResponse, CountInv, EarlyInv, Early, Spent
<1>4. ResponseInv'
  <2>1. respOpen' = {} /\ ~twice'
    BY CloseResponseInHand DEF CallNextAgain, Answered
  <2>2. QED
    BY <2>1 DEF CallNextAgain, ResponseInv, Looping, Answered
<1>5. RequestInv'
  BY <1>0 DEF TypeOK, CallNextAgain, RequestInv, CountInv
<1>6. QED
  BY <1>1, <1>2, <1>3, <1>4, <1>5

-----------------------------------------------------------------------------
(* The answers of the transport keep the invariant. *)

LEMMA TransportRespondsStep ==
  ASSUME IInv, TransportResponds
  PROVE  IInv'
<1> USE DeliveryAssumption DEF IInv, reqVars, respVars, loopVars, errVars
<1>1. TypeOK'
  BY DEF TypeOK, TransportResponds, Response, Causes, PCs, NoResponse, Nil
<1>2. EarlyInv' /\ ContextInv' /\ CancelInv'
  BY <1>1 DEF TypeOK, TransportResponds, Response, EarlyInv, ContextInv, CancelInv, Early, Looping, Working, NoResponse, Nil
<1>3. CountInv'
  BY <1>1 DEF TypeOK, TransportResponds, Response, CountInv, EarlyInv, Early, Spent
<1>4. ResponseInv'
  <2>1. PICK s \in Statuses : resp' = Response(attempts, TRUE, s)
    BY DEF TransportResponds
  <2>2. respOpen' = {attempts}
    BY DEF TransportResponds, ResponseInv, Looping
  <2>3. /\ resp'.present /\ resp'.live /\ resp'.id = attempts
    BY <2>1 DEF Response
  <2>4. QED
    BY <2>2, <2>3 DEF TransportResponds, ResponseInv, Looping, Answered, Nil
<1>5. RequestInv'
  BY <1>1 DEF TypeOK, TransportResponds, Response, EarlyInv, Early, RequestInv
<1>6. QED
  BY <1>1, <1>2, <1>3, <1>4, <1>5

LEMMA TransportFailsStep ==
  ASSUME IInv, TransportFails
  PROVE  IInv'
<1> USE DeliveryAssumption DEF IInv, reqVars, respVars, loopVars, errVars
<1>1. TypeOK'
  BY DEF TypeOK, TransportFails, Causes, PCs, NoResponse, Nil
<1>2. EarlyInv' /\ ContextInv' /\ CancelInv'
  BY <1>1 DEF TypeOK, TransportFails, EarlyInv, ContextInv, CancelInv, Early, Looping, Working, NoResponse, Nil
<1>3. CountInv'
  BY <1>1 DEF TypeOK, TransportFails, CountInv, EarlyInv, Early, Spent
<1>4. ResponseInv'
  BY <1>1 DEF TypeOK, TransportFails, EarlyInv, Early, Nil, ResponseInv, Looping, Answered, NoResponse
<1>5. RequestInv'
  BY <1>1 DEF TypeOK, TransportFails, EarlyInv, Early, RequestInv
<1>6. QED
  BY <1>1, <1>2, <1>3, <1>4, <1>5

LEMMA TransportRejectsRedirectStep ==
  ASSUME IInv, TransportRejectsRedirect
  PROVE  IInv'
<1> USE DeliveryAssumption DEF IInv, reqVars, respVars, loopVars, errVars
<1>1. TypeOK'
  BY DEF TypeOK, TransportRejectsRedirect, Response, Causes, PCs, NoResponse, Nil
<1>2. EarlyInv' /\ ContextInv' /\ CancelInv'
  BY <1>1 DEF TypeOK, TransportRejectsRedirect, Response, EarlyInv, ContextInv, CancelInv, Early, Looping, Working, NoResponse, Nil
<1>3. CountInv'
  BY <1>1 DEF TypeOK, TransportRejectsRedirect, Response, CountInv, EarlyInv, Early, Spent
<1>4. ResponseInv'
  BY <1>1 DEF TypeOK, TransportRejectsRedirect, Response, EarlyInv, Early, Nil, ResponseInv, Looping, Answered, NoResponse
<1>5. RequestInv'
  BY <1>1 DEF TypeOK, TransportRejectsRedirect, Response, EarlyInv, Early, RequestInv
<1>6. QED
  BY <1>1, <1>2, <1>3, <1>4, <1>5

-----------------------------------------------------------------------------
(* The retry loop keeps the invariant. *)

\* The body an attempt starts with is fresh: resetRequestBody made it, or the
\* transport has not seen it.
LEMMA BodyAtStart ==
  ASSUME TypeOK, RequestInv, StartAttempt
  PROVE  /\ made' \in Nat \ {0} /\ reqBody' \in Nat /\ reqOpen' \subseteq Nat \ {0}
         /\ made <= made' /\ reqBody' <= made'
         /\ (1 \in reqOpen' => 1 \in reqOpen)
         /\ reqBody' \notin sent
<1> USE DeliveryAssumption
<1>1. CASE ResetsBody
  <2>1. made' = made + 1 /\ reqBody' = made + 1 /\ reqOpen' = reqOpen \cup {made + 1}
    BY <1>1 DEF StartAttempt
  <2>2. QED
    BY <2>1, FreshBody
<1>2. CASE ~ResetsBody
  <2>1. made' = made /\ reqBody' = reqBody /\ reqOpen' = reqOpen
    BY <1>2 DEF StartAttempt
  <2>2. attempt = 0 \/ reqBody = 0
    BY <1>2 DEF ResetsBody, TypeOK
  <2>3. reqBody \notin sent
    BY <2>2 DEF StartAttempt, RequestInv, TypeOK
  <2>4. QED
    BY <2>1, <2>3 DEF TypeOK, RequestInv
<1>3. QED
  BY <1>1, <1>2

LEMMA StartAttemptStep ==
  ASSUME IInv, StartAttempt
  PROVE  IInv'
<1> USE DeliveryAssumption DEF IInv, reqVars, respVars, loopVars, errVars
<1>0. /\ made' \in Nat \ {0} /\ reqBody' \in Nat /\ reqOpen' \subseteq Nat \ {0}
      /\ made <= made' /\ reqBody' <= made'
      /\ (1 \in reqOpen' => 1 \in reqOpen)
  BY BodyAtStart
<1>1. TypeOK'
  <2>1. sent' \subseteq Nat \ {0}
    BY <1>0 DEF StartAttempt, TypeOK
  <2>2. QED
    BY <1>0, <2>1 DEF TypeOK, StartAttempt, PCs
<1>2. EarlyInv' /\ ContextInv' /\ CancelInv'
  BY <1>1 DEF TypeOK, StartAttempt, EarlyInv, ContextInv, CancelInv, Early, Looping, Working, NoResponse, Nil
<1>3. CountInv'
  BY <1>1 DEF TypeOK, StartAttempt, CountInv, EarlyInv, Early, Spent
<1>4. ResponseInv'
  BY <1>1 DEF TypeOK, StartAttempt, EarlyInv, Early, Nil, ResponseInv, Looping, Answered, NoResponse
<1>5. RequestInv'
  <2>1. \A i \in sent' : i <= made'
    BY <1>0 DEF StartAttempt, TypeOK, RequestInv
  <2>2. calls' # 0
    BY DEF StartAttempt, CountInv, TypeOK
  <2>3. QED
    BY <1>0, <2>1, <2>2 DEF TypeOK, StartAttempt, RequestInv
<1>6. QED
  BY <1>1, <1>2, <1>3, <1>4, <1>5

LEMMA ResetFailsStep ==
  ASSUME IInv, ResetFails
  PROVE  IInv'
<1> USE DeliveryAssumption DEF IInv, reqVars, respVars, loopVars, errVars
<1>1. TypeOK'
  BY DEF TypeOK, ResetFails, Causes, PCs, NoResponse, Nil
<1>2. EarlyInv' /\ ContextInv' /\ CancelInv'
  BY <1>1 DEF TypeOK, ResetFails, EarlyInv, ContextInv, CancelInv, Early, Looping, Working, NoResponse, Nil
<1>3. CountInv'
  BY <1>1 DEF TypeOK, ResetFails, CountInv, EarlyInv, Early, Spent
<1>4. ResponseInv'
  BY <1>1 DEF TypeOK, ResetFails, EarlyInv, Early, Nil, ResponseInv, Looping, Answered, NoResponse
<1>5. RequestInv'
  BY <1>1 DEF TypeOK, ResetFails, EarlyInv, Early, RequestInv
<1>6. QED
  BY <1>1, <1>2, <1>3, <1>4, <1>5

LEMMA StopRetryingStep ==
  ASSUME IInv, StopRetrying
  PROVE  IInv'
<1> USE DeliveryAssumption DEF IInv, reqVars, respVars, loopVars, errVars
<1>1. TypeOK'
  BY DEF TypeOK, StopRetrying, Causes, PCs, NoResponse, Nil
<1>2. EarlyInv' /\ ContextInv' /\ CancelInv'
  BY <1>1 DEF TypeOK, StopRetrying, EarlyInv, ContextInv, CancelInv, Early, Looping, Working, NoResponse, Nil
<1>3. CountInv'
  BY <1>1 DEF TypeOK, StopRetrying, CountInv, EarlyInv, Early, Spent
<1>4. ResponseInv'
  <2>1. err' = Nil => err = Nil
    BY DEF StopRetrying, ResponseInv, Nil
  <2>2. QED
    BY <2>1 DEF StopRetrying, ResponseInv, Looping, Answered
<1>5. RequestInv'
  BY <1>1 DEF TypeOK, StopRetrying, EarlyInv, Early, RequestInv
<1>6. QED
  BY <1>1, <1>2, <1>3, <1>4, <1>5

LEMMA NotReplayableStep ==
  ASSUME IInv, NotReplayable
  PROVE  IInv'
<1> USE DeliveryAssumption DEF IInv, reqVars, respVars, loopVars, errVars
<1>1. TypeOK'
  BY DEF TypeOK, NotReplayable, Causes, PCs, NoResponse, Nil
<1>2. EarlyInv' /\ ContextInv' /\ CancelInv'
  BY <1>1 DEF TypeOK, NotReplayable, EarlyInv, ContextInv, CancelInv, Early, Looping, Working, NoResponse, Nil
<1>3. CountInv'
  BY <1>1 DEF TypeOK, NotReplayable, CountInv, EarlyInv, Early, Spent
<1>4. ResponseInv'
  BY <1>1 DEF TypeOK, NotReplayable, EarlyInv, Early, Nil, ResponseInv, Looping, Answered, NoResponse
<1>5. RequestInv'
  BY <1>1 DEF TypeOK, NotReplayable, EarlyInv, Early, RequestInv
<1>6. QED
  BY <1>1, <1>2, <1>3, <1>4, <1>5

\* Before every backoff the response in hand is disposed of, once.
LEMMA CleanUpDisposes ==
  ASSUME TypeOK, ResponseInv, NEW ok \in BOOLEAN, CleanUp(ok)
  PROVE  respOpen' = {} /\ ~twice' /\ twice' \in BOOLEAN
<1>1. CASE err = Nil
  BY <1>1, CloseResponseInHand, CloseResponseType DEF CleanUp, Answered
<1>2. CASE err # Nil
  <2>1. ~(resp.present /\ resp.live)
    BY <1>2 DEF CleanUp, ResponseInv
  <2>2. respOpen = {} /\ ~twice
    BY <2>1 DEF CleanUp, ResponseInv, Answered
  <2>3. QED
    BY <1>2, <2>2 DEF CleanUp, TypeOK
<1>3. QED
  BY <1>1, <1>2

LEMMA CleanUpStep ==
  ASSUME IInv, NEW ok \in BOOLEAN, CleanUp(ok)
  PROVE  IInv'
<1> USE DeliveryAssumption DEF IInv, reqVars, respVars, loopVars, errVars
<1>0. /\ respOpen' = {} /\ ~twice' /\ twice' \in BOOLEAN
      /\ pc' \in {"backoff", "unwind"}
      /\ pc' = "backoff" => resp' = resp /\ err' = err
      /\ pc' = "unwind" => resp' = NoResponse /\ err' = {"cleanup"}
  <2>1. respOpen' = {} /\ ~twice' /\ twice' \in BOOLEAN
    BY CleanUpDisposes
  <2>2. QED
    BY <2>1 DEF CleanUp
<1>1. TypeOK'
  <2>1. /\ resp' \in [present: BOOLEAN, id: Nat, live: BOOLEAN, status: Nat]
        /\ err' \subseteq Causes
    <3>1. CASE pc' = "backoff"
      BY <1>0, <3>1 DEF TypeOK
    <3>2. CASE pc' = "unwind"
      <4>1. resp' = NoResponse /\ err' = {"cleanup"}
        BY <1>0, <3>2
      <4>2. NoResponse \in [present: BOOLEAN, id: Nat, live: BOOLEAN, status: Nat]
        BY DEF NoResponse
      <4>3. {"cleanup"} \subseteq Causes
        BY DEF Causes
      <4>4. QED
        BY <4>1, <4>2, <4>3
    <3>3. QED
      BY <1>0, <3>1, <3>2
  <2>2. pc' \in PCs /\ respOpen' \subseteq Nat /\ twice' \in BOOLEAN
    BY <1>0 DEF PCs
  <2>3. QED
    BY <2>1, <2>2 DEF TypeOK, CleanUp
<1>2. EarlyInv' /\ ContextInv' /\ CancelInv'
  <2>1. ~b.custom => "canceled" \notin errs
    BY DEF CleanUp, ShouldRetry, DefaultRetryIf, IsCanceled, Nil, CancelInv
  <2>2. QED
    BY <1>0, <2>1 DEF TypeOK, CleanUp, EarlyInv, ContextInv, CancelInv, Early, Looping, Working
<1>3. CountInv'
  BY <1>1 DEF TypeOK, CleanUp, CloseResponse, ShouldRetry, LastAttempt, CountInv, EarlyInv, Early, Spent
<1>4. ResponseInv'
  BY <1>0 DEF CleanUp, ResponseInv, Looping, Answered, NoResponse, Nil
<1>5. RequestInv'
  BY <1>1 DEF TypeOK, CleanUp, CloseResponse, ShouldRetry, LastAttempt, EarlyInv, Early, RequestInv
<1>6. QED
  BY <1>1, <1>2, <1>3, <1>4, <1>5

LEMMA TimerFiresStep ==
  ASSUME IInv, TimerFires
  PROVE  IInv'
<1> USE DeliveryAssumption DEF IInv, reqVars, respVars, loopVars, errVars
<1>1. TypeOK'
  BY DEF TypeOK, TimerFires, Causes, PCs, NoResponse, Nil, CountInv
<1>2. EarlyInv' /\ ContextInv' /\ CancelInv'
  BY <1>1 DEF TypeOK, TimerFires, EarlyInv, ContextInv, CancelInv, Early, Looping, Working, NoResponse, Nil
<1>3. CountInv'
  BY <1>1 DEF TypeOK, TimerFires, CountInv, EarlyInv, Early, Spent
<1>4. ResponseInv'
  BY <1>1 DEF TypeOK, TimerFires, EarlyInv, Early, Nil, ResponseInv, Looping, Answered, NoResponse
<1>5. RequestInv'
  BY <1>1 DEF TypeOK, TimerFires, EarlyInv, Early, RequestInv
<1>6. QED
  BY <1>1, <1>2, <1>3, <1>4, <1>5

LEMMA CanceledInBackoffStep ==
  ASSUME IInv, CanceledInBackoff
  PROVE  IInv'
<1> USE DeliveryAssumption DEF IInv, reqVars, respVars, loopVars, errVars
<1>1. TypeOK'
  BY DEF TypeOK, CanceledInBackoff, Causes, PCs, NoResponse, Nil
<1>2. EarlyInv' /\ ContextInv' /\ CancelInv'
  BY <1>1 DEF TypeOK, CanceledInBackoff, EarlyInv, ContextInv, CancelInv, Early, Looping, Working, NoResponse, Nil
<1>3. CountInv'
  BY <1>1 DEF TypeOK, CanceledInBackoff, CountInv, EarlyInv, Early, Spent
<1>4. ResponseInv'
  BY <1>1 DEF TypeOK, CanceledInBackoff, EarlyInv, Early, Nil, ResponseInv, Looping, Answered, NoResponse
<1>5. RequestInv'
  BY <1>1 DEF TypeOK, CanceledInBackoff, EarlyInv, Early, RequestInv
<1>6. QED
  BY <1>1, <1>2, <1>3, <1>4, <1>5

-----------------------------------------------------------------------------
(* The end of do(), Send and SendStream keep the invariant. *)

LEMMA FinishStep ==
  ASSUME IInv, Finish
  PROVE  IInv'
<1> USE DeliveryAssumption DEF IInv, reqVars, respVars, loopVars, errVars
<1>0. /\ reqOpen' \subseteq reqOpen /\ reqOpen' \subseteq Nat \ {0}
      /\ origCloses' \in {0, 1} /\ (origCloses' = 1 => 1 \notin reqOpen')
      /\ attempts = 0 => reqOpen' = reqOpen \ {reqBody, 1}
  <2>1. CASE attempts = 0
    BY <2>1, CloseRequestBodiesType, OriginalClosedOnce DEF Finish
  <2>2. CASE attempts # 0
    BY <2>2 DEF Finish, RequestInv, TypeOK
  <2>3. QED
    BY <2>1, <2>2
<1>1. TypeOK'
  BY <1>0 DEF TypeOK, Finish, PCs
<1>2. EarlyInv' /\ ContextInv' /\ CancelInv'
  BY <1>1 DEF TypeOK, Finish, CloseRequestBodies, EarlyInv, ContextInv, CancelInv, Early, Looping, Working, NoResponse, Nil
<1>3. CountInv'
  BY <1>1 DEF TypeOK, Finish, CloseRequestBodies, CountInv, EarlyInv, Early, Spent
<1>4. ResponseInv'
  BY <1>1 DEF TypeOK, Finish, CloseRequestBodies, EarlyInv, Early, Nil, ResponseInv, Looping, Answered, NoResponse
<1>5. RequestInv'
  BY <1>0 DEF TypeOK, Finish, RequestInv
<1>6. QED
  BY <1>1, <1>2, <1>3, <1>4, <1>5

LEMMA SendFailsStep ==
  ASSUME IInv, SendFails
  PROVE  IInv'
<1> USE DeliveryAssumption DEF IInv, reqVars, respVars, loopVars, errVars
<1>1. TypeOK'
  <2>1. respOpen' \subseteq Nat /\ twice' \in BOOLEAN
    BY CloseResponseType DEF SendFails
  <2>2. QED
    BY <2>1 DEF TypeOK, SendFails, Release, Causes, PCs, Nil
<1>2. EarlyInv' /\ ContextInv' /\ CancelInv'
  BY <1>1 DEF TypeOK, SendFails, CloseResponse, Release, EarlyInv, ContextInv, CancelInv, Early, Looping, Working, NoResponse, Nil
<1>3. CountInv'
  BY <1>1 DEF TypeOK, SendFails, CloseResponse, Release, CountInv, EarlyInv, Early, Spent
<1>4. ResponseInv'
  <2>1. respOpen' = {} /\ ~twice'
    BY CloseResponseInHand DEF SendFails, Answered
  <2>2. QED
    BY <2>1 DEF SendFails, ResponseInv, Looping, Answered
<1>5. RequestInv'
  BY <1>1 DEF TypeOK, SendFails, CloseResponse, Release, EarlyInv, Early, RequestInv
<1>6. QED
  BY <1>1, <1>2, <1>3, <1>4, <1>5

LEMMA SendNilResponseStep ==
  ASSUME IInv, SendNilResponse
  PROVE  IInv'
<1> USE DeliveryAssumption DEF IInv, reqVars, respVars, loopVars, errVars
<1>1. TypeOK'
  BY DEF TypeOK, SendNilResponse, Release, Causes, PCs, NoResponse, Nil
<1>2. EarlyInv' /\ ContextInv' /\ CancelInv'
  BY <1>1 DEF TypeOK, SendNilResponse, Release, EarlyInv, ContextInv, CancelInv, Early, Looping, Working, NoResponse, Nil
<1>3. CountInv'
  BY <1>1 DEF TypeOK, SendNilResponse, Release, CountInv, EarlyInv, Early, Spent
<1>4. ResponseInv'
  BY <1>1 DEF TypeOK, SendNilResponse, Release, EarlyInv, Early, Nil, ResponseInv, Looping, Answered, NoResponse
<1>5. RequestInv'
  BY <1>1 DEF TypeOK, SendNilResponse, Release, EarlyInv, Early, RequestInv
<1>6. QED
  BY <1>1, <1>2, <1>3, <1>4, <1>5

LEMMA SendBuffersStep ==
  ASSUME IInv, SendBuffers
  PROVE  IInv'
<1> USE DeliveryAssumption DEF IInv, reqVars, respVars, loopVars, errVars
<1>1. TypeOK'
  BY DEF TypeOK, SendBuffers, Causes, PCs, NoResponse, Nil
<1>2. EarlyInv' /\ ContextInv' /\ CancelInv'
  BY <1>1 DEF TypeOK, SendBuffers, EarlyInv, ContextInv, CancelInv, Early, Looping, Working, NoResponse, Nil
<1>3. CountInv'
  BY <1>1 DEF TypeOK, SendBuffers, CountInv, EarlyInv, Early, Spent
<1>4. ResponseInv'
  BY <1>1 DEF TypeOK, SendBuffers, EarlyInv, Early, Nil, ResponseInv, Looping, Answered, NoResponse
<1>5. RequestInv'
  BY <1>1 DEF TypeOK, SendBuffers, EarlyInv, Early, RequestInv
<1>6. QED
  BY <1>1, <1>2, <1>3, <1>4, <1>5

LEMMA BufferBodyStep ==
  ASSUME IInv, NEW e \in BufferErrors, BufferBody(e)
  PROVE  IInv'
<1> USE DeliveryAssumption DEF IInv, reqVars, respVars, loopVars, errVars
<1>1. TypeOK'
  <2>1. respOpen' \subseteq Nat /\ twice' \in BOOLEAN
    BY CloseResponseType DEF BufferBody
  <2>2. QED
    BY <2>1 DEF TypeOK, BufferBody, Release, BufferErrors, Causes, PCs, Nil
<1>2. EarlyInv' /\ ContextInv' /\ CancelInv'
  BY <1>1 DEF TypeOK, BufferBody, CloseResponse, Release, BufferErrors, EarlyInv, ContextInv, CancelInv, Early, Looping, Working, NoResponse, Nil
<1>3. CountInv'
  BY <1>1 DEF TypeOK, BufferBody, CloseResponse, Release, BufferErrors, CountInv, EarlyInv, Early, Spent
<1>4. ResponseInv'
  <2>1. respOpen' = {} /\ ~twice'
    BY CloseResponseInHand DEF BufferBody, Answered
  <2>2. QED
    BY <2>1 DEF BufferBody, ResponseInv, Looping, Answered
<1>5. RequestInv'
  BY <1>1 DEF TypeOK, BufferBody, CloseResponse, Release, BufferErrors, EarlyInv, Early, RequestInv
<1>6. QED
  BY <1>1, <1>2, <1>3, <1>4, <1>5

LEMMA StreamNilResponseStep ==
  ASSUME IInv, StreamNilResponse
  PROVE  IInv'
<1> USE DeliveryAssumption DEF IInv, reqVars, respVars, loopVars, errVars
<1>1. TypeOK'
  BY DEF TypeOK, StreamNilResponse, Release, Causes, PCs, NoResponse, Nil
<1>2. EarlyInv' /\ ContextInv' /\ CancelInv'
  BY <1>1 DEF TypeOK, StreamNilResponse, Release, EarlyInv, ContextInv, CancelInv, Early, Looping, Working, NoResponse, Nil
<1>3. CountInv'
  BY <1>1 DEF TypeOK, StreamNilResponse, Release, CountInv, EarlyInv, Early, Spent
<1>4. ResponseInv'
  BY <1>1 DEF TypeOK, StreamNilResponse, Release, EarlyInv, Early, Nil, ResponseInv, Looping, Answered, NoResponse
<1>5. RequestInv'
  BY <1>1 DEF TypeOK, StreamNilResponse, Release, EarlyInv, Early, RequestInv
<1>6. QED
  BY <1>1, <1>2, <1>3, <1>4, <1>5

LEMMA StreamFailsStep ==
  ASSUME IInv, StreamFails
  PROVE  IInv'
<1> USE DeliveryAssumption DEF IInv, reqVars, respVars, loopVars, errVars
<1>1. TypeOK'
  <2>1. respOpen' \subseteq Nat /\ twice' \in BOOLEAN
    BY CloseResponseType DEF StreamFails
  <2>2. QED
    BY <2>1 DEF TypeOK, StreamFails, Release, Causes, PCs, Nil
<1>2. EarlyInv' /\ ContextInv' /\ CancelInv'
  BY <1>1 DEF TypeOK, StreamFails, CloseResponse, Release, EarlyInv, ContextInv, CancelInv, Early, Looping, Working, NoResponse, Nil
<1>3. CountInv'
  BY <1>1 DEF TypeOK, StreamFails, CloseResponse, Release, CountInv, EarlyInv, Early, Spent
<1>4. ResponseInv'
  <2>1. respOpen' = {} /\ ~twice'
    BY CloseResponseInHand DEF StreamFails, Answered
  <2>2. QED
    BY <2>1 DEF StreamFails, ResponseInv, Looping, Answered
<1>5. RequestInv'
  BY <1>1 DEF TypeOK, StreamFails, CloseResponse, Release, EarlyInv, Early, RequestInv
<1>6. QED
  BY <1>1, <1>2, <1>3, <1>4, <1>5

LEMMA StreamHandsOverStep ==
  ASSUME IInv, StreamHandsOver
  PROVE  IInv'
<1> USE DeliveryAssumption DEF IInv, reqVars, respVars, loopVars, errVars
<1>1. TypeOK'
  BY DEF TypeOK, StreamHandsOver, Causes, PCs, NoResponse, Nil
<1>2. EarlyInv' /\ ContextInv' /\ CancelInv'
  BY <1>1 DEF TypeOK, StreamHandsOver, EarlyInv, ContextInv, CancelInv, Early, Looping, Working, NoResponse, Nil
<1>3. CountInv'
  BY <1>1 DEF TypeOK, StreamHandsOver, CountInv, EarlyInv, Early, Spent
<1>4. ResponseInv'
  BY <1>1 DEF TypeOK, StreamHandsOver, EarlyInv, Early, Nil, ResponseInv, Looping, Answered, NoResponse
<1>5. RequestInv'
  BY <1>1 DEF TypeOK, StreamHandsOver, EarlyInv, Early, RequestInv
<1>6. QED
  BY <1>1, <1>2, <1>3, <1>4, <1>5

-----------------------------------------------------------------------------
(* StreamResponse.Close keeps the invariant. *)

LEMMA StreamCancelStep ==
  ASSUME IInv, StreamCancel
  PROVE  IInv'
<1> USE DeliveryAssumption DEF IInv, reqVars, respVars, loopVars, errVars
<1>1. TypeOK'
  BY DEF TypeOK, StreamCancel, Release, Causes, PCs, NoResponse, Nil
<1>2. EarlyInv' /\ ContextInv' /\ CancelInv'
  BY <1>1 DEF TypeOK, StreamCancel, Release, EarlyInv, ContextInv, CancelInv, Early, Looping, Working, NoResponse, Nil
<1>3. CountInv'
  BY <1>1 DEF TypeOK, StreamCancel, Release, CountInv, EarlyInv, Early, Spent
<1>4. ResponseInv'
  BY <1>1 DEF TypeOK, StreamCancel, Release, EarlyInv, Early, Nil, ResponseInv, Looping, Answered, NoResponse
<1>5. RequestInv'
  BY <1>1 DEF TypeOK, StreamCancel, Release, EarlyInv, Early, RequestInv
<1>6. QED
  BY <1>1, <1>2, <1>3, <1>4, <1>5

LEMMA StreamCloseStep ==
  ASSUME IInv, StreamClose
  PROVE  IInv'
<1> USE DeliveryAssumption DEF IInv, reqVars, respVars, loopVars, errVars
<1>1. TypeOK'
  <2>1. respOpen' \subseteq Nat /\ twice' \in BOOLEAN
    BY CloseResponseType DEF StreamClose
  <2>2. QED
    BY <2>1 DEF TypeOK, StreamClose, Causes, PCs, Nil
<1>2. EarlyInv' /\ ContextInv' /\ CancelInv'
  BY <1>1 DEF TypeOK, StreamClose, CloseResponse, EarlyInv, ContextInv, CancelInv, Early, Looping, Working, NoResponse, Nil
<1>3. CountInv'
  BY <1>1 DEF TypeOK, StreamClose, CloseResponse, CountInv, EarlyInv, Early, Spent
<1>4. ResponseInv'
  <2>1. respOpen' = {} /\ ~twice'
    BY CloseResponseInHand DEF StreamClose, Answered
  <2>2. QED
    BY <2>1 DEF StreamClose, ResponseInv, Looping, Answered
<1>5. RequestInv'
  BY <1>1 DEF TypeOK, StreamClose, CloseResponse, EarlyInv, Early, RequestInv
<1>6. QED
  BY <1>1, <1>2, <1>3, <1>4, <1>5

-----------------------------------------------------------------------------
(* What runs beside the delivery goroutine keeps the invariant. *)

LEMMA TransportClosesBodyStep ==
  ASSUME IInv, NEW i \in sent, TransportClosesBody(i)
  PROVE  IInv'
<1> USE DeliveryAssumption DEF IInv, reqVars, respVars, loopVars, errVars
<1>0. /\ reqOpen' \subseteq reqOpen /\ reqOpen' \subseteq Nat \ {0}
      /\ origCloses' \in {0, 1} /\ (origCloses' = 1 => 1 \notin reqOpen')
  BY CloseRequestBodiesType, OriginalClosedOnce DEF TransportClosesBody
<1>1. TypeOK'
  BY <1>0 DEF TypeOK, TransportClosesBody
<1>2. EarlyInv' /\ ContextInv' /\ CancelInv'
  BY DEF TransportClosesBody, EarlyInv, ContextInv, CancelInv
<1>3. CountInv'
  BY <1>1 DEF TypeOK, TransportClosesBody, CountInv, EarlyInv, Early, Spent
<1>4. ResponseInv'
  BY <1>1 DEF TypeOK, TransportClosesBody, EarlyInv, Early, Nil, ResponseInv, Looping, Answered, NoResponse
<1>5. RequestInv'
  BY <1>0 DEF TypeOK, TransportClosesBody, RequestInv
<1>6. QED
  BY <1>1, <1>2, <1>3, <1>4, <1>5

LEMMA CallerCancelsStep ==
  ASSUME IInv, CallerCancels
  PROVE  IInv'
<1> USE DeliveryAssumption DEF IInv, reqVars, respVars, loopVars, errVars
<1>1. TypeOK'
  BY DEF TypeOK, CallerCancels, Causes, PCs, NoResponse, Nil
<1>2. EarlyInv' /\ ContextInv' /\ CancelInv'
  BY <1>1 DEF TypeOK, CallerCancels, EarlyInv, ContextInv, CancelInv, Early, Looping, Working, NoResponse, Nil
<1>3. CountInv'
  BY <1>1 DEF TypeOK, CallerCancels, CountInv, EarlyInv, Early, Spent
<1>4. ResponseInv'
  BY <1>1 DEF TypeOK, CallerCancels, EarlyInv, Early, Nil, ResponseInv, Looping, Answered, NoResponse
<1>5. RequestInv'
  BY <1>1 DEF TypeOK, CallerCancels, EarlyInv, Early, RequestInv
<1>6. QED
  BY <1>1, <1>2, <1>3, <1>4, <1>5

LEMMA TimeoutExpiresStep ==
  ASSUME IInv, TimeoutExpires
  PROVE  IInv'
<1> USE DeliveryAssumption DEF IInv, reqVars, respVars, loopVars, errVars
<1>1. TypeOK'
  BY DEF TypeOK, TimeoutExpires, Causes, PCs, NoResponse, Nil
<1>2. EarlyInv' /\ ContextInv' /\ CancelInv'
  BY <1>1 DEF TypeOK, TimeoutExpires, EarlyInv, ContextInv, CancelInv, Early, Looping, Working, NoResponse, Nil
<1>3. CountInv'
  BY <1>1 DEF TypeOK, TimeoutExpires, CountInv, EarlyInv, Early, Spent
<1>4. ResponseInv'
  BY <1>1 DEF TypeOK, TimeoutExpires, EarlyInv, Early, Nil, ResponseInv, Looping, Answered, NoResponse
<1>5. RequestInv'
  BY <1>1 DEF TypeOK, TimeoutExpires, EarlyInv, Early, RequestInv
<1>6. QED
  BY <1>1, <1>2, <1>3, <1>4, <1>5

-----------------------------------------------------------------------------
(* The invariant, and what it gives.                                       *)

LEMMA InitIInv == Init => IInv
<1> SUFFICES ASSUME Init PROVE IInv
  OBVIOUS
<1> USE DeliveryAssumption DEF Init
<1>1. TypeOK
  <2>1. NoResponse \in [present: BOOLEAN, id: Nat, live: BOOLEAN, status: Nat]
    BY DEF NoResponse
  <2>2. 0 \in 0..MaxRetry /\ 0 \in 0..MaxCalls
    OBVIOUS
  <2>3. pc \in PCs /\ err \subseteq Causes /\ errs \subseteq Causes
    BY DEF PCs, Nil
  <2>4. reqOpen \subseteq Nat \ {0} /\ sent \subseteq Nat \ {0} /\ respOpen \subseteq Nat
    BY Zenon
  <2>5. twice \in BOOLEAN
    BY Zenon
  <2>6. made \in Nat \ {0}
    OBVIOUS
  <2>7. QED
    BY <2>1, <2>2, <2>3, <2>4, <2>5, <2>6 DEF TypeOK
<1>2. EarlyInv /\ ContextInv /\ CancelInv
  BY DEF EarlyInv, ContextInv, CancelInv, Early, Looping, Working, Nil
<1>3. CountInv
  BY DEF CountInv, Spent
<1>4. ResponseInv
  BY DEF ResponseInv, Looping, Answered
<1>5. RequestInv
  BY DEF RequestInv
<1>6. QED
  BY <1>1, <1>2, <1>3, <1>4, <1>5 DEF IInv

LEMMA StutterIInv == IInv /\ UNCHANGED vars => IInv'
BY DEF vars, reqVars, respVars, loopVars, errVars, IInv, TypeOK, EarlyInv, CountInv,
       ResponseInv, ContextInv, RequestInv, CancelInv, Spent

LEMMA NextIInv == IInv /\ [Next]_vars => IInv'
<1> SUFFICES ASSUME IInv, [Next]_vars PROVE IInv'
  OBVIOUS
<1>1. CASE Prepare
  BY <1>1, CompileFailsStep, CompileStep, OpenFailsStep, OpenStep DEF Prepare
<1>2. CASE Chain
  BY <1>2, MiddlewareBodyStep, CallNextStep, ShortCircuitStep, PassThroughStep, CallNextAgainStep DEF Chain
<1>3. CASE Transport
  BY <1>3, TransportRespondsStep, TransportFailsStep, TransportRejectsRedirectStep DEF Transport
<1>4. CASE Loop
  BY <1>4, StartAttemptStep, ResetFailsStep, StopRetryingStep, NotReplayableStep, CleanUpStep, TimerFiresStep, CanceledInBackoffStep DEF Loop
<1>5. CASE Deliver
  BY <1>5, FinishStep, SendFailsStep, SendNilResponseStep, SendBuffersStep, BufferBodyStep, StreamNilResponseStep, StreamFailsStep, StreamHandsOverStep DEF Deliver
<1>6. CASE CallerCloses
  BY <1>6, StreamCancelStep, StreamCloseStep DEF CallerCloses
<1>7. CASE \E i \in sent : TransportClosesBody(i)
  BY <1>7, TransportClosesBodyStep
<1>8. CASE CallerCancels
  BY <1>8, CallerCancelsStep
<1>9. CASE TimeoutExpires
  BY <1>9, TimeoutExpiresStep
<1>10. CASE UNCHANGED vars
  BY <1>10, StutterIInv
<1>11. QED
  BY <1>1, <1>2, <1>3, <1>4, <1>5, <1>6, <1>7, <1>8, <1>9, <1>10 DEF Next

\* IInv holds in every reachable state of every delivery.
THEOREM Invariance == Spec => []IInv
BY InitIInv, NextIInv, PTL DEF Spec

\* Type correctness, for every bound.
THEOREM TypeCorrect == Spec => []TypeOK
<1>1. IInv => TypeOK
  BY DEF IInv
<1>2. QED
  BY <1>1, Invariance, PTL

\* No response body is closed twice and none but the one in hand is open, on
\* any path through retries, middleware and errors.
THEOREM ResponseBodyOwnershipHolds == Spec => []ResponseBodyOwnership
<1>1. IInv => ResponseBodyOwnership
  BY DEF IInv, TypeOK, PCs, ResponseBodyOwnership, ResponseInv, EarlyInv, Early, Looping, Answered
<1>2. QED
  BY <1>1, Invariance, PTL

\* When the call is over no response body is open.
THEOREM NoResponseBodyLeaksHolds == Spec => []NoResponseBodyLeaks
<1>1. IInv => NoResponseBodyLeaks
  BY DEF IInv, NoResponseBodyLeaks, ResponseInv
<1>2. QED
  BY <1>1, Invariance, PTL

\* What is buffered or handed over is an open body of the last attempt.
THEOREM DeliveredBodyIsLiveHolds == Spec => []DeliveredBodyIsLive
<1>1. IInv => DeliveredBodyIsLive
  BY DEF IInv, DeliveredBodyIsLive, ResponseInv, Answered
<1>2. QED
  BY <1>1, Invariance, PTL

\* The derived context is released on every way out and not before.
THEOREM DerivedContextReleasedHolds == Spec => []DerivedContextReleased
<1>1. IInv => DerivedContextReleased
  BY DEF IInv, DerivedContextReleased, ContextInv, Working
<1>2. QED
  BY <1>1, Invariance, PTL

\* Transport attempts stay within the policy, per call of the final handler.
THEOREM AttemptBudgetHolds == Spec => []AttemptBudget
<1>1. IInv => AttemptBudget
  BY DEF IInv, AttemptBudget, CountInv, Spent
<1>2. QED
  BY <1>1, Invariance, PTL

\* Short-circuiting middleware leaves no request body behind, and the body of
\* openDelivery is closed at most once.
THEOREM UndeliveredBodyClosedHolds == Spec => []UndeliveredBodyClosed
<1>1. IInv => UndeliveredBodyClosed
  BY DEF IInv, UndeliveredBodyClosed, RequestInv
<1>2. QED
  BY <1>1, Invariance, PTL

-----------------------------------------------------------------------------
(* Action properties.                                                      *)

\* Only StartAttempt counts a transport attempt.
LEMMA OnlyStartAttempts ==
  ASSUME TypeOK, [Next]_vars, attempts' # attempts
  PROVE  StartAttempt
BY DEF Next, Prepare, Chain, Transport, Loop, Deliver, CallerCloses, TransportClosesBody,
       CallerCancels, TimeoutExpires, vars, reqVars, respVars, loopVars, errVars,
       CompileFails, Compile, OpenFails, Open, MiddlewareBody, CallNext, ShortCircuit,
       PassThrough, CallNextAgain, TransportResponds, TransportFails,
       TransportRejectsRedirect, ResetFails, StopRetrying, NotReplayable, CleanUp,
       TimerFires, CanceledInBackoff, Finish, SendFails, SendNilResponse, SendBuffers,
       BufferBody, StreamNilResponse, StreamFails, StreamHandsOver, StreamCancel, StreamClose

\* A retry never hands the transport a body it has seen before.
THEOREM NeverResendsBodyHolds == Spec => NeverResendsBody
<1>1. IInv /\ [Next]_vars => [attempts' # attempts => reqBody' \notin sent]_vars
  <2> SUFFICES ASSUME IInv, [Next]_vars, attempts' # attempts
               PROVE  reqBody' \notin sent
    OBVIOUS
  <2>1. StartAttempt
    BY OnlyStartAttempts DEF IInv
  <2>2. QED
    BY <2>1, BodyAtStart DEF IInv
<1>2. QED
  BY <1>1, Invariance, PTL DEF Spec, NeverResendsBody

\* Under DefaultRetryIf a canceled attempt is the last of its handler call.
THEOREM CancellationIsFinalHolds == Spec => CancellationIsFinal
<1>1. IInv /\ [Next]_vars
         => [attempts' # attempts => b.custom \/ "canceled" \notin errs]_vars
  <2> SUFFICES ASSUME IInv, [Next]_vars, attempts' # attempts
               PROVE  b.custom \/ "canceled" \notin errs
    OBVIOUS
  <2>1. StartAttempt
    BY OnlyStartAttempts DEF IInv
  <2>2. QED
    BY <2>1 DEF StartAttempt, IInv, CancelInv, Looping
<1>2. QED
  BY <1>1, Invariance, PTL DEF Spec, CancellationIsFinal

\* A stream is closed only after its derived context has been released.
THEOREM CancelBeforeStreamCloseHolds == Spec => CancelBeforeStreamClose
<1>1. IInv /\ [Next]_vars
         => [(pc \in {"streaming", "closing"} /\ respOpen' # respOpen) => derived # "held"]_vars
  <2> SUFFICES ASSUME IInv, [Next]_vars, pc \in {"streaming", "closing"}, respOpen' # respOpen
               PROVE  derived # "held"
    OBVIOUS
  <2>1. pc = "closing"
    <3>1. ~(Prepare \/ Chain \/ Transport \/ Loop \/ Deliver)
      BY DEF Prepare, Chain, Transport, Loop, Deliver,
       CompileFails, Compile, OpenFails, Open, MiddlewareBody, CallNext, ShortCircuit,
       PassThrough, CallNextAgain, TransportResponds, TransportFails,
       TransportRejectsRedirect, StartAttempt, ResetFails, StopRetrying, NotReplayable,
       CleanUp, TimerFires, CanceledInBackoff, Finish, SendFails, SendNilResponse,
       SendBuffers, BufferBody, StreamNilResponse, StreamFails, StreamHandsOver
    <3>2. QED
      BY <3>1 DEF Next, CallerCloses, StreamCancel, StreamClose, TransportClosesBody,
                  CallerCancels, TimeoutExpires, vars, respVars
  <2>2. QED
    BY <2>1 DEF IInv, ContextInv
<1>2. QED
  BY <1>1, Invariance, PTL DEF Spec, CancelBeforeStreamClose

-----------------------------------------------------------------------------
(* Delivery implements DeliveryContract.                                   *)

\* Attempts never exceed the contract's budget, whatever policy was chosen.
LEMMA WithinBudget ==
  ASSUME NEW a \in Nat, NEW c \in 0..MaxCalls, NEW r \in 0..MaxRetry, a <= c * (r + 1)
  PROVE  a <= MaxCalls * (MaxRetry + 1)
<1> USE DeliveryAssumption
<1>1. c \in Nat /\ c <= MaxCalls /\ r \in Nat /\ r <= MaxRetry
  OBVIOUS
<1>2. c * (r + 1) <= MaxCalls * (r + 1)
  BY <1>1
<1>3. MaxCalls * (r + 1) <= MaxCalls * (MaxRetry + 1)
  BY <1>1
<1>4. QED
  BY <1>1, <1>2, <1>3

LEMMA ContractInit == Init => Contract!CInit
BY DEF Init, Contract!CInit, Phase, Configurations

\* The contract's steps, and its stuttering, in terms of delivery's variables.
LEMMA ContractStutters ==
  ASSUME b' = b, Phase' = Phase, attempts' = attempts,
         (respOpen' # {}) = (respOpen # {}), (derived' = "held") = (derived = "held")
  PROVE  [Contract!CNext]_(Contract!cvars)
BY DEF Contract!cvars

LEMMA ContractEnds ==
  ASSUME b' = b, Phase = "inflight", Phase' = "done", attempts' = attempts,
         respOpen' = {}, derived' # "held"
  PROVE  [Contract!CNext]_(Contract!cvars)
BY DEF Contract!CNext, Contract!End

LEMMA ContractDerives ==
  ASSUME b' = b, Phase = "inflight", Phase' = "inflight", attempts = 0, attempts' = attempts,
         respOpen = {}, respOpen' = {}, derived' = "held"
  PROVE  [Contract!CNext]_(Contract!cvars)
BY DEF Contract!CNext, Contract!DeriveContext

LEMMA ContractTries ==
  ASSUME b' = b, Phase = "inflight", Phase' = "inflight",
         attempts < MaxCalls * (MaxRetry + 1), attempts' = attempts + 1,
         respOpen = {}, respOpen' = {}, derived' = derived
  PROVE  [Contract!CNext]_(Contract!cvars)
BY DEF Contract!CNext, Contract!Try

LEMMA ContractReceives ==
  ASSUME b' = b, Phase = "inflight", Phase' = "inflight", attempts' = attempts,
         respOpen = {}, respOpen' # {}, derived' = derived
  PROVE  [Contract!CNext]_(Contract!cvars)
BY DEF Contract!CNext, Contract!Receive

LEMMA ContractDisposes ==
  ASSUME b' = b, Phase = "inflight", Phase' = "inflight", attempts' = attempts,
         respOpen' = {}, derived' = derived
  PROVE  [Contract!CNext]_(Contract!cvars)
<1>1. CASE respOpen = {}
  BY <1>1, ContractStutters
<1>2. CASE respOpen # {}
  BY <1>2 DEF Contract!CNext, Contract!Dispose
<1>3. QED
  BY <1>1, <1>2

LEMMA ContractHandsOver ==
  ASSUME b' = b, b.stream, Phase = "inflight", Phase' = "owned", attempts' = attempts,
         respOpen # {}, respOpen' = respOpen, derived' = derived
  PROVE  [Contract!CNext]_(Contract!cvars)
BY DEF Contract!CNext, Contract!HandOver

LEMMA ContractOwnerCancels ==
  ASSUME b' = b, Phase = "owned", Phase' = "owned", attempts' = attempts,
         respOpen' = respOpen, derived' # "held"
  PROVE  [Contract!CNext]_(Contract!cvars)
<1>1. CASE derived = "held"
  BY <1>1 DEF Contract!CNext, Contract!OwnerCancels
<1>2. CASE derived # "held"
  BY <1>2, ContractStutters
<1>3. QED
  BY <1>1, <1>2

LEMMA ContractOwnerCloses ==
  ASSUME b' = b, Phase = "owned", Phase' = "done", attempts' = attempts,
         respOpen' = {}, derived # "held", derived' = derived
  PROVE  [Contract!CNext]_(Contract!cvars)
BY DEF Contract!CNext, Contract!OwnerCloses

\* Every step of delivery is one the contract allows, or none.
LEMMA ContractStep ==
  ASSUME IInv, IInv', [Next]_vars
  PROVE  [Contract!CNext]_(Contract!cvars)
<1> USE DEF reqVars, respVars, loopVars, errVars
<1>1. CASE Prepare
  <2>1. /\ b' = b /\ Phase = "inflight" /\ attempts' = attempts /\ attempts = 0
        /\ respOpen = {} /\ respOpen' = respOpen /\ derived = "none"
    BY <1>1 DEF Prepare, CompileFails, Compile, OpenFails, Open, IInv, EarlyInv, Early, Phase
  <2>2. CASE pc' = "returned"
    <3>1. Phase' = "done"
      BY <2>2 DEF Phase
    <3>2. derived' # "held"
      BY <2>2 DEF IInv, ContextInv
    <3>3. QED
      BY <2>1, <3>1, <3>2, ContractEnds
  <2>3. CASE pc' # "returned"
    <3>1. Phase' = "inflight"
      BY <1>1, <2>3 DEF Prepare, CompileFails, Compile, OpenFails, Open, Phase
    <3>2. CASE derived' = "held"
      BY <2>1, <3>1, <3>2, ContractDerives
    <3>3. CASE derived' # "held"
      BY <2>1, <3>1, <3>3, ContractStutters
    <3>4. QED
      BY <3>2, <3>3
  <2>4. QED
    BY <2>2, <2>3
<1>2. CASE Chain
  <2>1. /\ b' = b /\ Phase = "inflight" /\ Phase' = "inflight"
        /\ attempts' = attempts /\ derived' = derived
    BY <1>2 DEF Chain, MiddlewareBody, CallNext, ShortCircuit, PassThrough, CallNextAgain, Phase
  <2>2. CASE respOpen' = respOpen
    BY <2>1, <2>2, ContractStutters
  <2>3. CASE respOpen = {}
    <3>1. CASE respOpen' = {}
      BY <2>1, <3>1, ContractDisposes
    <3>2. CASE respOpen' # {}
      BY <2>1, <2>3, <3>2, ContractReceives
    <3>3. QED
      BY <3>1, <3>2
  <2>4. CASE respOpen' # respOpen /\ respOpen # {}
    <3>1. CallNextAgain
      BY <1>2, <2>4 DEF Chain, MiddlewareBody, CallNext, ShortCircuit, PassThrough, IInv, EarlyInv, Early
    <3>2. respOpen' = {}
      BY <3>1 DEF CallNextAgain, IInv, ResponseInv, Looping
    <3>3. QED
      BY <2>1, <3>2, ContractDisposes
  <2>5. QED
    BY <2>2, <2>3, <2>4
<1>3. CASE Transport
  <2>1. /\ b' = b /\ Phase = "inflight" /\ Phase' = "inflight"
        /\ attempts' = attempts /\ derived' = derived /\ respOpen = {}
    BY <1>3 DEF Transport, TransportResponds, TransportFails, TransportRejectsRedirect,
                Phase, IInv, ResponseInv, Looping
  <2>2. CASE respOpen' = {}
    BY <2>1, <2>2, ContractDisposes
  <2>3. CASE respOpen' # {}
    BY <2>1, <2>3, ContractReceives
  <2>4. QED
    BY <2>2, <2>3
<1>4. CASE Loop
  <2>1. b' = b /\ Phase = "inflight" /\ Phase' = "inflight" /\ derived' = derived
    BY <1>4 DEF Loop, StartAttempt, ResetFails, StopRetrying, NotReplayable, CleanUp,
                TimerFires, CanceledInBackoff, Phase
  <2>2. CASE StartAttempt
    <3>1. respOpen = {} /\ respOpen' = {} /\ attempts' = attempts + 1
      BY <2>2 DEF StartAttempt, IInv, ResponseInv, Looping
    <3>2. attempts < MaxCalls * (MaxRetry + 1)
      <4>1. /\ attempts' \in Nat /\ calls' \in 0..MaxCalls /\ retryMax' \in 0..MaxRetry
            /\ attempts' <= calls' * (retryMax' + 1)
        BY DEF IInv, TypeOK, CountInv, Spent
      <4>2. attempts' <= MaxCalls * (MaxRetry + 1)
        BY <4>1, WithinBudget
      <4>3. attempts \in Nat /\ MaxCalls * (MaxRetry + 1) \in Nat
        BY DeliveryAssumption DEF IInv, TypeOK
      <4>4. QED
        BY <3>1, <4>2, <4>3
    <3>3. QED
      BY <2>1, <3>1, <3>2, ContractTries
  <2>3. CASE \E ok \in BOOLEAN : CleanUp(ok)
    <3>1. attempts' = attempts
      BY <2>3 DEF CleanUp
    <3>2. respOpen' = {}
      <4>1. PICK ok \in BOOLEAN : CleanUp(ok)
        BY <2>3
      <4>2. QED
        BY <4>1, CleanUpDisposes DEF IInv
    <3>3. QED
      BY <2>1, <3>1, <3>2, ContractDisposes
  <2>4. CASE ResetFails \/ StopRetrying \/ NotReplayable \/ TimerFires \/ CanceledInBackoff
    <3>1. attempts' = attempts /\ respOpen' = respOpen
      BY <2>4 DEF ResetFails, StopRetrying, NotReplayable, TimerFires, CanceledInBackoff
    <3>2. QED
      BY <2>1, <3>1, ContractStutters
  <2>5. QED
    BY <1>4, <2>2, <2>3, <2>4 DEF Loop
<1>5. CASE Deliver
  <2>1. b' = b /\ Phase = "inflight" /\ attempts' = attempts
    BY <1>5 DEF Deliver, Finish, SendFails, SendNilResponse, SendBuffers, BufferBody,
                StreamNilResponse, StreamFails, StreamHandsOver, Phase
  <2>2. CASE pc' = "returned"
    <3>1. Phase' = "done"
      BY <2>2 DEF Phase
    <3>2. respOpen' = {} /\ derived' # "held"
      BY <2>2 DEF IInv, ResponseInv, ContextInv
    <3>3. QED
      BY <2>1, <3>1, <3>2, ContractEnds
  <2>3. CASE Finish \/ SendBuffers
    <3>1. Phase' = Phase /\ respOpen' = respOpen /\ derived' = derived
      BY <2>3 DEF Finish, SendBuffers, Phase
    <3>2. QED
      BY <2>1, <3>1, ContractStutters
  <2>4. CASE StreamHandsOver
    <3>1. /\ b.stream /\ Phase' = "owned" /\ respOpen' = respOpen /\ derived' = derived
          /\ pc' = "streaming"
      BY <2>4 DEF StreamHandsOver, Phase
    <3>2. respOpen # {}
      BY <2>4 DEF StreamHandsOver, IInv, ResponseInv, Answered
    <3>3. QED
      BY <2>1, <3>1, <3>2, ContractHandsOver
  <2>5. QED
    BY <1>5, <2>2, <2>3, <2>4 DEF Deliver, SendFails, SendNilResponse, BufferBody,
                StreamNilResponse, StreamFails
<1>6. CASE StreamCancel
  <2>1. /\ b' = b /\ Phase = "owned" /\ Phase' = "owned"
        /\ attempts' = attempts /\ respOpen' = respOpen /\ pc' = "closing"
    BY <1>6 DEF StreamCancel, Phase
  <2>2. derived' # "held"
    BY <2>1 DEF IInv, ContextInv
  <2>3. QED
    BY <2>1, <2>2, ContractOwnerCancels
<1>7. CASE StreamClose
  <2>1. /\ b' = b /\ Phase = "owned" /\ Phase' = "done"
        /\ attempts' = attempts /\ derived' = derived /\ pc' = "returned"
    BY <1>7 DEF StreamClose, Phase
  <2>2. respOpen' = {} /\ derived # "held"
    BY <2>1 DEF IInv, ResponseInv, ContextInv
  <2>3. QED
    BY <2>1, <2>2, ContractOwnerCloses
<1>8. CASE \/ \E i \in sent : TransportClosesBody(i)
           \/ CallerCancels \/ TimeoutExpires \/ UNCHANGED vars
  <2>1. /\ b' = b /\ pc' = pc /\ attempts' = attempts
        /\ respOpen' = respOpen /\ derived' = derived
    BY <1>8 DEF TransportClosesBody, CallerCancels, TimeoutExpires, vars
  <2>2. Phase' = Phase
    BY <2>1 DEF Phase
  <2>3. QED
    BY <2>1, <2>2, ContractStutters
<1>9. QED
  BY <1>1, <1>2, <1>3, <1>4, <1>5, <1>6, <1>7, <1>8 DEF Next, CallerCloses

\* Delivery implements the resource contract: for every policy, every
\* middleware and every answer of the transport, the caller sees attempts
\* within the budget, one open body at most and nothing left behind.
THEOREM Refinement == Spec => ImplementsContract
<1>1. IInv /\ IInv' /\ [Next]_vars => [Contract!CNext]_(Contract!cvars)
  BY ContractStep
<1>2. QED
  BY <1>1, ContractInit, Invariance, PTL DEF Spec, ImplementsContract, Contract!CSpec
=============================================================================
