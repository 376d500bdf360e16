------------------------ MODULE StreamResponseProofs ------------------------
(***************************************************************************)
(* Proofs about StreamResponse.Close, for any number of goroutines and of  *)
(* calls. The inductive invariant ties the state of the sync.Once to the   *)
(* body, to the error kept and to the goroutines that can be past it.      *)
(***************************************************************************)
EXTENDS StreamResponse, TLAPS

\* The error every Close call returns.
FirstError == IF cfg.fails THEN "err" ELSE "nil"

\* Nothing has come back before the Once is done.
Untouched == closes = 0 /\ bodyOpen /\ returned = {}

OnceInv ==
    /\ once = "new" => Untouched /\ \A p \in Closers : pc[p] \in {"idle", "once"}
    /\ once \in Closers =>
        /\ Untouched
        /\ pc[once] \in {"cancel", "body"}
        /\ \A p \in Closers \ {once} : pc[p] \in {"idle", "once"}
    /\ once = "done" =>
        /\ closes = 1 /\ ~bodyOpen /\ closeErr = FirstError
        /\ returned \subseteq {FirstError}
        /\ \A p \in Closers : pc[p] \in {"idle", "once", "return"}

\* A goroutine inside Close has a call left to count.
CallInv == \A p \in Closers : pc[p] # "idle" => calls[p] < MaxCalls

IInv == TypeOK /\ OnceInv /\ CallInv

-----------------------------------------------------------------------------
LEMMA InitIInv == Init => IInv
<1> SUFFICES ASSUME Init PROVE IInv
    OBVIOUS
<1>1. TypeOK
    <2>1. calls \in [Closers -> 0..MaxCalls]
        BY StreamAssumption DEF Init
    <2>2. closes \in 0..1
        BY DEF Init
    <2>3. ended \in BOOLEAN /\ bodyOpen \in BOOLEAN
        BY DEF Init
    <2>4. pc \in [Closers -> {"idle", "once", "cancel", "body", "return"}]
        BY DEF Init
    <2>5. once \in Closers \cup {"new", "done"} /\ closeErr \in {"nil", "err"}
        BY DEF Init
    <2>. QED  BY <2>1, <2>2, <2>3, <2>4, <2>5 DEF Init, TypeOK
<1>2. OnceInv
    BY StreamAssumption DEF Init, OnceInv, Untouched
<1>3. CallInv
    BY DEF Init, CallInv
<1>. QED  BY <1>1, <1>2, <1>3 DEF IInv

\* Entering Close changes only where the goroutine is.
LEMMA CallStep ==
    ASSUME IInv, NEW p \in Closers, Call(p) PROVE IInv'
<1> USE DEF IInv
<1>1. TypeOK'
    BY DEF TypeOK, Call
<1>2. OnceInv'
    BY DEF TypeOK, OnceInv, Untouched, FirstError, Call
<1>3. CallInv'
    BY DEF TypeOK, CallInv, Call
<1>. QED  BY <1>1, <1>2, <1>3

\* The first goroutine at closeOnce.Do takes the Once.
LEMMA EnterStep ==
    ASSUME IInv, NEW p \in Closers, Enter(p) PROVE IInv'
<1> USE DEF IInv
<1>1. TypeOK'
    BY DEF TypeOK, Enter
<1>2. OnceInv'
    BY StreamAssumption DEF TypeOK, OnceInv, Untouched, FirstError, Enter
<1>3. CallInv'
    BY DEF TypeOK, CallInv, Enter
<1>. QED  BY <1>1, <1>2, <1>3

LEMMA SkipStep ==
    ASSUME IInv, NEW p \in Closers, Skip(p) PROVE IInv'
<1> USE DEF IInv
<1>1. TypeOK'
    BY DEF TypeOK, Skip
<1>2. OnceInv'
    BY StreamAssumption DEF TypeOK, OnceInv, Untouched, FirstError, Skip
<1>3. CallInv'
    BY DEF TypeOK, CallInv, Skip
<1>. QED  BY <1>1, <1>2, <1>3

\* Only the goroutine that holds the Once cancels.
LEMMA CancelStep ==
    ASSUME IInv, NEW p \in Closers, Cancel(p) PROVE IInv'
<1> USE DEF IInv
<1>1. once = p
    BY DEF TypeOK, OnceInv, Cancel
<1>2. TypeOK'
    BY DEF TypeOK, Configurations, Cancel
<1>3. OnceInv'
    BY <1>1, StreamAssumption DEF TypeOK, OnceInv, Untouched, FirstError, Cancel
<1>4. CallInv'
    BY DEF TypeOK, CallInv, Cancel
<1>. QED  BY <1>2, <1>3, <1>4

\* Only that goroutine closes the body, which nobody has closed yet.
LEMMA CloseBodyStep ==
    ASSUME IInv, NEW p \in Closers, CloseBody(p) PROVE IInv'
<1> USE DEF IInv
<1>1. once = p /\ Untouched
    BY DEF TypeOK, OnceInv, CloseBody
<1>2. TypeOK'
    <2>1. closes' \in 0..1
        BY <1>1 DEF Untouched, CloseBody
    <2>2. closeErr' \in {"nil", "err"} /\ bodyOpen' \in BOOLEAN /\ once' = "done"
        BY DEF CloseBody
    <2>3. pc' \in [Closers -> {"idle", "once", "cancel", "body", "return"}]
        BY DEF TypeOK, CloseBody
    <2>. QED  BY <2>1, <2>2, <2>3 DEF TypeOK, CloseBody
<1>3. OnceInv'
    BY <1>1, StreamAssumption DEF TypeOK, OnceInv, Untouched, FirstError, CloseBody
<1>4. CallInv'
    BY DEF TypeOK, CallInv, CloseBody
<1>. QED  BY <1>2, <1>3, <1>4

\* A call that comes back finds the Once done.
LEMMA ReturnStep ==
    ASSUME IInv, NEW p \in Closers, Return(p) PROVE IInv'
<1> USE DEF IInv
<1>1. once = "done"
    BY DEF TypeOK, OnceInv, Return
<1>2. calls[p] + 1 \in 0..MaxCalls
    BY StreamAssumption DEF TypeOK, CallInv, Return
<1>3. TypeOK'
    BY <1>2 DEF TypeOK, Return
<1>4. OnceInv'
    BY <1>1, StreamAssumption DEF TypeOK, OnceInv, Untouched, FirstError, Return
<1>5. CallInv'
    BY DEF TypeOK, CallInv, Return
<1>. QED  BY <1>3, <1>4, <1>5

LEMMA CallerCancelsStep ==
    ASSUME IInv, CallerCancels PROVE IInv'
BY DEF IInv, TypeOK, OnceInv, Untouched, FirstError, CallInv, CallerCancels

LEMMA NextIInv == IInv /\ [Next]_vars => IInv'
<1> SUFFICES ASSUME IInv, [Next]_vars PROVE IInv'
    OBVIOUS
<1>1. CASE UNCHANGED vars
    BY <1>1 DEF vars, IInv, TypeOK, OnceInv, Untouched, FirstError, CallInv
<1>2. CASE CallerCancels
    BY <1>2, CallerCancelsStep
<1>3. ASSUME NEW p \in Closers, Call(p) \/ Close(p) PROVE IInv'
    BY <1>3, CallStep, EnterStep, SkipStep, CancelStep, CloseBodyStep, ReturnStep DEF Close
<1>. QED  BY <1>1, <1>2, <1>3 DEF Next

\* The inductive invariant holds for every number of goroutines and calls.
THEOREM Invariance == Spec => []IInv
<1>. QED  BY InitIInv, NextIInv, PTL DEF Spec

\* StreamResponse.Close: the body sees at most one Close, and every call that
\* returns, returns the first call's error and after the body is closed.
THEOREM CloseAgreesHolds == Spec => []CloseAgrees
<1>1. IInv => CloseAgrees
    <2> SUFFICES ASSUME IInv PROVE CloseAgrees
        OBVIOUS
    <2>1. closes <= 1
        BY DEF IInv, TypeOK
    <2>2. ASSUME returned # {} PROVE ~bodyOpen /\ returned = {FirstError}
        BY <2>2 DEF IInv, TypeOK, OnceInv, Untouched
    <2>. QED  BY <2>1, <2>2 DEF CloseAgrees, FirstError
<1>. QED  BY <1>1, Invariance, PTL
=============================================================================
