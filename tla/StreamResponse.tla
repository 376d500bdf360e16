--------------------------- MODULE StreamResponse ---------------------------
(***************************************************************************)
(* StreamResponse.Close (stream_response.go) called by several goroutines, *)
(* again and again. closeOnce is a sync.Once: the first caller runs the    *)
(* function, the others wait for it. The body belongs to the transport: a  *)
(* Close of it may fail, and may wait until the request context has ended. *)
(***************************************************************************)
EXTENDS Integers

CONSTANTS
    Closers,  \* goroutines that call Close
    MaxCalls  \* bound: Close calls of each of them

ASSUME StreamAssumption ==
    MaxCalls \in Nat /\ "new" \notin Closers /\ "done" \notin Closers

VARIABLES
    cfg,       \* hasCancel: cancel is not nil; waits: Body.Close waits for the
               \* end of the context; fails: Body.Close returns an error
    ended,     \* the request context has ended
    bodyOpen,  \* the transport's body is not closed
    closes,    \* Close calls that reached it
    once,      \* the sync.Once: "new", the goroutine that runs, or "done"
    closeErr,  \* StreamResponse.closeErr
    pc,        \* where each goroutine is
    calls,     \* Close calls each goroutine has finished
    returned   \* the errors these calls returned

vars == <<cfg, ended, bodyOpen, closes, once, closeErr, pc, calls, returned>>

Configurations == [hasCancel: BOOLEAN, waits: BOOLEAN, fails: BOOLEAN]

Init ==
    /\ cfg \in Configurations
    /\ ended = FALSE
    /\ bodyOpen = TRUE /\ closes = 0
    /\ once = "new" /\ closeErr = "nil"
    /\ pc = [p \in Closers |-> "idle"]
    /\ calls = [p \in Closers |-> 0]
    /\ returned = {}

Call(p) ==
    /\ pc[p] = "idle" /\ calls[p] < MaxCalls
    /\ pc' = [pc EXCEPT ![p] = "once"]
    /\ UNCHANGED <<cfg, ended, bodyOpen, closes, once, closeErr, calls, returned>>

Enter(p) ==
    /\ pc[p] = "once" /\ once = "new"
    /\ once' = p
    /\ pc' = [pc EXCEPT ![p] = "cancel"]
    /\ UNCHANGED <<cfg, ended, bodyOpen, closes, closeErr, calls, returned>>

\* A flag in the place of sync.Once: whoever finds it set does not wait.
Skip_NoWait(p) ==
    /\ pc[p] = "once" /\ once # "new"
    /\ pc' = [pc EXCEPT ![p] = "return"]
    /\ UNCHANGED <<cfg, ended, bodyOpen, closes, once, closeErr, calls, returned>>

\* closeOnce.Do comes back when the first call has completed.
Skip(p) ==
    /\ pc[p] = "once" /\ once = "done"
    /\ pc' = [pc EXCEPT ![p] = "return"]
    /\ UNCHANGED <<cfg, ended, bodyOpen, closes, once, closeErr, calls, returned>>

Cancel_Skipped(p) ==
    /\ pc[p] = "cancel"
    /\ pc' = [pc EXCEPT ![p] = "body"]
    /\ UNCHANGED <<cfg, ended, bodyOpen, closes, once, closeErr, calls, returned>>

Cancel(p) ==
    /\ pc[p] = "cancel"
    /\ ended' = (ended \/ cfg.hasCancel)
    /\ pc' = [pc EXCEPT ![p] = "body"]
    /\ UNCHANGED <<cfg, bodyOpen, closes, once, closeErr, calls, returned>>

\* The body is closed and its error kept; the Once is done.
CloseBody(p) ==
    /\ pc[p] = "body"
    /\ cfg.waits => ended
    /\ bodyOpen' = FALSE /\ closes' = closes + 1
    /\ closeErr' = IF cfg.fails THEN "err" ELSE "nil"
    /\ once' = "done"
    /\ pc' = [pc EXCEPT ![p] = "return"]
    /\ UNCHANGED <<cfg, ended, calls, returned>>

Return(p) ==
    /\ pc[p] = "return"
    /\ returned' = returned \cup {closeErr}
    /\ calls' = [calls EXCEPT ![p] = @ + 1]
    /\ pc' = [pc EXCEPT ![p] = "idle"]
    /\ UNCHANGED <<cfg, ended, bodyOpen, closes, once, closeErr>>

\* The context the caller gave to SendStream ends.
CallerCancels ==
    /\ ~ended
    /\ ended' = TRUE
    /\ UNCHANGED <<cfg, bodyOpen, closes, once, closeErr, pc, calls, returned>>

Close(p) == Enter(p) \/ Skip(p) \/ Cancel(p) \/ CloseBody(p) \/ Return(p)

Next ==
    \/ \E p \in Closers : Call(p) \/ Close(p)
    \/ CallerCancels

Spec == Init /\ [][Next]_vars

\* A goroutine inside Close runs; nobody has to call it, or to cancel.
FairSpec == Spec /\ \A p \in Closers : WF_vars(Close(p))

-----------------------------------------------------------------------------
(* Properties.                                                             *)

\* Type invariant; the transport's body is closed at most once.
TypeOK ==
    /\ cfg \in Configurations
    /\ ended \in BOOLEAN /\ bodyOpen \in BOOLEAN /\ closes \in 0..1
    /\ once \in Closers \cup {"new", "done"}
    /\ closeErr \in {"nil", "err"} /\ returned \subseteq {"nil", "err"}
    /\ pc \in [Closers -> {"idle", "once", "cancel", "body", "return"}]
    /\ calls \in [Closers -> 0..MaxCalls]

\* "Repeated calls are idempotent and return the first body-close error": the
\* body sees one Close, and every Close call, concurrent with the first or
\* after it, returns when the body is closed and returns that error.
CloseAgrees ==
    /\ closes <= 1
    /\ returned # {} =>
        ~bodyOpen /\ returned = {IF cfg.fails THEN "err" ELSE "nil"}

\* Every Close call returns, even when closing the body waits for the end of
\* the request context, as long as there is a derived context to cancel.
CloseReturns ==
    \A p \in Closers :
        (pc[p] # "idle" /\ (cfg.waits => cfg.hasCancel)) ~> pc[p] = "idle"
=============================================================================
