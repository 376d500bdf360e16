-------------------------- MODULE DeliveryContract --------------------------
(***************************************************************************)
(* What Send and SendStream promise a caller about the resources of one    *)
(* call, without saying how: transport attempts within a budget, at most   *)
(* one open response body, none of it left behind when the call is over,   *)
(* and a derived context that a stream keeps until its owner lets go.      *)
(***************************************************************************)
EXTENDS Naturals

CONSTANT Budget \* transport attempts the retry policy allows

VARIABLES
    stream, \* SendStream, not Send
    phase,  \* "inflight", "owned" by the caller of SendStream, or "done"
    tries,  \* transport attempts
    open,   \* a response body is open
    held    \* the derived context is not released

cvars == <<stream, phase, tries, open, held>>

CInit ==
    /\ stream \in BOOLEAN
    /\ phase = "inflight" /\ tries = 0 /\ open = FALSE /\ held = FALSE

DeriveContext ==
    /\ phase = "inflight" /\ tries = 0 /\ ~open
    /\ held' = TRUE
    /\ UNCHANGED <<stream, phase, tries, open>>

\* An attempt starts only when the response before it has been disposed of.
Try ==
    /\ phase = "inflight" /\ ~open /\ tries < Budget
    /\ tries' = tries + 1
    /\ UNCHANGED <<stream, phase, open, held>>

Receive ==
    /\ phase = "inflight" /\ ~open
    /\ open' = TRUE
    /\ UNCHANGED <<stream, phase, tries, held>>

Dispose ==
    /\ phase = "inflight" /\ open
    /\ open' = FALSE
    /\ UNCHANGED <<stream, phase, tries, held>>

\* The call ends, well or badly, and keeps nothing.
End ==
    /\ phase = "inflight"
    /\ phase' = "done" /\ open' = FALSE /\ held' = FALSE
    /\ UNCHANGED <<stream, tries>>

\* SendStream succeeds: body and context now belong to the caller.
HandOver ==
    /\ phase = "inflight" /\ stream /\ open
    /\ phase' = "owned"
    /\ UNCHANGED <<stream, tries, open, held>>

OwnerCancels ==
    /\ phase = "owned" /\ held
    /\ held' = FALSE
    /\ UNCHANGED <<stream, phase, tries, open>>

OwnerCloses ==
    /\ phase = "owned" /\ ~held
    /\ phase' = "done" /\ open' = FALSE
    /\ UNCHANGED <<stream, tries, held>>

CNext ==
    \/ DeriveContext \/ Try \/ Receive \/ Dispose
    \/ End \/ HandOver \/ OwnerCancels \/ OwnerCloses

CSpec == CInit /\ [][CNext]_cvars

\* The call does not hang.
CFairSpec == CSpec /\ WF_cvars(End \/ HandOver)
=============================================================================
