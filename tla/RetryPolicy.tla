---------------------------- MODULE RetryPolicy ----------------------------
(***************************************************************************)
(* The retry policy of delivery (retry.go) and the error predicates it     *)
(* uses (errors.go).                                                       *)
(*                                                                         *)
(* An error value is the set of the causes that errors.Is / errors.AsType  *)
(* find in its chain; nil is the empty set and errors.Join is set union.   *)
(* "timeout" stands for context.DeadlineExceeded and every net.Error whose *)
(* Timeout() is true, "op" for a *net.OpError, "canceled" for              *)
(* context.Canceled.                                                       *)
(***************************************************************************)
EXTENDS Integers

Nil == {}

IsCanceled(err) == "canceled" \in err
IsTimeout(err) == "timeout" \in err
IsConnectionError(err) == "op" \in err

\* The statuses DefaultRetryIf tells apart, on both sides of its boundaries.
RetryStatuses == {408, 429}

\* The mutant drops the precedence of a caller's cancellation.
DefaultRetryIf_CancelIgnored(hasResp, status, err) ==
    IF err # Nil
    THEN IsTimeout(err) \/ IsConnectionError(err)
    ELSE hasResp /\ (status \in RetryStatuses \/ status >= 500)

DefaultRetryIf(hasResp, status, err) ==
    IF err # Nil
    THEN ~IsCanceled(err) /\ (IsTimeout(err) \/ IsConnectionError(err))
    ELSE hasResp /\ (status \in RetryStatuses \/ status >= 500)

\* RetryPolicy.normalize on the field that delivery counts with.
normalize(max) == IF max < 0 THEN 0 ELSE max

\* compileDeliverySnapshot: a request-local policy replaces the client's.
EffectiveMax(hasRetryPolicy, requestMax, clientMax) ==
    normalize(IF hasRetryPolicy THEN requestMax ELSE clientMax)
=============================================================================
