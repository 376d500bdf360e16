----------------------------- MODULE MCDelivery -----------------------------
(***************************************************************************)
(* Small instances of Delivery for TLC.                                    *)
(***************************************************************************)
EXTENDS Delivery

\* One status on each side of what DefaultRetryIf tells apart.
MCStatuses == {200, 503}

\* Cancellation joined with a retryable cause; a retryable error; an error
\* that is not retried.
MCTransportErrors == {{"canceled", "op"}, {"timeout"}, {"other"}}
=============================================================================
