--------------------------- MODULE MCRetryTiming ---------------------------
(***************************************************************************)
(* Durations of four bits and a counter of two, so that both wrap around;  *)
(* three proxies, which do not divide the size of the counter.             *)
(***************************************************************************)
EXTENDS RetryTiming, TLC

Policy(max, kind, initial, num, cap, jitter, ignore) ==
    [max |-> max, kind |-> kind, initial |-> initial, num |-> num, den |-> 2, cap |-> cap,
     jitter |-> [num |-> jitter, den |-> 2], ignoreRetryAfter |-> ignore]

MCPolicies ==
    {Policy(1, "constant", 0, 2, 1, 0, FALSE), Policy(1, "linear", 4, 2, 1, 0, FALSE),
     Policy(2, "exponential", 2, 3, 3, 1, FALSE), Policy(3, "exponential", 1, 6, 2, 0, TRUE)}

Got(status, form, at) ==
    [hasResp |-> TRUE, status |-> status, err |-> Nil, form |-> form, at |-> at]

MCAnswers ==
    {Got(200, "none", 0), Got(500, "seconds", 1), Got(429, "seconds", 1), Got(429, "seconds", 5),
     Got(503, "date", 4), Got(503, "seconds", -1), Got(429, "junk", 0),
     [NoAnswer EXCEPT !.err = {"op"}]}
CallSymmetry == Permutations(Calls)

OverflowPolicies == {Policy(4, "exponential", 1, 4, 4, 0, TRUE)}
OverflowAnswers == {Got(500, "none", 0)}
=============================================================================
