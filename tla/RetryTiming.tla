---------------------------- MODULE RetryTiming ----------------------------
(***************************************************************************)
(* When a call retries and through which proxy (retry.go, proxy.go, the    *)
(* wait in delivery.go). Calls of one client run concurrently; each of     *)
(* their attempts takes a proxy from the rotation the client's transport   *)
(* owns, waits for an answer and then for the delay of the policy.         *)
(*                                                                         *)
(* Time is counted in ticks, a tick being a nanosecond of the code with    *)
(* fewer of them in a second. Durations are signed integers that wrap      *)
(* around beyond MaxDuration, the counter of the rotation an unsigned one  *)
(* with CounterSize values.                                                *)
(***************************************************************************)
EXTENDS RetryPolicy, FiniteSets

CONSTANTS Calls,
          N,             \* number of proxies
          CounterSize,   \* 2^64
          MaxDuration,   \* 2^63 - 1
          Second,        \* time.Second
          Policies,      \* retry policies of the client
          Answers,       \* what an attempt may end with
          MaxTime        \* bound on the clock

MinDuration == -(MaxDuration + 1)

ASSUME TimingAssumption ==
    /\ IsFiniteSet(Calls)
    /\ N \in Nat \ {0} /\ CounterSize \in Nat \ {0}
    /\ MaxDuration \in Nat /\ Second \in Nat \ {0} /\ MaxTime \in Nat
    /\ Policies \subseteq
          [max : Nat, kind : {"constant", "linear", "exponential"},
           initial : MinDuration..MaxDuration, num : Nat, den : Nat \ {0}, cap : MinDuration..MaxDuration,
           jitter : [num : Int, den : Nat \ {0}], ignoreRetryAfter : BOOLEAN]
    /\ Answers \subseteq
          [hasResp : BOOLEAN, status : Nat, err : SUBSET {"canceled", "timeout", "op"},
           form : {"none", "seconds", "date", "junk"}, at : Int]

VARIABLES policy,    \* of the client
          now,
          counter,   \* atomic counter of RoundRobinProxies
          wraps,     \* how often it has wrapped around
          picks,     \* proxy -> attempts sent through it
          call       \* call -> where it is

vars == <<policy, now, counter, wraps, picks, call>>

-----------------------------------------------------------------------------
\* Arithmetic on time.Duration

Wrap(x) == ((x + MaxDuration + 1) % (2 * (MaxDuration + 1))) - (MaxDuration + 1)
Lesser(x, y) == IF x <= y THEN x ELSE y
Greater(x, y) == IF x >= y THEN x ELSE y

\* Conversion of a float64 with integer part x: what does not fit becomes the
\* least Duration on one architecture and the greatest on another.
Converted(x) == IF x \in MinDuration..MaxDuration THEN {x} ELSE {MinDuration, MaxDuration}

-----------------------------------------------------------------------------
\* Strategies: the set of delays one may return

ConstantBackoffStrategy(p, attempt) == {p.initial}

LinearBackoffStrategy(p, attempt) == {Wrap(p.initial * Wrap(attempt + 1))}

\* math.Pow on integers.
Pow(x, n) ==
    LET pow[k \in 0..n] == IF k = 0 THEN 1 ELSE x * pow[k - 1]
    IN  pow[n]

\* The multiplier is num / den.
Factor(p, attempt) == Pow(p.num, attempt) \div Pow(p.den, attempt)
ExponentialBackoffStrategy_Uncapped(p, attempt) ==
    {Wrap(p.initial * factor) : factor \in Converted(Factor(p, attempt))}
ExponentialBackoffStrategy(p, attempt) ==
    {Lesser(Wrap(p.initial * factor), p.cap) : factor \in Converted(Factor(p, attempt))}

BaseBackoff(p, attempt) ==
    CASE p.kind = "constant" -> ConstantBackoffStrategy(p, attempt)
      [] p.kind = "linear" -> LinearBackoffStrategy(p, attempt)
      [] p.kind = "exponential" -> ExponentialBackoffStrategy(p, attempt)

Spread(delay, f) == (Greater(delay, -delay) * f.num) \div f.den
JitterBackoffStrategy(delays, f) ==
    IF f.num <= 0 THEN delays
    ELSE {Greater(r, 0) : r \in UNION {Converted(x) :
              x \in UNION {(d - Spread(d, f))..(d + Spread(d, f)) : d \in delays}}}

Backoff(p, attempt) == JitterBackoffStrategy(BaseBackoff(p, attempt), p.jitter)

-----------------------------------------------------------------------------
\* Retry-After

AsksFor(a) == a.hasResp /\ a.status \in {429, 503}

\* retryAfterDelay at instant t: seconds, a date, or the strategy's delay.
retryAfterDelay_NoUnit(a, fallback, t) ==
    IF AsksFor(a) /\ a.form = "seconds" /\ a.at >= 0 THEN a.at
    ELSE IF AsksFor(a) /\ a.form = "date" THEN Greater(Lesser(a.at - t, MaxDuration), 0)
    ELSE fallback
retryAfterDelay(a, fallback, t) ==
    IF AsksFor(a) /\ a.form = "seconds" /\ a.at >= 0 THEN Wrap(a.at * Second)
    ELSE IF AsksFor(a) /\ a.form = "date" THEN Greater(Lesser(a.at - t, MaxDuration), 0)
    ELSE fallback

\* RetryPolicy.delay
delay(p, attempt, a, t) ==
    {IF p.ignoreRetryAfter THEN d ELSE retryAfterDelay(a, d, t) : d \in Backoff(p, attempt)}

-----------------------------------------------------------------------------
NoAnswer == [hasResp |-> FALSE, status |-> 0, err |-> Nil, form |-> "none", at |-> 0]
Begin == [at |-> "select", attempt |-> 0, ticket |-> 0, answer |-> NoAnswer, arrived |-> 0,
          delay |-> 0, wake |-> 0]

Init ==
    /\ policy \in Policies
    /\ now = 0 /\ counter = 0 /\ wraps = 0
    /\ picks = [i \in 1..N |-> 0]
    /\ call = [c \in Calls |-> Begin]

\* RoundRobinProxies: counter.Add(1) - 1, then the proxy with that index.
Add(c) ==
    /\ call[c].at = "select"
    /\ call' = [call EXCEPT ![c].at = "index", ![c].ticket = counter]
    /\ counter' = (counter + 1) % CounterSize
    /\ wraps' = IF counter' = 0 THEN wraps + 1 ELSE wraps
    /\ UNCHANGED <<policy, now, picks>>

Index_Reload(c) == (counter + CounterSize - 1) % CounterSize
Index(c) == call[c].ticket

Select(c) ==
    /\ call[c].at = "index"
    /\ picks' = [picks EXCEPT ![(Index(c) % N) + 1] = @ + 1]
    /\ call' = [call EXCEPT ![c].at = "sent", ![c].ticket = 0]
    /\ UNCHANGED <<policy, now, counter, wraps>>

Answer(c) ==
    /\ call[c].at = "sent"
    /\ \E a \in Answers :
        call' = [call EXCEPT ![c].at = "answered", ![c].answer = a, ![c].arrived = now]
    /\ UNCHANGED <<policy, now, counter, wraps, picks>>

\* The body has been drained: decide, and start the timer.
Retries(c) ==
    /\ DefaultRetryIf(call[c].answer.hasResp, call[c].answer.status, call[c].answer.err)
    /\ call[c].attempt # policy.max

Stop(c) ==
    /\ call[c].at = "answered" /\ ~Retries(c)
    /\ call' = [call EXCEPT ![c] = [Begin EXCEPT !.at = "done"]]
    /\ UNCHANGED <<policy, now, counter, wraps, picks>>

StartTimer(c) ==
    /\ call[c].at = "answered" /\ Retries(c)
    /\ \E d \in delay(policy, call[c].attempt, call[c].answer, now) :
        call' = [call EXCEPT ![c].at = "wait", ![c].delay = d, ![c].wake = now + Greater(d, 0)]
    /\ UNCHANGED <<policy, now, counter, wraps, picks>>

TimerFires(c) ==
    /\ call[c].at = "wait" /\ now >= call[c].wake
    /\ call' = [call EXCEPT ![c] =
            [Begin EXCEPT !.attempt = call[c].attempt + 1, !.delay = call[c].delay]]
    /\ UNCHANGED <<policy, now, counter, wraps, picks>>

\* The context of the call ends while it waits.
ContextDone(c) ==
    /\ call[c].at = "wait"
    /\ call' = [call EXCEPT ![c] = [Begin EXCEPT !.at = "done"]]
    /\ UNCHANGED <<policy, now, counter, wraps, picks>>

Tick ==
    /\ now < MaxTime
    /\ now' = now + 1
    /\ UNCHANGED <<policy, counter, wraps, picks, call>>

Next ==
    \/ \E c \in Calls :
        \/ Add(c) \/ Select(c) \/ Answer(c) \/ Stop(c) \/ StartTimer(c) \/ TimerFires(c) \/ ContextDone(c)
    \/ Tick

Spec == Init /\ [][Next]_vars

-----------------------------------------------------------------------------
\* Properties

\* The rotation is fair (proxy.go:172, "picks the next proxy in order"): when no
\* call is between its counter step and its selection, no proxy has been used
\* more than once more than another, apart from once more for each time the
\* counter wrapped around.
RotationBalanced ==
    (\A c \in Calls : call[c].at # "index")
        => \A i, j \in 1..N : picks[i] - picks[j] <= 1 + wraps

\* The instant before which the server asked call c not to retry.
Asked(c) ==
    /\ ~policy.ignoreRetryAfter
    /\ AsksFor(call[c].answer)
    /\ \/ call[c].answer.form = "seconds" /\ call[c].answer.at >= 0
             /\ call[c].answer.at * Second <= MaxDuration
       \/ call[c].answer.form = "date" /\ call[c].answer.at - call[c].arrived <= MaxDuration
AskedInstant(c) ==
    IF call[c].answer.form = "seconds" THEN call[c].arrived + call[c].answer.at * Second
    ELSE call[c].answer.at

\* Retry-After is honored (README.md:587): a call does not retry before the
\* instant that a 429 or 503 answer asked for, in seconds or as a date, however
\* long draining the answer took and whatever the strategy returned, as long as
\* the time asked for is a Duration.
RetryAfterHonored ==
    [][\A c \in Calls :
        call[c].at = "wait" /\ call'[c].at = "select" /\ Asked(c) => now >= AskedInstant(c)]_vars

\* Both this wait of call c and the one before it have the strategy's delay.
OwnDelays(c) ==
    /\ call[c].at = "answered" /\ call'[c].at = "wait"
    /\ call[c].attempt > 0
    /\ policy.ignoreRetryAfter /\ policy.kind = "exponential" /\ policy.jitter.num <= 0
    /\ policy.initial >= 0 /\ policy.cap >= 0 /\ policy.num >= policy.den

Fits(c) ==
    LET factor == Factor(policy, call[c].attempt)
    IN factor <= MaxDuration /\ policy.initial * factor <= MaxDuration

\* While initialInterval * multiplier^attempt is a Duration, exponential backoff
\* never waits less before a later retry of a call than before an earlier one,
\* and never longer than maxBackoffTime.
BackoffGrows ==
    [][\A c \in Calls : OwnDelays(c) /\ Fits(c) =>
        call[c].delay <= call'[c].delay /\ call'[c].delay <= policy.cap]_vars

\* retry.go:29, "increases the delay exponentially with each retry attempt":
\* the same for every attempt.
BackoffAlwaysGrows ==
    [][\A c \in Calls : OwnDelays(c) => call[c].delay <= call'[c].delay]_vars
=============================================================================
