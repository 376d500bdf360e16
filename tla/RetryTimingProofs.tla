------------------------- MODULE RetryTimingProofs -------------------------
(***************************************************************************)
(* Proofs about RetryTiming, for any policies, answers, number of calls    *)
(* and proxies and any width of the integers.                              *)
(***************************************************************************)
EXTENDS RetryTiming, FiniteSetTheorems, WellFoundedInduction, TLAPS

-----------------------------------------------------------------------------
\* Retry-After

CallTypes ==
    [at : {"select", "index", "sent", "answered", "wait", "done"}, attempt : Nat,
     ticket : 0..(CounterSize - 1), answer : Answers \cup {NoAnswer}, arrived : Nat, delay : Int, wake : Int]

Late(c) ==
    call[c].at = "wait" /\ Asked(c) => call[c].wake >= AskedInstant(c)

AfterInv ==
    /\ now \in Nat /\ policy \in Policies /\ counter \in 0..(CounterSize - 1)
    /\ call \in [Calls -> CallTypes]
    /\ \A c \in Calls : call[c].arrived <= now /\ Late(c)

\* A Duration that is not negative is not changed by wrapping around.
LEMMA WrapFits ==
    ASSUME NEW x \in Nat, x <= MaxDuration
    PROVE  Wrap(x) = x
  BY TimingAssumption DEF Wrap

LEMMA WrapTyped ==
    ASSUME NEW x \in Int
    PROVE  Wrap(x) \in Int
  BY TimingAssumption DEF Wrap

LEMMA AnswerTyped ==
    ASSUME NEW a \in Answers \cup {NoAnswer}
    PROVE  a.at \in Int
  <1>1. CASE a \in Answers
    BY <1>1, TimingAssumption
  <1>2. CASE a = NoAnswer
    BY <1>2 DEF NoAnswer
  <1> QED BY <1>1, <1>2

LEMMA PolicyTyped ==
    ASSUME NEW p \in Policies
    PROVE  p.initial \in Int /\ p.cap \in Int /\ p.kind \in {"constant", "linear", "exponential"}
  BY TimingAssumption DEF MinDuration

LEMMA ConvertedTyped ==
    ASSUME NEW x
    PROVE  Converted(x) \subseteq Int
  BY TimingAssumption DEF Converted, MinDuration

\* Every strategy returns a Duration.
LEMMA BackoffTyped ==
    ASSUME NEW p \in Policies, NEW k \in Nat
    PROVE  Backoff(p, k) \subseteq Int
  <1>1. BaseBackoff(p, k) \subseteq Int
    <2>1. CASE p.kind = "constant"
      BY <2>1, PolicyTyped DEF BaseBackoff, ConstantBackoffStrategy
    <2>2. CASE p.kind = "linear"
      <3>1. Wrap(k + 1) \in Int
        BY WrapTyped
      <3>2. p.initial * Wrap(k + 1) \in Int
        BY <3>1, PolicyTyped
      <3> QED BY <2>2, <3>2, WrapTyped DEF BaseBackoff, LinearBackoffStrategy
    <2>3. CASE p.kind = "exponential"
      <3>1. ASSUME NEW factor \in Converted(Factor(p, k))
            PROVE Lesser(Wrap(p.initial * factor), p.cap) \in Int
        <4>1. factor \in Int
          BY ConvertedTyped
        <4>2. p.initial * factor \in Int
          BY <4>1, PolicyTyped
        <4> QED BY <4>2, WrapTyped, PolicyTyped DEF Lesser
      <3> QED BY <2>3, <3>1 DEF BaseBackoff, ExponentialBackoffStrategy
    <2> QED BY <2>1, <2>2, <2>3, PolicyTyped
  <1>2. ASSUME NEW x, NEW r \in Converted(x)
        PROVE Greater(r, 0) \in Int
    <2>1. r \in Int
      BY ConvertedTyped
    <2> QED BY <2>1 DEF Greater
  <1> QED BY <1>1, <1>2 DEF Backoff, JitterBackoffStrategy

\* What the delay is when the server asked for one that is a Duration.
LEMMA AskedDelay ==
    ASSUME NEW p, NEW k, NEW a \in Answers \cup {NoAnswer}, NEW t \in Nat,
           ~p.ignoreRetryAfter, AsksFor(a), NEW d \in delay(p, k, a, t)
    PROVE  /\ a.form = "seconds" /\ a.at >= 0 /\ a.at * Second <= MaxDuration => d = a.at * Second
           /\ a.form = "date" => d = Greater(Lesser(a.at - t, MaxDuration), 0)
  <1>1. PICK fallback : d = retryAfterDelay(a, fallback, t)
    BY DEF delay
  <1>2. a.at \in Int
    BY AnswerTyped
  <1>3. CASE a.form = "seconds" /\ a.at >= 0 /\ a.at * Second <= MaxDuration
    <2>1. d = Wrap(a.at * Second)
      BY <1>1, <1>3 DEF retryAfterDelay
    <2>2. a.at * Second \in Nat
      BY <1>2, <1>3, TimingAssumption
    <2> QED BY <1>3, <2>1, <2>2, WrapFits
  <1>4. CASE a.form = "date"
    BY <1>1, <1>4 DEF retryAfterDelay
  <1> QED BY <1>3, <1>4

LEMMA DelayTyped ==
    ASSUME NEW p \in Policies, NEW k \in Nat, NEW a \in Answers \cup {NoAnswer}, NEW t \in Nat
    PROVE  delay(p, k, a, t) \subseteq Int
  <1>1. ASSUME NEW d \in Int PROVE retryAfterDelay(a, d, t) \in Int
    <2>1. a.at \in Int /\ Second \in Int /\ MaxDuration \in Int
      BY AnswerTyped, TimingAssumption
    <2>2. Wrap(a.at * Second) \in Int
      BY <2>1, WrapTyped
    <2>3. Greater(Lesser(a.at - t, MaxDuration), 0) \in Int
      BY <2>1 DEF Greater, Lesser
    <2> QED BY <2>2, <2>3 DEF retryAfterDelay
  <1> QED BY <1>1, BackoffTyped DEF delay

\* The timer that is started then does not fire too early.
LEMMA TimerLate ==
    ASSUME AfterInv, NEW c \in Calls, StartTimer(c)
    PROVE  Late(c)'
  <1>1. PICK d \in delay(policy, call[c].attempt, call[c].answer, now) :
           call' = [call EXCEPT ![c].at = "wait", ![c].delay = d, ![c].wake = now + Greater(d, 0)]
    BY DEF StartTimer
  <1>2. /\ UNCHANGED <<policy, now>> /\ now \in Nat /\ call[c].arrived \in Nat /\ call[c].arrived <= now
        /\ call[c].answer \in Answers \cup {NoAnswer} /\ call[c] \in CallTypes /\ call \in [Calls -> CallTypes]
    BY DEF StartTimer, AfterInv, CallTypes
  <1>3. call'[c].answer = call[c].answer /\ call'[c].arrived = call[c].arrived
        /\ call'[c].wake = now + Greater(d, 0)
    BY <1>1, <1>2 DEF CallTypes
  <1>4. call[c].answer.at \in Int /\ Second \in Nat /\ MaxDuration \in Nat
    BY <1>2, AnswerTyped, TimingAssumption
  <1>5. ASSUME Asked(c)' PROVE call'[c].wake >= AskedInstant(c)'
    <2> DEFINE a == call[c].answer
    <2>1. ~policy.ignoreRetryAfter /\ AsksFor(a)
      BY <1>2, <1>3, <1>5 DEF Asked
    <2>2. CASE a.form = "seconds"
      <3>1. a.at >= 0 /\ a.at * Second <= MaxDuration
        BY <1>3, <1>5, <2>2 DEF Asked
      <3>2. d = a.at * Second
        BY <1>2, <2>1, <2>2, <3>1, AskedDelay
      <3>3. a.at * Second \in Nat
        BY <1>4, <3>1
      <3>4. AskedInstant(c)' = call[c].arrived + a.at * Second
        BY <1>3, <2>2 DEF AskedInstant
      <3>5. Greater(d, 0) = d
        BY <3>2, <3>3 DEF Greater
      <3> HIDE DEF a
      <3> QED BY <1>2, <1>3, <3>2, <3>3, <3>4, <3>5
    <2>3. CASE a.form = "date"
      <3>1. a.at - call[c].arrived <= MaxDuration
        BY <1>3, <1>5, <2>3 DEF Asked
      <3>2. d = Greater(Lesser(a.at - now, MaxDuration), 0)
        BY <1>2, <2>1, <2>3, AskedDelay
      <3>3. AskedInstant(c)' = a.at
        BY <1>3, <2>3 DEF AskedInstant
      <3>4. Lesser(a.at - now, MaxDuration) = a.at - now
        BY <1>2, <1>4, <3>1 DEF Lesser
      <3>5. now + Greater(d, 0) \in Int /\ now + Greater(d, 0) >= a.at
        BY <1>2, <1>4, <3>2, <3>4 DEF Greater
      <3> QED BY <1>3, <3>3, <3>5
    <2> QED BY <1>3, <1>5, <2>2, <2>3 DEF Asked
  <1> QED BY <1>5 DEF Late

LEMMA AfterStep ==
    ASSUME AfterInv, [Next]_vars
    PROVE  AfterInv'
  <1>0. /\ now \in Nat /\ policy \in Policies /\ counter \in 0..(CounterSize - 1)
        /\ call \in [Calls -> CallTypes]
        /\ \A c \in Calls : call[c] \in CallTypes /\ call[c].arrived <= now /\ Late(c)
    BY DEF AfterInv
  <1>1. CASE UNCHANGED vars
    BY <1>1, <1>0 DEF vars, AfterInv, Late, Asked, AskedInstant
  <1>2. CASE Tick
    <2>1. UNCHANGED <<policy, counter, call>> /\ now' = now + 1
      BY <1>2 DEF Tick
    <2>2. \A c \in Calls : call[c].arrived \in Nat
      BY <1>0 DEF CallTypes
    <2> QED BY <1>0, <2>1, <2>2 DEF AfterInv, Late, Asked, AskedInstant
  <1>3. ASSUME NEW c \in Calls, NEW r \in CallTypes, call' = [call EXCEPT ![c] = r], UNCHANGED <<policy, now>>,
               counter' \in 0..(CounterSize - 1), r.arrived <= now, Late(c)'
        PROVE AfterInv'
    <2>1. /\ call' \in [Calls -> CallTypes] /\ call'[c] = r
          /\ \A b \in Calls \ {c} : call'[b] = call[b]
      BY <1>0, <1>3
    <2>2. \A b \in Calls \ {c} : Late(b)'
      BY <1>0, <1>3, <2>1 DEF Late, Asked, AskedInstant
    <2> QED BY <1>0, <1>3, <2>1, <2>2 DEF AfterInv
  <1>4. ASSUME NEW c \in Calls, NEW r, call' = [call EXCEPT ![c] = r], r.at # "wait" PROVE Late(c)'
    BY <1>0, <1>4 DEF Late
  <1>5. ASSUME NEW c \in Calls, Add(c) PROVE AfterInv'
    <2> DEFINE r == [call[c] EXCEPT !.at = "index", !.ticket = counter]
    <2>1. call' = [call EXCEPT ![c] = r] /\ UNCHANGED <<policy, now>>
      BY <1>0, <1>5 DEF Add
    <2>2. r \in CallTypes /\ r.arrived = call[c].arrived /\ r.at = "index"
      BY <1>0 DEF CallTypes
    <2>3. counter' \in 0..(CounterSize - 1)
      BY <1>0, <1>5, TimingAssumption DEF Add
    <2> HIDE DEF r
    <2> QED BY <1>0, <1>3, <1>4, <2>1, <2>2, <2>3
  <1>6. ASSUME NEW c \in Calls, Select(c) PROVE AfterInv'
    <2> DEFINE r == [call[c] EXCEPT !.at = "sent", !.ticket = 0]
    <2>1. call' = [call EXCEPT ![c] = r] /\ UNCHANGED <<policy, now, counter>>
      BY <1>0, <1>6 DEF Select
    <2>2. 0 \in 0..(CounterSize - 1)
      BY TimingAssumption
    <2>3. r \in CallTypes /\ r.arrived = call[c].arrived /\ r.at = "sent"
      BY <1>0, <2>2 DEF CallTypes
    <2> HIDE DEF r
    <2> QED BY <1>0, <1>3, <1>4, <2>1, <2>3
  <1>7. ASSUME NEW c \in Calls, Answer(c) PROVE AfterInv'
    <2>0. PICK a \in Answers :
             call' = [call EXCEPT ![c].at = "answered", ![c].answer = a, ![c].arrived = now]
      BY <1>7 DEF Answer
    <2> DEFINE r == [call[c] EXCEPT !.at = "answered", !.answer = a, !.arrived = now]
    <2>1. call' = [call EXCEPT ![c] = r] /\ UNCHANGED <<policy, now, counter>>
      BY <1>0, <1>7, <2>0 DEF Answer
    <2>2. r \in CallTypes /\ r.arrived = now /\ r.at = "answered"
      BY <1>0 DEF CallTypes
    <2> HIDE DEF r
    <2>3. r.arrived <= now
      BY <1>0, <2>2
    <2> QED BY <1>0, <1>3, <1>4, <2>1, <2>2, <2>3
  <1>8. ASSUME NEW c \in Calls, StartTimer(c) PROVE AfterInv'
    <2>0. PICK d \in delay(policy, call[c].attempt, call[c].answer, now) :
             call' = [call EXCEPT ![c].at = "wait", ![c].delay = d, ![c].wake = now + Greater(d, 0)]
      BY <1>8 DEF StartTimer
    <2> DEFINE r == [call[c] EXCEPT !.at = "wait", !.delay = d, !.wake = now + Greater(d, 0)]
    <2>1. call' = [call EXCEPT ![c] = r] /\ UNCHANGED <<policy, now, counter>>
      BY <1>0, <1>8, <2>0 DEF StartTimer
    <2>2. call[c].attempt \in Nat /\ call[c].answer \in Answers \cup {NoAnswer}
      BY <1>0 DEF CallTypes
    <2>3. d \in Int
      BY <1>0, <2>2, DelayTyped
    <2>4. now + Greater(d, 0) \in Int
      BY <1>0, <2>3 DEF Greater
    <2>5. r \in CallTypes /\ r.arrived = call[c].arrived
      BY <1>0, <2>3, <2>4 DEF CallTypes
    <2> HIDE DEF r
    <2> QED BY <1>0, <1>3, <1>8, <2>1, <2>5, TimerLate
  <1>9. ASSUME NEW c \in Calls, Stop(c) \/ TimerFires(c) \/ ContextDone(c) PROVE AfterInv'
    <2>0. Begin \in CallTypes /\ Begin.arrived = 0 /\ Begin.at = "select" /\ call[c].attempt + 1 \in Nat
          /\ call[c].delay \in Int
      BY <1>0, TimingAssumption DEF Begin, CallTypes
    <2>1. PICK r \in CallTypes :
             /\ call' = [call EXCEPT ![c] = r] /\ UNCHANGED <<policy, now, counter>>
             /\ r.arrived = 0 /\ r.at \in {"select", "done"}
      <3>1. CASE Stop(c) \/ ContextDone(c)
        <4>1. [Begin EXCEPT !.at = "done"] \in CallTypes /\ [Begin EXCEPT !.at = "done"].arrived = 0
              /\ [Begin EXCEPT !.at = "done"].at = "done"
          BY <2>0 DEF CallTypes
        <4> QED BY <3>1, <4>1 DEF Stop, ContextDone
      <3>2. CASE TimerFires(c)
        <4> DEFINE r == [Begin EXCEPT !.attempt = call[c].attempt + 1, !.delay = call[c].delay]
        <4>1. r \in CallTypes /\ r.arrived = 0 /\ r.at = "select"
          BY <2>0 DEF CallTypes
        <4> QED BY <3>2, <4>1 DEF TimerFires
      <3> QED BY <1>9, <3>1, <3>2
    <2>2. r.arrived <= now /\ r.at # "wait"
      BY <1>0, <2>1
    <2> QED BY <1>0, <1>3, <1>4, <2>1, <2>2
  <1> QED BY <1>1, <1>2, <1>5, <1>6, <1>7, <1>8, <1>9 DEF Next

LEMMA AfterInit == Init => AfterInv
  <1> SUFFICES ASSUME Init PROVE AfterInv
    OBVIOUS
  <1>1. now = 0 /\ call = [c \in Calls |-> Begin] /\ policy \in Policies /\ counter = 0
    BY DEF Init
  <1>2. Begin \in CallTypes /\ Begin.arrived = 0 /\ Begin.at = "select" /\ 0 \in 0..(CounterSize - 1)
    BY TimingAssumption DEF Begin, CallTypes
  <1> QED BY <1>1, <1>2 DEF AfterInv, Late

\* The code waits at least as long as a 429 or 503 answer asked for
\* (retry.go:114, delivery.go:277), for every policy, answer and interleaving.
THEOREM RetryAfterHonoredHolds == Spec => RetryAfterHonored
  <1>1. AfterInv /\ [Next]_vars =>
          [\A c \in Calls :
              call[c].at = "wait" /\ call'[c].at = "select" /\ Asked(c) => now >= AskedInstant(c)]_vars
    <2> SUFFICES ASSUME AfterInv, Next, NEW c \in Calls,
                        call[c].at = "wait", call'[c].at = "select", Asked(c)
                 PROVE  now >= AskedInstant(c)
      BY DEF vars
    <2>1. /\ now \in Nat /\ call \in [Calls -> CallTypes]
          /\ call[c].wake \in Int /\ call[c].wake >= AskedInstant(c)
      BY DEF AfterInv, Late, CallTypes
    <2>2. TimerFires(c)
      <3>1. call[c].at # call'[c].at
        OBVIOUS
      <3>2. \A b \in Calls : Add(b) \/ Select(b) \/ Answer(b) \/ Stop(b) \/ StartTimer(b) \/ ContextDone(b)
                => call'[c].at # "select" \/ call'[c].at = call[c].at
        BY <2>1 DEF Add, Select, Answer, Stop, StartTimer, ContextDone, CallTypes, Begin
      <3>3. \A b \in Calls : TimerFires(b) => b = c
        BY <2>1, <3>1 DEF TimerFires
      <3> QED BY <3>1, <3>2, <3>3 DEF Next, Tick
    <2>3. now >= call[c].wake
      BY <2>2 DEF TimerFires
    <2>4. AskedInstant(c) \in Int
      <3>1. call[c].answer.at \in Int /\ call[c].arrived \in Nat
        BY AnswerTyped DEF AfterInv, CallTypes
      <3> QED BY <3>1, TimingAssumption DEF AskedInstant
    <2> QED BY <2>1, <2>3, <2>4
  <1> QED BY <1>1, AfterInit, AfterStep, PTL DEF Spec, RetryAfterHonored

-----------------------------------------------------------------------------
\* Division

LEMMA Euclid ==
    ASSUME NEW n \in Nat \ {0}, NEW k \in Int
    PROVE  k \div n \in Int /\ k % n \in 0..(n - 1) /\ k = n * (k \div n) + (k % n)
  OBVIOUS

LEMMA Multiples ==
    ASSUME NEW n \in Nat \ {0}, NEW a \in Int, NEW b \in Int, a < b
    PROVE  n * a + n <= n * b
  <1>1. PICK d \in Nat : b = a + 1 + d
    <2>1. b - a - 1 \in Nat /\ b = a + 1 + (b - a - 1)
      OBVIOUS
    <2> QED BY <2>1
  <1>2. n * b = n * a + n + n * d
    BY <1>1
  <1>3. n * d \in Nat /\ n * a \in Int
    OBVIOUS
  <1> QED BY <1>2, <1>3

LEMMA Quotient ==
    ASSUME NEW n \in Nat \ {0}, NEW k \in Int, NEW q \in Int, n * q <= k, k < n * q + n
    PROVE  k \div n = q
  <1>1. k \div n \in Int /\ k % n \in 0..(n - 1) /\ k = n * (k \div n) + (k % n)
    BY Euclid
  <1>2. n * q \in Int /\ n * (k \div n) \in Int
    BY <1>1
  <1>3. ASSUME q < k \div n PROVE FALSE
    <2>1. n * q + n <= n * (k \div n)
      BY <1>1, <1>3, Multiples
    <2> QED BY <2>1, <1>1, <1>2
  <1>4. ASSUME k \div n < q PROVE FALSE
    <2>1. n * (k \div n) + n <= n * q
      BY <1>1, <1>4, Multiples
    <2> QED BY <2>1, <1>1, <1>2
  <1> QED BY <1>1, <1>3, <1>4

LEMMA SmallRemainder ==
    ASSUME NEW n \in Nat \ {0}, NEW k \in Nat, k < n
    PROVE  k % n = k
  <1>1. n * 0 = 0 /\ k \in Int
    OBVIOUS
  <1>2. k \div n = 0
    BY <1>1, Quotient
  <1>3. k = n * (k \div n) + (k % n) /\ k % n \in 0..(n - 1)
    BY <1>1, Euclid
  <1> QED BY <1>1, <1>2, <1>3

-----------------------------------------------------------------------------
\* The rotation

\* How many of the first k values of the counter select proxy i.
Tickets(i, k) == (k + N - i) \div N

\* The calls that have taken such a value and not yet selected the proxy.
Pending(i) == {c \in Calls : call[c].at = "index" /\ (call[c].ticket % N) + 1 = i}

\* Every value of the counter has been used, or will be, by one attempt.
RotationInv ==
    /\ picks \in [1..N -> Nat] /\ wraps \in Nat
    /\ \A i \in 1..N :
          picks[i] + Cardinality(Pending(i)) = wraps * Tickets(i, CounterSize) + Tickets(i, counter)

LEMMA TicketsValue ==
    ASSUME NEW i \in 1..N, NEW k \in Nat
    PROVE  /\ k \div N \in Nat
           /\ i <= k % N => Tickets(i, k) = (k \div N) + 1
           /\ k % N < i => Tickets(i, k) = k \div N
  <1> DEFINE q == k \div N  r == k % N
  <1>1. N \in Nat \ {0}
    BY TimingAssumption
  <1>2. q \in Int /\ r \in 0..(N - 1) /\ k = N * q + r /\ N * q \in Int
    BY <1>1, Euclid
  <1>3. q \in Nat
    BY <1>1
  <1> HIDE DEF q, r
  <1>4. k + N - i \in Int
    BY <1>1
  <1>5. ASSUME i <= r PROVE Tickets(i, k) = q + 1
    <2>1. N * (q + 1) = N * q + N
      BY <1>1, <1>2
    <2>2. N * (q + 1) <= k + N - i /\ k + N - i < N * (q + 1) + N /\ q + 1 \in Int
      BY <1>1, <1>2, <1>5, <2>1
    <2> QED BY <1>1, <1>4, <2>2, Quotient DEF Tickets
  <1>6. ASSUME r < i PROVE Tickets(i, k) = q
    <2>1. N * q <= k + N - i /\ k + N - i < N * q + N
      BY <1>1, <1>2, <1>6
    <2> QED BY <1>1, <1>2, <1>4, <2>1, Quotient DEF Tickets
  <1> QED BY <1>3, <1>5, <1>6 DEF q, r

LEMMA TicketsStep ==
    ASSUME NEW i \in 1..N, NEW k \in Nat
    PROVE  /\ Tickets(i, k) \in Nat
           /\ (k % N) + 1 = i => Tickets(i, k + 1) = Tickets(i, k) + 1
           /\ (k % N) + 1 # i => Tickets(i, k + 1) = Tickets(i, k)
  <1> DEFINE q == k \div N  r == k % N  q1 == (k + 1) \div N  r1 == (k + 1) % N
  <1>1. N \in Nat \ {0}
    BY TimingAssumption
  <1>2. q \in Nat /\ r \in 0..(N - 1) /\ k = N * q + r /\ N * q \in Int
    BY <1>1, Euclid, TicketsValue
  <1>3. q1 \in Nat /\ r1 \in 0..(N - 1) /\ k + 1 = N * q1 + r1 /\ N * q1 \in Int
    <2>1. k + 1 \in Nat /\ k + 1 \in Int
      OBVIOUS
    <2>2. q1 \in Nat
      BY <2>1, TicketsValue
    <2>3. r1 \in 0..(N - 1) /\ k + 1 = N * q1 + r1
      BY <1>1, <2>1, Euclid
    <2> QED BY <1>1, <2>2, <2>3
  <1>4. /\ i <= r => Tickets(i, k) = q + 1
        /\ r < i => Tickets(i, k) = q
        /\ i <= r1 => Tickets(i, k + 1) = q1 + 1
        /\ r1 < i => Tickets(i, k + 1) = q1
    BY TicketsValue
  <1> DEFINE this == k + 1
  <1>5. q1 = this \div N /\ this \in Int /\ this = k + 1
    OBVIOUS
  <1> HIDE DEF q, r, q1, r1, this
  <1>6. CASE r + 1 < N
    <2>1. N * q <= this /\ this < N * q + N
      BY <1>1, <1>2, <1>5, <1>6
    <2>2. q1 = q
      BY <1>1, <1>2, <1>5, <2>1, Quotient
    <2>3. r1 = r + 1
      BY <1>2, <1>3, <2>2
    <2> QED BY <1>1, <1>2, <1>3, <1>4, <2>2, <2>3 DEF r
  <1>7. CASE r + 1 = N
    <2>0. N * (q + 1) = N * q + N
      BY <1>1, <1>2
    <2>1. N * (q + 1) <= this /\ this < N * (q + 1) + N /\ q + 1 \in Int
      BY <1>1, <1>2, <1>5, <1>7, <2>0
    <2>2. q1 = q + 1
      BY <1>1, <1>5, <2>1, Quotient
    <2>3. r1 = 0
      BY <1>1, <1>2, <1>3, <1>7, <2>0, <2>2
    <2> QED BY <1>1, <1>2, <1>3, <1>4, <1>7, <2>2, <2>3 DEF r
  <1> QED BY <1>1, <1>2, <1>6, <1>7

LEMMA TicketsStart ==
    ASSUME NEW i \in 1..N
    PROVE  Tickets(i, 0) = 0
  <1>1. N \in Nat \ {0} /\ N * 0 = 0 /\ 0 + N - i \in Int /\ 0 <= 0 + N - i /\ 0 + N - i < 0 + N
    BY TimingAssumption
  <1> QED BY <1>1, Quotient DEF Tickets

LEMMA TicketsEven ==
    ASSUME NEW i \in 1..N, NEW j \in 1..N, NEW k \in Nat
    PROVE  Tickets(i, k) <= Tickets(j, k) + 1
  <1>1. k % N \in 0..(N - 1)
    BY TimingAssumption, Euclid
  <1>2. \A n \in 1..N : Tickets(n, k) \in {k \div N, (k \div N) + 1} /\ k \div N \in Nat
    <2>1. SUFFICES ASSUME NEW n \in 1..N
                   PROVE Tickets(n, k) \in {k \div N, (k \div N) + 1} /\ k \div N \in Nat
      OBVIOUS
    <2>2. n <= k % N \/ k % N < n
      BY <1>1, TimingAssumption
    <2> QED BY <2>2, TicketsValue
  <1> QED BY <1>2

LEMMA PendingFinite ==
    ASSUME NEW i
    PROVE  IsFiniteSet(Pending(i)) /\ Cardinality(Pending(i)) \in Nat
  <1>1. IsFiniteSet(Calls) /\ Pending(i) \subseteq Calls
    BY TimingAssumption DEF Pending
  <1> QED BY <1>1, FS_Subset, FS_CardinalityType

LEMMA AddRotates ==
    ASSUME AfterInv, RotationInv, NEW c \in Calls, Add(c)
    PROVE  RotationInv'
  <1>1. /\ counter \in Nat /\ counter < CounterSize /\ CounterSize \in Nat \ {0} /\ N \in Nat \ {0}
        /\ wraps \in Nat /\ picks \in [1..N -> Nat] /\ call \in [Calls -> CallTypes]
    BY TimingAssumption DEF AfterInv, RotationInv
  <1>2. /\ call[c].at = "select" /\ counter' = (counter + 1) % CounterSize
        /\ wraps' = IF counter' = 0 THEN wraps + 1 ELSE wraps
        /\ UNCHANGED picks
        /\ call' = [call EXCEPT ![c].at = "index", ![c].ticket = counter]
    BY DEF Add
  <1>3. /\ call'[c].at = "index" /\ call'[c].ticket = counter
        /\ \A b \in Calls : b # c => call'[b] = call[b]
    BY <1>1, <1>2 DEF CallTypes
  <1>4. \/ counter' = counter + 1 /\ wraps' = wraps
        \/ counter' = 0 /\ wraps' = wraps + 1 /\ counter + 1 = CounterSize
    <2>1. CASE counter + 1 < CounterSize
      <3>1. counter' = counter + 1
        <4>1. counter + 1 \in Nat
          BY <1>1
        <4> QED BY <1>1, <1>2, <2>1, <4>1, SmallRemainder
      <3> QED BY <1>1, <1>2, <3>1
    <2>2. CASE counter + 1 = CounterSize
      <3>1. counter' = 0
        BY <1>1, <1>2, <2>2
      <3> QED BY <1>2, <2>2, <3>1
    <2> QED BY <1>1, <2>1, <2>2
  <1>5. ASSUME NEW i \in 1..N
        PROVE picks'[i] + Cardinality(Pending(i)')
                = wraps' * Tickets(i, CounterSize) + Tickets(i, counter')
    <2>0. /\ picks[i] + Cardinality(Pending(i)) = wraps * Tickets(i, CounterSize) + Tickets(i, counter)
          /\ picks[i] \in Nat /\ Cardinality(Pending(i)) \in Nat /\ IsFiniteSet(Pending(i))
          /\ Tickets(i, counter) \in Nat /\ Tickets(i, CounterSize) \in Nat
      BY <1>1, PendingFinite, TicketsStep DEF RotationInv
    <2> DEFINE T == Tickets(i, CounterSize)
    <2>1. /\ (counter % N) + 1 = i => Cardinality(Pending(i)') = Cardinality(Pending(i)) + 1
          /\ (counter % N) + 1 # i => Cardinality(Pending(i)') = Cardinality(Pending(i))
      <3>1. c \notin Pending(i)
        BY <1>2 DEF Pending
      <3>2. CASE (counter % N) + 1 = i
        <4>1. Pending(i)' = Pending(i) \cup {c}
          BY <1>3, <3>1, <3>2 DEF Pending
        <4> QED BY <2>0, <3>1, <3>2, <4>1, FS_AddElement
      <3>3. CASE (counter % N) + 1 # i
        <4>1. Pending(i)' = Pending(i)
          BY <1>3, <3>1, <3>3 DEF Pending
        <4> QED BY <3>3, <4>1
      <3> QED BY <3>2, <3>3
    <2>2. /\ (counter % N) + 1 = i => Tickets(i, counter + 1) = Tickets(i, counter) + 1
          /\ (counter % N) + 1 # i => Tickets(i, counter + 1) = Tickets(i, counter)
      BY <1>1, TicketsStep
    <2>3. picks[i] + Cardinality(Pending(i)') = wraps * T + Tickets(i, counter + 1)
      <3>1. wraps * T \in Nat
        BY <1>1, <2>0
      <3> QED BY <2>0, <2>1, <2>2, <3>1
    <2>4. CASE counter' = counter + 1 /\ wraps' = wraps
      BY <1>2, <2>3, <2>4
    <2>5. CASE counter' = 0 /\ wraps' = wraps + 1 /\ counter + 1 = CounterSize
      <3>1. Tickets(i, counter') = 0
        BY <2>5, TicketsStart
      <3>2. wraps * T + T = (wraps + 1) * T + 0
        BY <1>1, <2>0
      <3> QED BY <1>2, <2>3, <2>5, <3>1, <3>2
    <2> QED BY <1>4, <2>4, <2>5
  <1>6. picks' \in [1..N -> Nat] /\ wraps' \in Nat
    BY <1>1, <1>2
  <1> QED BY <1>5, <1>6 DEF RotationInv

LEMMA SelectRotates ==
    ASSUME AfterInv, RotationInv, NEW c \in Calls, Select(c)
    PROVE  RotationInv'
  <1> DEFINE i0 == (call[c].ticket % N) + 1
  <1>1. /\ N \in Nat \ {0} /\ wraps \in Nat /\ picks \in [1..N -> Nat] /\ call \in [Calls -> CallTypes]
    BY TimingAssumption DEF AfterInv, RotationInv
  <1>2. /\ call[c].at = "index" /\ UNCHANGED <<counter, wraps>>
        /\ picks' = [picks EXCEPT ![i0] = @ + 1]
        /\ call' = [call EXCEPT ![c].at = "sent", ![c].ticket = 0]
    BY DEF Select, Index
  <1>3. /\ call'[c].at = "sent"
        /\ \A b \in Calls : b # c => call'[b] = call[b]
    BY <1>1, <1>2 DEF CallTypes
  <1>4. i0 \in 1..N
    <2>1. call[c].ticket \in Int
      BY <1>1, TimingAssumption DEF CallTypes
    <2>2. call[c].ticket % N \in 0..(N - 1)
      BY <1>1, <2>1, Euclid
    <2> QED BY <1>1, <2>2
  <1>5. picks' \in [1..N -> Nat] /\ picks'[i0] = picks[i0] + 1 /\ \A i \in 1..N : i # i0 => picks'[i] = picks[i]
    BY <1>1, <1>2, <1>4
  <1>6. ASSUME NEW i \in 1..N
        PROVE picks'[i] + Cardinality(Pending(i)') = picks[i] + Cardinality(Pending(i))
    <2>0. picks[i] \in Nat /\ Cardinality(Pending(i)) \in Nat /\ IsFiniteSet(Pending(i))
      BY <1>1, PendingFinite
    <2>1. CASE i = i0
      <3>1. c \in Pending(i) /\ Pending(i)' = Pending(i) \ {c}
        BY <1>2, <1>3, <2>1 DEF Pending
      <3>2. Cardinality(Pending(i)') = Cardinality(Pending(i)) - 1
        BY <2>0, <3>1, FS_RemoveElement
      <3> QED BY <1>5, <2>0, <2>1, <3>2
    <2>2. CASE i # i0
      <3>1. Pending(i)' = Pending(i)
        BY <1>2, <1>3, <2>2 DEF Pending
      <3> QED BY <1>5, <2>2, <3>1
    <2> QED BY <2>1, <2>2
  <1> QED BY <1>1, <1>2, <1>5, <1>6 DEF RotationInv

LEMMA OthersKeepRotation ==
    ASSUME AfterInv, RotationInv, [Next]_vars, \A c \in Calls : ~Add(c) /\ ~Select(c)
    PROVE  RotationInv'
  <1>0. call \in [Calls -> CallTypes]
    BY DEF AfterInv
  <1>1. UNCHANGED <<counter, wraps, picks>>
    BY DEF Next, vars, Answer, Stop, StartTimer, TimerFires, ContextDone, Tick
  <1> DEFINE Kept ==
                \A b \in Calls : /\ call[b].at = "index" => call'[b] = call[b]
                                 /\ call[b].at # "index" => call'[b].at # "index"
  <1>2. Kept
    <2>1. ASSUME NEW c \in Calls, NEW r, call' = [call EXCEPT ![c] = r], call[c].at # "index", r.at # "index"
          PROVE Kept
      BY <1>0, <2>1
    <2>2. Begin.at = "select"
      BY DEF Begin
    <2>3. ASSUME NEW c \in Calls, Answer(c) PROVE Kept
      <3>1. PICK a : call' = [call EXCEPT ![c] = [call[c] EXCEPT !.at = "answered", !.answer = a, !.arrived = now]]
        BY <1>0, <2>3 DEF Answer
      <3>2. [call[c] EXCEPT !.at = "answered", !.answer = a, !.arrived = now].at = "answered"
        BY <1>0 DEF CallTypes
      <3> QED BY <2>1, <2>3, <3>1, <3>2 DEF Answer
    <2>4. ASSUME NEW c \in Calls, StartTimer(c) PROVE Kept
      <3>1. PICK d : call' = [call EXCEPT ![c] =
                        [call[c] EXCEPT !.at = "wait", !.delay = d, !.wake = now + Greater(d, 0)]]
        BY <1>0, <2>4 DEF StartTimer
      <3>2. [call[c] EXCEPT !.at = "wait", !.delay = d, !.wake = now + Greater(d, 0)].at = "wait"
        BY <1>0 DEF CallTypes
      <3> QED BY <2>1, <2>4, <3>1, <3>2 DEF StartTimer
    <2>5. ASSUME NEW c \in Calls, Stop(c) \/ ContextDone(c) PROVE Kept
      <3>1. [Begin EXCEPT !.at = "done"].at = "done"
        BY DEF Begin
      <3> QED BY <2>1, <2>5, <3>1 DEF Stop, ContextDone
    <2>6. ASSUME NEW c \in Calls, TimerFires(c) PROVE Kept
      <3>1. [Begin EXCEPT !.attempt = call[c].attempt + 1, !.delay = call[c].delay].at = "select"
        BY DEF Begin
      <3> QED BY <2>1, <2>6, <3>1 DEF TimerFires
    <2>7. CASE Tick \/ UNCHANGED vars
      BY <2>7 DEF Tick, vars
    <2> QED BY <2>3, <2>4, <2>5, <2>6, <2>7 DEF Next
  <1>3. \A i \in 1..N : Pending(i)' = Pending(i)
    <2>1. ASSUME NEW i \in 1..N, NEW b \in Calls PROVE b \in Pending(i)' <=> b \in Pending(i)
      <3>1. CASE call[b].at = "index"
        <4>1. call'[b] = call[b]
          BY <1>2, <3>1
        <4> QED BY <4>1 DEF Pending
      <3>2. CASE call[b].at # "index"
        <4>1. call'[b].at # "index"
          BY <1>2, <3>2
        <4> QED BY <3>2, <4>1 DEF Pending
      <3> QED BY <3>1, <3>2
    <2>2. \A i : Pending(i) \subseteq Calls /\ Pending(i)' \subseteq Calls
      BY DEF Pending
    <2> QED BY <2>1, <2>2
  <1> QED BY <1>1, <1>3 DEF RotationInv

LEMMA RotationInit == Init => RotationInv
  <1> SUFFICES ASSUME Init PROVE RotationInv
    OBVIOUS
  <1>1. picks = [i \in 1..N |-> 0] /\ wraps = 0 /\ counter = 0 /\ call = [c \in Calls |-> Begin]
    BY DEF Init
  <1>2. \A i : Pending(i) = {}
    BY <1>1 DEF Pending, Begin
  <1>3. \A i \in 1..N : Tickets(i, CounterSize) \in Nat /\ Tickets(i, 0) = 0
    BY TimingAssumption, TicketsStep, TicketsStart
  <1>4. Cardinality({}) = 0
    BY FS_EmptySet
  <1>5. ASSUME NEW i \in 1..N
        PROVE picks[i] + Cardinality(Pending(i)) = wraps * Tickets(i, CounterSize) + Tickets(i, counter)
    <2>1. picks[i] = 0 /\ Cardinality(Pending(i)) = 0 /\ Tickets(i, counter) = 0
      BY <1>1, <1>2, <1>3, <1>4
    <2>2. wraps * Tickets(i, CounterSize) = 0
      BY <1>1, <1>3
    <2> QED BY <2>1, <2>2
  <1> QED BY <1>1, <1>5 DEF RotationInv

LEMMA RotationEven ==
    ASSUME AfterInv, RotationInv
    PROVE  RotationBalanced
  <1> SUFFICES ASSUME \A c \in Calls : call[c].at # "index", NEW i \in 1..N, NEW j \in 1..N
               PROVE  picks[i] - picks[j] <= 1 + wraps
    BY DEF RotationBalanced
  <1>1. \A n : Pending(n) = {}
    BY DEF Pending
  <1>2. \A n : Cardinality(Pending(n)) = 0
    BY <1>1, FS_EmptySet
  <1> DEFINE a == Tickets(i, CounterSize)  b == Tickets(j, CounterSize)
  <1>3. CounterSize \in Nat /\ counter \in Nat /\ wraps \in Nat /\ picks[i] \in Nat /\ picks[j] \in Nat
    BY TimingAssumption DEF AfterInv, RotationInv
  <1>4. a \in Nat /\ b \in Nat /\ a <= b + 1
    BY <1>3, TicketsStep, TicketsEven
  <1>5. Tickets(i, counter) \in Nat /\ Tickets(j, counter) \in Nat
        /\ Tickets(i, counter) <= Tickets(j, counter) + 1
    BY <1>3, TicketsStep, TicketsEven
  <1>6. picks[i] = wraps * a + Tickets(i, counter) /\ picks[j] = wraps * b + Tickets(j, counter)
    BY <1>2, <1>3 DEF RotationInv
  <1>7. wraps * a <= wraps * b + wraps
    <2> HIDE DEF a, b
    <2>1. PICK d \in Nat : b + 1 = a + d
      <3>1. b + 1 - a \in Nat /\ b + 1 = a + (b + 1 - a)
        BY <1>4
      <3> QED BY <3>1
    <2>2. wraps * b + wraps = wraps * (a + d)
      BY <1>3, <1>4, <2>1
    <2>3. wraps * (a + d) = wraps * a + wraps * d /\ wraps * d \in Nat /\ wraps * a \in Nat
      BY <1>3, <1>4
    <2> QED BY <2>2, <2>3
  <1>8. wraps * a \in Nat /\ wraps * b \in Nat
    BY <1>3, <1>4
  <1> HIDE DEF a, b
  <1> QED BY <1>3, <1>5, <1>6, <1>7, <1>8

\* Round-robin selection is even for any number of proxies and calls and any
\* width of the counter: proxies are apart by one attempt, and by one more for
\* each time the counter has wrapped around (proxy.go:221-224).
THEOREM RotationBalancedHolds == Spec => []RotationBalanced
  <1>1. Init => AfterInv /\ RotationInv
    BY AfterInit, RotationInit
  <1>2. AfterInv /\ RotationInv /\ [Next]_vars => (AfterInv /\ RotationInv)'
    BY AfterStep, AddRotates, SelectRotates, OthersKeepRotation
  <1>3. AfterInv /\ RotationInv => RotationBalanced
    BY RotationEven
  <1> QED BY <1>1, <1>2, <1>3, PTL DEF Spec

-----------------------------------------------------------------------------
\* Exponential backoff

\* Induction on the naturals for a set in the place of a predicate.
LEMMA SetInduction ==
    ASSUME NEW S, 0 \in S, \A n \in Nat : n \in S => n + 1 \in S
    PROVE  \A n \in Nat : n \in S
  <1> SUFFICES ASSUME Nat \ S # {} PROVE FALSE
    OBVIOUS
  <1> DEFINE Below == OpToRel(<, Nat)
  <1>1. PICK n \in Nat \ S : \A m \in Nat \ S : ~(<<m, n>> \in Below)
    BY NatLessThanWellFounded, WFMin
  <1>2. \A a, b \in Nat : a < b => <<a, b>> \in Below
    BY DEF OpToRel
  <1> HIDE DEF Below
  <1>3. n # 0 /\ n \in Nat
    OBVIOUS
  <1>4. n - 1 \in Nat /\ n - 1 < n /\ (n - 1) + 1 = n
    BY <1>3
  <1>5. n - 1 \in S
    <2> SUFFICES ASSUME n - 1 \in Nat \ S PROVE FALSE
      BY <1>4
    <2>1. <<n - 1, n>> \in Below
      BY <1>2, <1>3, <1>4
    <2> QED BY <1>1, <2>1
  <1> QED BY <1>3, <1>4, <1>5

\* f[k] is the k-th power of x, for k up to n.
Powers(f, x, n) ==
    /\ DOMAIN f = 0..n
    /\ f[0] = 1
    /\ \A k \in 1..n : f[k] = x * f[k - 1]
    /\ \A k \in 0..n : f[k] \in Nat

\* The recursion of Pow has a solution.
LEMMA PowersExist ==
    ASSUME NEW x \in Nat, NEW n \in Nat
    PROVE  \E f : Powers(f, x, n)
  <1> DEFINE S == {m \in Nat : \E f : Powers(f, x, m)}
  <1>1. 0 \in S
    <2> DEFINE g == [k \in 0..0 |-> 1]
    <2>1. Powers(g, x, 0)
      BY DEF Powers
    <2> QED BY <2>1
  <1>2. ASSUME NEW m \in Nat, m \in S PROVE m + 1 \in S
    <2>1. PICK f : Powers(f, x, m)
      BY <1>2
    <2> DEFINE g == [k \in 0..(m + 1) |-> IF k = m + 1 THEN x * f[m] ELSE f[k]]
    <2>2. m \in 0..m /\ f[m] \in Nat /\ x * f[m] \in Nat
      <3>1. m \in 0..m
        OBVIOUS
      <3>2. f[m] \in Nat
        BY <2>1, <3>1 DEF Powers
      <3> QED BY <3>1, <3>2
    <2>3. \A k \in 1..(m + 1) : g[k] = x * g[k - 1]
      <3> TAKE k \in 1..(m + 1)
      <3>1. CASE k = m + 1
        BY <3>1
      <3>2. CASE k # m + 1
        <4>1. k \in 1..m /\ k - 1 \in 0..(m + 1) /\ k - 1 # m + 1 /\ k \in 0..(m + 1)
          BY <3>2
        <4>2. g[k] = f[k] /\ g[k - 1] = f[k - 1]
          BY <3>2, <4>1
        <4> QED BY <2>1, <4>1, <4>2 DEF Powers
      <3> QED BY <3>1, <3>2
    <2>4. \A k \in 0..(m + 1) : g[k] \in Nat
      <3> TAKE k \in 0..(m + 1)
      <3>1. CASE k = m + 1
        BY <2>2, <3>1
      <3>2. CASE k # m + 1
        <4>1. k \in 0..m
          BY <3>2
        <4> QED BY <2>1, <3>2, <4>1 DEF Powers
      <3> QED BY <3>1, <3>2
    <2>5. g[0] = 1 /\ DOMAIN g = 0..(m + 1)
      BY <2>1 DEF Powers
    <2> HIDE DEF g
    <2>6. Powers(g, x, m + 1)
      BY <2>3, <2>4, <2>5 DEF Powers
    <2> QED BY <2>6
  <1> HIDE DEF S
  <1>3. n \in S
    BY <1>1, <1>2, SetInduction
  <1> QED BY <1>3 DEF S

\* Two solutions agree where both are defined.
LEMMA PowersAgree ==
    ASSUME NEW x \in Nat, NEW m \in Nat, NEW n \in Nat, m <= n,
           NEW f, Powers(f, x, m), NEW g, Powers(g, x, n)
    PROVE  \A k \in 0..m : f[k] = g[k]
  <1> DEFINE S == {k \in Nat : k <= m => f[k] = g[k]}
  <1>1. 0 \in S
    BY DEF Powers
  <1>2. ASSUME NEW k \in Nat, k \in S PROVE k + 1 \in S
    <2> SUFFICES ASSUME k + 1 <= m PROVE f[k + 1] = g[k + 1]
      OBVIOUS
    <2>1. k <= m /\ k + 1 \in 1..m /\ k + 1 \in 1..n /\ (k + 1) - 1 = k
      OBVIOUS
    <2> QED BY <1>2, <2>1 DEF Powers
  <1> HIDE DEF S
  <1>3. \A k \in Nat : k \in S
    BY <1>1, <1>2, SetInduction
  <1> QED BY <1>3 DEF S

\* Pow is the last value of a solution.
LEMMA PowIs ==
    ASSUME NEW x \in Nat, NEW n \in Nat
    PROVE  \E f : Powers(f, x, n) /\ Pow(x, n) = f[n]
  <1> DEFINE body(f) == [k \in 0..n |-> IF k = 0 THEN 1 ELSE x * f[k - 1]]
             pow == CHOOSE f : f = body(f)
  <1>1. Pow(x, n) = pow[n]
    BY DEF Pow
  <1>2. PICK f : Powers(f, x, n)
    BY PowersExist
  <1> DEFINE g == [k \in 0..n |-> f[k]]
  <1>3. g = body(g)
    <2>1. ASSUME NEW k \in 0..n PROVE g[k] = IF k = 0 THEN 1 ELSE x * g[k - 1]
      <3>1. CASE k = 0
        BY <1>2, <3>1 DEF Powers
      <3>2. CASE k # 0
        <4>1. k \in 1..n /\ k - 1 \in 0..n
          BY <3>2
        <4> QED BY <1>2, <3>2, <4>1 DEF Powers
      <3> QED BY <3>1, <3>2
    <2> QED BY <2>1
  <1> HIDE DEF g
  <1>4. \E h : h = body(h)
    BY <1>3
  <1> HIDE DEF body
  <1>5. pow = body(pow)
    BY <1>4
  <1> HIDE DEF pow
  <1>6. DOMAIN pow = 0..n /\ \A k \in 0..n : pow[k] = IF k = 0 THEN 1 ELSE x * pow[k - 1]
    BY <1>5 DEF body
  <1>7. pow[0] = 1 /\ \A k \in 1..n : pow[k] = x * pow[k - 1]
    BY <1>6
  <1>8. \A k \in 0..n : pow[k] \in Nat
    <2> DEFINE S == {k \in Nat : k <= n => pow[k] \in Nat}
    <2>1. 0 \in S
      BY <1>7
    <2>2. ASSUME NEW k \in Nat, k \in S PROVE k + 1 \in S
      <3> SUFFICES ASSUME k + 1 <= n PROVE pow[k + 1] \in Nat
        OBVIOUS
      <3>1. k <= n /\ k + 1 \in 1..n /\ (k + 1) - 1 = k
        OBVIOUS
      <3>2. pow[k + 1] = x * pow[k] /\ pow[k] \in Nat
        BY <1>7, <2>2, <3>1
      <3> QED BY <3>2
    <2> HIDE DEF S
    <2>3. \A k \in Nat : k \in S
      BY <2>1, <2>2, SetInduction
    <2> QED BY <2>3 DEF S
  <1> QED BY <1>1, <1>6, <1>7, <1>8 DEF Powers

\* What Pow computes.
LEMMA PowStep ==
    ASSUME NEW x \in Nat, NEW n \in Nat
    PROVE  /\ Pow(x, 0) = 1 /\ Pow(x, n) \in Nat
           /\ Pow(x, n + 1) = x * Pow(x, n)
  <1>1. PICK f : Powers(f, x, n) /\ Pow(x, n) = f[n]
    BY PowIs
  <1>2. PICK g : Powers(g, x, n + 1) /\ Pow(x, n + 1) = g[n + 1]
    BY PowIs
  <1>3. PICK h : Powers(h, x, 0) /\ Pow(x, 0) = h[0]
    BY PowIs
  <1>4. n \in 0..n /\ n + 1 \in 1..(n + 1) /\ (n + 1) - 1 = n /\ n <= n + 1
    OBVIOUS
  <1>5. f[n] = g[n]
    BY <1>1, <1>2, <1>4, PowersAgree
  <1>6. Pow(x, n) \in Nat /\ Pow(x, 0) = 1
    BY <1>1, <1>3, <1>4 DEF Powers
  <1>7. g[n + 1] = x * g[n]
    BY <1>2, <1>4 DEF Powers
  <1> QED BY <1>1, <1>2, <1>5, <1>6, <1>7

\* The powers of a positive number are positive.
LEMMA PowPositive ==
    ASSUME NEW x \in Nat \ {0}, NEW n \in Nat
    PROVE  Pow(x, n) \in Nat \ {0}
  <1> DEFINE S == {k \in Nat : Pow(x, k) \in Nat \ {0}}
  <1>1. 0 \in S
    BY PowStep
  <1>2. ASSUME NEW k \in Nat, k \in S PROVE k + 1 \in S
    <2> DEFINE y == Pow(x, k)
    <2>1. Pow(x, k + 1) = x * y /\ y \in Nat /\ y # 0
      BY <1>2, PowStep
    <2> HIDE DEF y
    <2>2. x * y \in Nat /\ x * y # 0
      BY <2>1
    <2> QED BY <2>1, <2>2
  <1> HIDE DEF S
  <1>3. n \in S
    BY <1>1, <1>2, SetInduction
  <1> QED BY <1>3 DEF S

\* A multiplier of at least one does not make a quotient smaller.
LEMMA QuotientGrows ==
    ASSUME NEW a \in Nat, NEW b \in Nat \ {0}, NEW n \in Nat, NEW d \in Nat \ {0}, n >= d
    PROVE  a \div b \in Nat /\ a \div b <= (n * a) \div (d * b)
  <1> DEFINE q == a \div b
             u == n * a
             v == d * b
  <1>1. q \in Nat /\ b * q <= a
    OBVIOUS
  <1> HIDE DEF q
  <1>2. u \in Nat /\ v \in Nat /\ v > 0
    OBVIOUS
  <1>3. v * q <= u
    <2> DEFINE w == b * q
    <2>1. w \in Nat /\ w <= a
      BY <1>1
    <2>2. v * q = d * w
      BY <1>1
    <2> HIDE DEF w
    <2>3. d * w <= d * a
      BY <2>1
    <2>4. d * a <= n * a
      OBVIOUS
    <2>5. d * w \in Int /\ d * a \in Int
      BY <2>1
    <2> QED BY <2>2, <2>3, <2>4, <2>5
  <1> HIDE DEF u, v
  <1>4. q <= u \div v
    <2> DEFINE r == u \div v
    <2>1. r \in Nat /\ u < v * (r + 1)
      BY <1>2
    <2> HIDE DEF r
    <2>2. ASSUME q > r PROVE FALSE
      <3>1. q >= r + 1
        BY <1>1, <2>1, <2>2
      <3>2. v * (r + 1) <= v * q
        BY <1>1, <1>2, <2>1, <3>1
      <3>3. v * (r + 1) \in Int /\ v * q \in Int
        BY <1>1, <1>2, <2>1
      <3> QED BY <1>2, <1>3, <2>1, <3>2, <3>3
    <2> QED BY <1>1, <2>1, <2>2 DEF r
  <1> QED BY <1>1, <1>4 DEF q, u, v

\* The factor of exponential backoff grows with the attempt.
LEMMA FactorGrows ==
    ASSUME NEW p \in Policies, NEW k \in Nat, p.num >= p.den
    PROVE  Factor(p, k) \in Nat /\ Factor(p, k) <= Factor(p, k + 1) /\ Factor(p, k + 1) \in Nat
  <1>1. p.num \in Nat /\ p.den \in Nat \ {0}
    BY TimingAssumption
  <1> DEFINE n == p.num
             d == p.den
             a == Pow(n, k)
             b == Pow(d, k)
  <1>2. a \in Nat /\ Pow(n, k + 1) = n * a /\ Pow(d, k + 1) = d * b
    BY <1>1, PowStep
  <1>3. b \in Nat \ {0}
    BY <1>1, PowPositive
  <1>4. Factor(p, k) = a \div b /\ Factor(p, k + 1) = (n * a) \div (d * b)
    BY <1>2 DEF Factor
  <1>5. n \in Nat /\ d \in Nat \ {0} /\ n >= d
    BY <1>1
  <1> HIDE DEF n, d, a, b
  <1>6. a \div b \in Nat /\ a \div b <= (n * a) \div (d * b)
    BY <1>2, <1>3, <1>5, QuotientGrows
  <1>7. (n * a) \div (d * b) \in Nat
    <2> DEFINE u == n * a
               v == d * b
    <2>1. u \in Nat /\ v \in Nat /\ v > 0
      BY <1>2, <1>3, <1>5
    <2> HIDE DEF u, v
    <2>2. u \div v \in Nat
      BY <2>1
    <2> QED BY <2>2 DEF u, v
  <1> QED BY <1>4, <1>6, <1>7

\* A policy of which BackoffGrows speaks.
Plain(p) ==
    /\ p.ignoreRetryAfter /\ p.kind = "exponential" /\ p.jitter.num <= 0
    /\ p.initial >= 0 /\ p.cap >= 0 /\ p.num >= p.den

\* The product of its attempt k is a Duration.
FitsAt(p, k) == Factor(p, k) <= MaxDuration /\ p.initial * Factor(p, k) <= MaxDuration

\* Its delay is the product, capped.
LEMMA PlainDelay ==
    ASSUME NEW p \in Policies, Plain(p), NEW k \in Nat, Factor(p, k) \in Nat, FitsAt(p, k),
           NEW x \in Backoff(p, k)
    PROVE  x = Lesser(p.initial * Factor(p, k), p.cap)
  <1> DEFINE f == Factor(p, k)
  <1>1. MinDuration <= 0 /\ MinDuration \in Int /\ MaxDuration \in Nat
    BY TimingAssumption DEF MinDuration
  <1>2. f \in Nat /\ f <= MaxDuration /\ p.initial * f <= MaxDuration /\ p.initial \in Nat
    BY PolicyTyped DEF FitsAt, Plain
  <1>3. BaseBackoff(p, k) = ExponentialBackoffStrategy(p, k)
    BY DEF BaseBackoff, Plain
  <1>4. Backoff(p, k) = ExponentialBackoffStrategy(p, k)
    BY <1>3 DEF Backoff, JitterBackoffStrategy, Plain
  <1>5. PICK factor \in Converted(f) : x = Lesser(Wrap(p.initial * factor), p.cap)
    BY <1>4 DEF ExponentialBackoffStrategy
  <1> HIDE DEF f
  <1>6. f \in MinDuration..MaxDuration
    BY <1>1, <1>2
  <1>7. factor = f
    BY <1>5, <1>6 DEF Converted
  <1>8. p.initial * f \in Nat
    BY <1>2
  <1>9. Wrap(p.initial * f) = p.initial * f
    BY <1>2, <1>8, WrapFits
  <1> QED BY <1>5, <1>7, <1>9 DEF f

\* The delay of a later attempt, when it fits, is not smaller.
LEMMA PlainGrows ==
    ASSUME NEW p \in Policies, Plain(p), NEW k \in Nat, FitsAt(p, k + 1),
           NEW x \in Backoff(p, k), NEW y \in Backoff(p, k + 1)
    PROVE  x <= y /\ y <= p.cap
  <1> DEFINE f == Factor(p, k)
             g == Factor(p, k + 1)
  <1>1. f \in Nat /\ g \in Nat /\ f <= g
    BY FactorGrows DEF Plain
  <1>2. p.initial \in Nat /\ p.cap \in Int /\ MaxDuration \in Nat
    BY PolicyTyped, TimingAssumption DEF Plain
  <1>3. g <= MaxDuration /\ p.initial * g <= MaxDuration
    BY DEF FitsAt
  <1>4. y = Lesser(p.initial * g, p.cap)
    BY <1>1, PlainDelay
  <1> HIDE DEF f, g
  <1>5. p.initial * f <= p.initial * g /\ p.initial * f \in Nat /\ p.initial * g \in Nat
    BY <1>1, <1>2
  <1>6. f <= MaxDuration /\ p.initial * f <= MaxDuration
    BY <1>1, <1>2, <1>3, <1>5
  <1>7. x = Lesser(p.initial * f, p.cap)
    <2>1. FitsAt(p, k) /\ Factor(p, k) \in Nat
      BY <1>1, <1>6 DEF FitsAt, f
    <2> QED BY <2>1, PlainDelay DEF f
  <1> QED BY <1>2, <1>4, <1>5, <1>7 DEF Lesser

\* A call that waits has a delay of the strategy for its attempt; one that is
\* past its first attempt has that of the attempt before.
BackoffInv ==
    policy.ignoreRetryAfter => \A c \in Calls :
        /\ call[c].at = "wait" => call[c].delay \in Backoff(policy, call[c].attempt)
        /\ call[c].at \notin {"wait", "done"} /\ call[c].attempt > 0 =>
            call[c].delay \in Backoff(policy, call[c].attempt - 1)

\* No call has waited at the start.
LEMMA BackoffInit == Init => BackoffInv
  <1> SUFFICES ASSUME Init PROVE BackoffInv
    OBVIOUS
  <1>1. \A c \in Calls : call[c] = Begin
    BY DEF Init
  <1> QED BY <1>1 DEF BackoffInv, Begin

\* Without Retry-After a delay is the strategy's.
LEMMA OwnDelay ==
    ASSUME NEW p, p.ignoreRetryAfter, NEW k, NEW a, NEW t, NEW d \in delay(p, k, a, t)
    PROVE  d \in Backoff(p, k)
  BY DEF delay

\* A delay is taken when the timer starts and kept into the next attempt.
LEMMA BackoffStep ==
    ASSUME AfterInv, BackoffInv, [Next]_vars
    PROVE  BackoffInv'
  <1>0. call \in [Calls -> CallTypes]
    BY DEF AfterInv
  <1>1. policy' = policy
    BY DEF Next, vars, Add, Select, Answer, Stop, StartTimer, TimerFires, ContextDone, Tick
  <1> SUFFICES ASSUME policy.ignoreRetryAfter, NEW c \in Calls
               PROVE  /\ call'[c].at = "wait" => call'[c].delay \in Backoff(policy, call'[c].attempt)
                      /\ call'[c].at \notin {"wait", "done"} /\ call'[c].attempt > 0 =>
                          call'[c].delay \in Backoff(policy, call'[c].attempt - 1)
    BY <1>1 DEF BackoffInv
  <1>2. /\ call[c].at = "wait" => call[c].delay \in Backoff(policy, call[c].attempt)
        /\ call[c].at \notin {"wait", "done"} /\ call[c].attempt > 0 =>
            call[c].delay \in Backoff(policy, call[c].attempt - 1)
    BY DEF BackoffInv
  <1>3. call[c] \in CallTypes /\ call[c].attempt \in Nat
    BY <1>0 DEF CallTypes
  <1>4. CASE call'[c] = call[c]
    BY <1>2, <1>4
  <1>5. CASE Add(c) \/ Select(c) \/ Answer(c)
    <2> DEFINE Kept == /\ call'[c].delay = call[c].delay /\ call'[c].attempt = call[c].attempt
                       /\ call[c].at \notin {"wait", "done"} /\ call'[c].at \notin {"wait", "done"}
    <2>1. ASSUME Add(c) PROVE Kept
      BY <1>0, <1>3, <2>1 DEF Add, CallTypes
    <2>2. ASSUME Select(c) PROVE Kept
      BY <1>0, <1>3, <2>2 DEF Select, CallTypes
    <2>3. ASSUME Answer(c) PROVE Kept
      <3>1. PICK a \in Answers :
               call' = [call EXCEPT ![c].at = "answered", ![c].answer = a, ![c].arrived = now]
        BY <2>3 DEF Answer
      <3> QED BY <1>0, <1>3, <2>3, <3>1 DEF Answer, CallTypes
    <2>4. Kept
      BY <1>5, <2>1, <2>2, <2>3
    <2> QED BY <1>2, <2>4
  <1>6. CASE Stop(c) \/ ContextDone(c)
    <2>1. call'[c].at = "done"
      BY <1>0, <1>6 DEF Stop, ContextDone, Begin
    <2> QED BY <2>1
  <1>7. CASE StartTimer(c)
    <2>1. PICK d \in delay(policy, call[c].attempt, call[c].answer, now) :
             call' = [call EXCEPT ![c].at = "wait", ![c].delay = d, ![c].wake = now + Greater(d, 0)]
      BY <1>7 DEF StartTimer
    <2>2. call'[c].at = "wait" /\ call'[c].delay = d /\ call'[c].attempt = call[c].attempt
      BY <1>0, <1>3, <2>1 DEF CallTypes
    <2>3. d \in Backoff(policy, call[c].attempt)
      BY OwnDelay
    <2> QED BY <2>2, <2>3
  <1>8. CASE TimerFires(c)
    <2>1. /\ call[c].at = "wait" /\ call'[c].at = "select" /\ call'[c].delay = call[c].delay
          /\ call'[c].attempt = call[c].attempt + 1
      BY <1>0, <1>8 DEF TimerFires, Begin
    <2>2. call'[c].attempt - 1 = call[c].attempt
      BY <1>3, <2>1
    <2> QED BY <1>2, <2>1, <2>2
  <1>9. ASSUME NEW b \in Calls, b # c,
               Add(b) \/ Select(b) \/ Answer(b) \/ Stop(b) \/ StartTimer(b) \/ TimerFires(b) \/ ContextDone(b)
        PROVE  call'[c] = call[c]
    BY <1>0, <1>9 DEF Add, Select, Answer, Stop, StartTimer, TimerFires, ContextDone
  <1>10. CASE Tick \/ UNCHANGED vars
    BY <1>4, <1>10 DEF Tick, vars
  <1> QED BY <1>4, <1>5, <1>6, <1>7, <1>8, <1>9, <1>10 DEF Next

\* While the product is a Duration, exponential backoff never waits less
\* before a later retry than before an earlier one, and never longer than its
\* cap (ExponentialBackoffStrategy), for every policy and number of attempts.
THEOREM BackoffGrowsHolds == Spec => BackoffGrows
  <1>1. AfterInv /\ BackoffInv /\ [Next]_vars =>
          [\A c \in Calls : OwnDelays(c) /\ Fits(c) =>
              call[c].delay <= call'[c].delay /\ call'[c].delay <= policy.cap]_vars
    <2> SUFFICES ASSUME AfterInv, BackoffInv, [Next]_vars, NEW c \in Calls, OwnDelays(c), Fits(c)
                 PROVE  call[c].delay <= call'[c].delay /\ call'[c].delay <= policy.cap
      OBVIOUS
    <2>1. Plain(policy) /\ policy \in Policies
      BY DEF OwnDelays, Plain, AfterInv
    <2>2. call[c].attempt \in Nat /\ call[c].attempt > 0
      BY DEF OwnDelays, AfterInv, CallTypes
    <2>3. PICK k \in Nat : call[c].attempt = k + 1
      <3>1. call[c].attempt - 1 \in Nat /\ call[c].attempt = (call[c].attempt - 1) + 1
        BY <2>2
      <3> QED BY <3>1
    <2>4. call[c].delay \in Backoff(policy, k)
      <3>1. call[c].attempt - 1 = k
        BY <2>3
      <3>2. policy.ignoreRetryAfter /\ call[c].at = "answered"
        BY DEF OwnDelays
      <3> QED BY <2>2, <3>1, <3>2 DEF BackoffInv
    <2>5. call'[c].attempt = call[c].attempt /\ policy' = policy
      <3>1. call \in [Calls -> CallTypes] /\ call[c].at = "answered" /\ call'[c].at = "wait"
        BY DEF AfterInv, OwnDelays
      <3>2. PICK b \in Calls : Add(b) \/ Select(b) \/ Answer(b) \/ Stop(b) \/ StartTimer(b)
                               \/ TimerFires(b) \/ ContextDone(b)
        BY <3>1 DEF Next, Tick, vars
      <3>3. b = c
        BY <3>1, <3>2 DEF Add, Select, Answer, Stop, StartTimer, TimerFires, ContextDone
      <3>4. StartTimer(c)
        BY <3>1, <3>2, <3>3 DEF Add, Select, Answer, Stop, TimerFires, ContextDone, Begin
      <3>5. PICK d : call' = [call EXCEPT ![c].at = "wait", ![c].delay = d, ![c].wake = now + Greater(d, 0)]
        BY <3>4 DEF StartTimer
      <3> QED BY <3>1, <3>4, <3>5 DEF StartTimer, CallTypes
    <2>6. call'[c].delay \in Backoff(policy, k + 1)
      <3>1. BackoffInv'
        BY BackoffStep
      <3>2. call'[c].at = "wait" /\ policy.ignoreRetryAfter
        BY DEF OwnDelays
      <3> QED BY <2>3, <2>5, <3>1, <3>2 DEF BackoffInv
    <2>7. FitsAt(policy, k + 1)
      BY <2>3 DEF Fits, FitsAt
    <2> QED BY <2>1, <2>4, <2>6, <2>7, PlainGrows
  <1>2. Init => AfterInv /\ BackoffInv
    BY AfterInit, BackoffInit
  <1>3. AfterInv /\ BackoffInv /\ [Next]_vars => (AfterInv /\ BackoffInv)'
    BY AfterStep, BackoffStep
  <1> QED BY <1>1, <1>2, <1>3, PTL DEF Spec, BackoffGrows
=============================================================================
