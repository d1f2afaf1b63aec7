------------------------------ MODULE RateLimit ------------------------------
(* The rate limiter: RATE_LIMIT_SCRIPT, which Redis runs as one step, and the *)
(* calls of RedisRateLimitService.  A caller gives a list of rules, each with *)
(* a key and an algorithm; a request passes if every rule lets it, and then   *)
(* takes one unit of each.  Time is Redis's clock, in ticks.  Tokens are      *)
(* counted in parts, so that refilling a tick adds a whole number of them.    *)
EXTENDS Integers, FiniteSets, Sequences

CONSTANTS
  Config,      \* the rules by key: [algorithm, p1, p2], as encode() sends them
  Lists,       \* the lists of keys that callers limit a request with
  TicksPerSec, \* ticks in a second
  Parts,       \* parts of a token
  Horizon      \* the bound: the last instant

\* token-bucket: p1 = maxTokens in parts, p2 = parts refilled per tick;
\* the others: p1 = limit, p2 = window in ticks.
Keys == DOMAIN Config

ASSUME RateLimitAssumption ==
  /\ TicksPerSec \in Nat \ {0} /\ Parts \in Nat \ {0} /\ Horizon \in Nat
  /\ \A k \in Keys:
       /\ Config[k].algorithm \in {"token-bucket", "fixed-window",
                             "sliding-window-log", "sliding-window-counter"}
       /\ Config[k].p1 \in Nat \ {0} /\ Config[k].p2 \in Nat \ {0}
  /\ \A l \in Lists: /\ l \in Seq(Keys) /\ l # <<>>
                     /\ \A i, j \in DOMAIN l: l[i] = l[j] => i = j

VARIABLES
  rules,    \* the list of keys of this behaviour's callers
  now,      \* Redis's TIME
  store,    \* what Redis holds under each key
  admitted  \* history: when a request passed each rule since its last reset

vars == <<rules, now, store, admitted>>

Absent == [expires |-> 0]

Init ==
  /\ rules \in Lists
  /\ now = 0
  /\ store = [k \in Keys |-> Absent]
  /\ admitted = [k \in Keys |-> <<>>]

-----------------------------------------------------------------------------
(* What a rule answers at an instant.                                        *)

MinOf(a, b) == IF a < b THEN a ELSE b
MaxOf(a, b) == IF a > b THEN a ELSE b
CeilDiv(a, b) == -((-a) \div b)
Seconds(ticks) == CeilDiv(ticks, TicksPerSec)

p1(k) == Config[k].p1
p2(k) == Config[k].p2
Is(k, algorithm) == Config[k].algorithm = algorithm

Alive(k, at) == store[k].expires > at

\* token_bucket: the stored tokens and what the time since added.
Tokens(k, at) ==
  IF Alive(k, at)
  THEN MinOf(p1(k), store[k].tokens + MaxOf(0, at - store[k].ts) * p2(k))
  ELSE p1(k)

\* fixed_window
Count(k, at) == IF Alive(k, at) THEN store[k].count ELSE 0

\* sliding_window_log: the entries after the cutoff.  The sorted set is in order
\* of time, so those that are dropped come first.
Recent(k, at) ==
  IF Alive(k, at)
  THEN LET log == store[k].log
           old == {i \in DOMAIN log: log[i] <= at - p2(k)}
       IN  SubSeq(log, Cardinality(old) + 1, Len(log))
  ELSE <<>>

Window(k, at) == at \div p2(k)

\* Mutant: the count of the window before is forgotten.
WindowAlone(k, at) ==
  IF Alive(k, at) /\ store[k].w = Window(k, at)
  THEN [cur |-> store[k].cur, prev |-> 0]
  ELSE [cur |-> 0, prev |-> 0]

\* sliding_window_counter: the counts of this window and of the one before.
Windows(k, at) ==
  IF Alive(k, at) /\ store[k].w = Window(k, at)
  THEN [cur |-> store[k].cur, prev |-> store[k].prev]
  ELSE IF Alive(k, at) /\ store[k].w = Window(k, at) - 1
  THEN [cur |-> 0, prev |-> store[k].cur]
  ELSE [cur |-> 0, prev |-> 0]

\* The estimate, times the window: the window before counts with the share of
\* it that the sliding window still covers.
Estimated(k, at) ==
  Windows(k, at).prev * (p2(k) - (at % p2(k))) + Windows(k, at).cur * p2(k)

allowed(k, at) ==
  CASE Is(k, "token-bucket")           -> Tokens(k, at) >= Parts
    [] Is(k, "fixed-window")           -> Count(k, at) < p1(k)
    [] Is(k, "sliding-window-log")     -> Len(Recent(k, at)) < p1(k)
    [] Is(k, "sliding-window-counter") ->
         Estimated(k, at) + p2(k) <= p1(k) * p2(k)

available(k, at) ==
  CASE Is(k, "token-bucket")           -> Tokens(k, at) \div Parts
    [] Is(k, "fixed-window")           -> MaxOf(0, p1(k) - Count(k, at))
    [] Is(k, "sliding-window-log")     -> MaxOf(0, p1(k) - Len(Recent(k, at)))
    [] Is(k, "sliding-window-counter") ->
         MaxOf(0, (p1(k) * p2(k) - Estimated(k, at)) \div p2(k))

\* Seconds until the estimate has dropped to limit - 1: in this window, or,
\* when this window alone is full, in the next.
CounterRetry(k, at) ==
  LET c     == Windows(k, at)
      left  == (Window(k, at) + 1) * p2(k) - at
      spare == p1(k) - 1 - c.cur
  IN  IF spare >= 0 /\ c.prev > 0
      THEN CeilDiv(left * c.prev - spare * p2(k), c.prev * TicksPerSec)
      ELSE CeilDiv((left + p2(k)) * c.cur - (p1(k) - 1) * p2(k),
                   c.cur * TicksPerSec)

\* The seconds a rejected caller is told to wait.
retry(k, at) ==
  CASE Is(k, "token-bucket") ->
         CeilDiv(Parts - Tokens(k, at), p2(k) * TicksPerSec)
    [] Is(k, "fixed-window") -> MaxOf(1, Seconds(store[k].expires - at))
    [] Is(k, "sliding-window-log") ->
         LET r == Recent(k, at)
         IN  MaxOf(1, Seconds(r[Len(r) - p1(k) + 1] + p2(k) - at))
    [] Is(k, "sliding-window-counter") -> MaxOf(1, CounterRetry(k, at))

-----------------------------------------------------------------------------
(* The script over a list of keys.                                           *)

\* Mutant: the first rejecting rule answers.
FirstRejecting(list, at, i) ==
  /\ ~allowed(list[i], at)
  /\ \A j \in DOMAIN list: ~allowed(list[j], at) => j >= i

\* The first of the rejecting rules with the longest wait.
Worst(list, at, i) ==
  /\ ~allowed(list[i], at)
  /\ \A j \in DOMAIN list:
       ~allowed(list[j], at) =>
         \/ retry(list[j], at) < retry(list[i], at)
         \/ retry(list[j], at) = retry(list[i], at) /\ i <= j

\* Mutant: the last rule answers.
LastRule(list, at, i) == i = Len(list)

\* The first of the rules with the fewest requests left.
Tightest(list, at, i) ==
  \A j \in DOMAIN list:
    \/ available(list[i], at) < available(list[j], at)
    \/ available(list[i], at) = available(list[j], at) /\ i <= j

\* The decision on one request; consumed is 1 if the mode is to consume.
Decision(list, at, consumed) ==
  IF \A i \in DOMAIN list: allowed(list[i], at)
  THEN LET i == CHOOSE j \in DOMAIN list: Tightest(list, at, j)
       IN  [allowed |-> TRUE, list |-> list, index |-> i, retry |-> 0,
            remaining |-> available(list[i], at) - consumed]
  ELSE LET i == CHOOSE j \in DOMAIN list: Worst(list, at, j)
       IN  [allowed |-> FALSE, list |-> list, index |-> i,
            retry |-> retry(list[i], at), remaining |-> available(list[i], at)]

\* Mutant: the log is never pruned.
CommitUnpruned(k) ==
  IF Is(k, "sliding-window-log") /\ Alive(k, now)
  THEN [log |-> Append(store[k].log, now),
        expires |-> now + p2(k) + TicksPerSec]
  ELSE [log |-> <<now>>, expires |-> now + p2(k) + TicksPerSec]

\* What a rule's commit leaves in Redis.
commit(k) ==
  CASE Is(k, "token-bucket") ->
         [tokens |-> Tokens(k, now) - Parts, ts |-> now,
          expires |-> now + TicksPerSec *
                        (CeilDiv(p1(k), p2(k) * TicksPerSec) + 1)]
    [] Is(k, "fixed-window") ->
         [count |-> Count(k, now) + 1,
          expires |-> IF Count(k, now) = 0 THEN now + p2(k) ELSE store[k].expires]
    [] Is(k, "sliding-window-log") ->
         [log |-> Append(Recent(k, now), now),
          expires |-> now + p2(k) + TicksPerSec]
    [] Is(k, "sliding-window-counter") ->
         [w |-> Window(k, now), cur |-> Windows(k, now).cur + 1,
          prev |-> Windows(k, now).prev, expires |-> now + 2 * p2(k) + TicksPerSec]

-----------------------------------------------------------------------------
(* Calls.                                                                    *)

KeysOf(list) == {list[i]: i \in DOMAIN list}

\* What callers ask for: the whole list, or consume() with its first key.
Requests == {rules, <<rules[1]>>}

\* attempt() and consume().  A request that a rule rejects changes nothing.
attempt(list) ==
  /\ Decision(list, now, 1).allowed
  /\ store' = [k \in Keys |-> IF k \in KeysOf(list) THEN commit(k) ELSE store[k]]
  /\ admitted' = [k \in Keys |-> IF k \in KeysOf(list)
                                 THEN Append(admitted[k], now) ELSE admitted[k]]
  /\ UNCHANGED <<rules, now>>

reset(k) ==
  /\ Alive(k, now)
  /\ store' = [store EXCEPT ![k] = Absent]
  /\ admitted' = [admitted EXCEPT ![k] = <<>>]
  /\ UNCHANGED <<rules, now>>

\* Time passes; Redis removes what has expired.
Tick ==
  /\ now < Horizon
  /\ now' = now + 1
  /\ store' = [k \in Keys |-> IF Alive(k, now + 1) THEN store[k] ELSE Absent]
  /\ UNCHANGED <<rules, admitted>>

Next ==
  \/ \E list \in Requests: attempt(list)
  \/ \E k \in KeysOf(rules): reset(k)
  \/ Tick

Spec == Init /\ [][Next]_vars

-----------------------------------------------------------------------------
(* Properties.                                                               *)

Stored(k) ==
  CASE Is(k, "token-bucket") ->
         [tokens: 0..p1(k), ts: 0..now, expires: Nat]
    [] Is(k, "fixed-window") -> [count: 1..p1(k), expires: Nat]
    [] Is(k, "sliding-window-log") ->
         [log: UNION {[1..n -> 0..now]: n \in 1..p1(k)}, expires: Nat]
    [] Is(k, "sliding-window-counter") ->
         [w: 0..now, cur: 1..p1(k), prev: 0..p1(k), expires: Nat]

\* The state is well formed.  No rule holds more than its limit: a log keeps
\* at most limit entries, whatever passed before.
TypeOK ==
  /\ rules \in Lists
  /\ now \in 0..Horizon
  /\ \A k \in Keys: store[k] = Absent \/ store[k] \in Stored(k)
  /\ \A k \in Keys: admitted[k] \in Seq(0..now)

\* The requests that passed a rule in the instants from a to b.
Passed(k, a, b) ==
  Cardinality({i \in DOMAIN admitted[k]: admitted[k][i] \in a..b})

\* A bucket passes its capacity and what was refilled meanwhile.
BucketKept(k) ==
  \A a \in 0..now: \A b \in a..now:
    Passed(k, a, b) * Parts <= p1(k) + (b - a) * p2(k)

\* Windows that start with the first request after the window before: the
\* requests that start one, and what each of them holds.
Starts(k, first) ==
  \A i \in DOMAIN admitted[k]:
    i \in first <=> \A j \in first: j < i => admitted[k][j] + p2(k) <= admitted[k][i]

WindowOf(k, j) ==
  {i \in DOMAIN admitted[k]: i >= j /\ admitted[k][i] < admitted[k][j] + p2(k)}

WindowKept(k) ==
  \E first \in SUBSET DOMAIN admitted[k]:
    Starts(k, first) /\ \A j \in first: Cardinality(WindowOf(k, j)) <= p1(k)

\* Wherever the window is laid, limit requests at most.
LogKept(k) == \A a \in 0..now: Passed(k, a, a + p2(k) - 1) <= p1(k)

\* At the moment a request passes, the requests of its aligned window, and the
\* share of those in the window before, are within the limit.
CounterKept(k) ==
  \A i \in DOMAIN admitted[k]:
    LET start == p2(k) * (admitted[k][i] \div p2(k))
        prev  == Passed(k, start - p2(k), start - 1)
        cur   == Cardinality({j \in 1..i: admitted[k][j] >= start})
    IN  prev * (start + p2(k) - admitted[k][i]) + cur * p2(k) <= p1(k) * p2(k)

\* Whatever expired, was pruned, carried from window to window or shared a
\* request with other rules: no rule lets more pass than it says.
NeverOverLimit ==
  \A k \in Keys:
    CASE Is(k, "token-bucket")           -> BucketKept(k)
      [] Is(k, "fixed-window")           -> WindowKept(k)
      [] Is(k, "sliding-window-log")     -> LogKept(k)
      [] Is(k, "sliding-window-counter") -> CounterKept(k)

\* A rejected caller that waits retryAfter seconds is let in, if nobody else
\* comes, by all of its rules; a second earlier it is not.
RetryAfterExact ==
  \A list \in Requests:
    LET d == Decision(list, now, 0)
        Later(s) == Decision(list, now + s * TicksPerSec, 0).allowed
    IN  ~d.allowed => Later(d.retry) /\ (d.retry > 1 => ~Later(d.retry - 1))

\* The reply to a request that passed says how many more would pass right now,
\* whatever the mix of rules.
RemainingExact ==
  \A list \in Requests:
    attempt(list) =>
      LET left == Decision(list, now, 1).remaining
      IN  /\ \A k \in KeysOf(list): available(k, now)' >= left
          /\ \E k \in KeysOf(list): available(k, now)' = left
          /\ (left > 0) <=> (\A k \in KeysOf(list): allowed(k, now))'

\* What the limiter answers is exact: the wait of a rejected request and the
\* count left after one that passed.
AnswersExact == [][RetryAfterExact /\ RemainingExact]_vars
=============================================================================
