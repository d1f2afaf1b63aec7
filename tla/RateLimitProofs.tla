-------------------------- MODULE RateLimitProofs --------------------------
(* Proofs about RateLimit, for any rules, lists of rules and horizon.       *)
EXTENDS RateLimit, Sums, SequenceTheorems

Held(k) == store[k] # Absent

(* A key that Redis holds has not expired. *)
Types ==
  /\ rules \in Lists /\ now \in Nat /\ now <= Horizon
  /\ store = [k \in Keys |-> store[k]] /\ admitted = [k \in Keys |-> admitted[k]]
  /\ \A k \in Keys : store[k] = Absent \/ (store[k] \in Stored(k) /\ store[k].expires > now)
  /\ \A k \in Keys : admitted[k] \in Seq(0 .. now)

(* A bucket lives until it is full, and holds no more than what is left of  *)
(* its capacity and of the refill since any instant.                        *)
BucketLives(k) ==
  Held(k) => store[k].tokens + (store[k].expires - store[k].ts) * p2(k) >= p1(k)
BucketCovers(k) ==
  \A a \in 0 .. now : Passed(k, a, now) * Parts + Tokens(k, now) <= p1(k) + (now - a) * p2(k)
BucketInv(k) == BucketLives(k) /\ BucketCovers(k) /\ BucketKept(k)

(* The key of a fixed window lives as long as its last window; it counts    *)
(* what passed since that began.                                            *)
InLast(k, first) ==
  IF Held(k)
  THEN \E j \in first : /\ store[k].expires = admitted[k][j] + p2(k)
                        /\ store[k].count = Len(admitted[k]) - j + 1
                        /\ \A i \in first : i <= j
  ELSE \A j \in first : admitted[k][j] + p2(k) <= now
WindowInv(k) ==
  \E first \in SUBSET DOMAIN admitted[k] :
    /\ Starts(k, first) /\ InLast(k, first)
    /\ \A j \in first : Cardinality(WindowOf(k, j)) <= p1(k)

Ordered(s) == \A i, j \in DOMAIN s : i <= j => s[i] <= s[j]

(* The log ends the list of all that passed; what it has not is too old.    *)
LogEnds(k) ==
  LET old == Len(admitted[k]) - IF Held(k) THEN Len(store[k].log) ELSE 0 IN
  /\ old \in Nat
  /\ \A i \in 1 .. old : admitted[k][i] <= now - p2(k)
  /\ Held(k) => /\ \A i \in DOMAIN store[k].log : store[k].log[i] = admitted[k][old + i]
                /\ \A i \in DOMAIN store[k].log : store[k].log[i] + p2(k) <= store[k].expires
LogInv(k) == LogEnds(k) /\ LogKept(k)

(* The counters of the window written last and of the one before.           *)
CounterCounts(k) ==
  IF Held(k)
  THEN LET start == p2(k) * store[k].w IN
       /\ store[k].w <= Window(k, now)
       /\ \A i \in DOMAIN admitted[k] : admitted[k][i] < start + p2(k)
       /\ store[k].cur = Passed(k, start, start + p2(k) - 1)
       /\ store[k].prev = Passed(k, start - p2(k), start - 1)
       /\ store[k].expires >= start + 2 * p2(k)
  ELSE \A i \in DOMAIN admitted[k] : admitted[k][i] < p2(k) * Window(k, now) - p2(k)
CounterInv(k) == CounterCounts(k) /\ CounterKept(k)

RuleInv(k) ==
  /\ Ordered(admitted[k])
  /\ Is(k, "token-bucket") => BucketInv(k)
  /\ Is(k, "fixed-window") => WindowInv(k)
  /\ Is(k, "sliding-window-log") => LogInv(k)
  /\ Is(k, "sliding-window-counter") => CounterInv(k)

Inv == Types /\ \A k \in Keys : RuleInv(k)

----------------------------------------------------------------------------
(* What a step does to one key.                                             *)

Passes(k) ==
  /\ allowed(k, now) /\ now' = now
  /\ store'[k] = commit(k) /\ admitted'[k] = Append(admitted[k], now)
Resets(k) == now' = now /\ store'[k] = Absent /\ admitted'[k] = <<>>
Ages(k) ==
  /\ now' = now + 1 /\ admitted'[k] = admitted[k]
  /\ store'[k] = IF store[k].expires > now + 1 THEN store[k] ELSE Absent
Rests(k) == now' = now /\ store'[k] = store[k] /\ admitted'[k] = admitted[k]

LEMMA Rule ==
  ASSUME NEW k \in Keys
  PROVE  /\ p1(k) \in Nat /\ p1(k) >= 1 /\ p2(k) \in Nat /\ p2(k) >= 1
         /\ TicksPerSec \in Nat /\ TicksPerSec >= 1 /\ Parts \in Nat /\ Parts >= 1
         /\ \/ Is(k, "token-bucket") \/ Is(k, "fixed-window")
            \/ Is(k, "sliding-window-log") \/ Is(k, "sliding-window-counter")
  BY RateLimitAssumption DEF RateLimitAssumption, p1, p2, Is

LEMMA Kinds ==
  ASSUME Types, [Next]_vars, NEW k \in Keys
  PROVE  Passes(k) \/ Resets(k) \/ Ages(k) \/ Rests(k)
<1>0. /\ store = [j \in Keys |-> store[j]] /\ admitted = [j \in Keys |-> admitted[j]]
      /\ rules \in Lists
  BY DEF Types
<1>1. ASSUME NEW list \in Requests, attempt(list)
      PROVE  Passes(k) \/ Rests(k)
  <2>1. \A i \in DOMAIN list : allowed(list[i], now)
    BY <1>1 DEF attempt, Decision
  <2>2. CASE k \in KeysOf(list)
    BY <1>1, <2>1, <2>2 DEF attempt, KeysOf, Passes
  <2>3. CASE k \notin KeysOf(list)
    BY <1>1, <2>3 DEF attempt, Rests
  <2> QED
    BY <2>2, <2>3
<1>2. ASSUME NEW j \in KeysOf(rules), reset(j)
      PROVE  Resets(k) \/ Rests(k)
  BY <1>0, <1>2 DEF reset, Resets, Rests
<1>3. ASSUME Tick PROVE Ages(k)
  BY <1>3 DEF Tick, Ages, Alive
<1>4. UNCHANGED vars => Rests(k)
  BY DEF vars, Rests
<1> QED
  BY <1>1, <1>2, <1>3, <1>4 DEF Next

(* Keys expire when their time has come, not earlier. *)
LEMMA HeldIsAlive ==
  ASSUME Types, NEW k \in Keys
  PROVE  Held(k) <=> Alive(k, now)
  BY DEF Types, Held, Alive, Absent

----------------------------------------------------------------------------
(* Arithmetic.                                                              *)

LEMMA Division ==
  ASSUME NEW a \in Int, NEW b \in Nat, b >= 1
  PROVE  /\ a \div b \in Int /\ b * (a \div b) <= a /\ a < b * (a \div b) + b
         /\ a % b = a - b * (a \div b)
  OBVIOUS

LEMMA Ceiling ==
  ASSUME NEW a \in Nat, NEW b \in Nat, b >= 1
  PROVE  CeilDiv(a, b) \in Nat /\ CeilDiv(a, b) * b >= a
<1>1. (-a) \div b \in Int /\ b * ((-a) \div b) <= -a
  BY Division
<1> DEFINE q == (-a) \div b
<1>2. q <= 0
  BY <1>1
<1>3. (-q) * b >= a
  BY <1>1
<1> QED
  BY <1>1, <1>2, <1>3 DEF CeilDiv

LEMMA Cancel ==
  ASSUME NEW a \in Int, NEW b \in Int, NEW c \in Nat, c >= 1, a * c <= b * c
  PROVE  a <= b
  OBVIOUS

----------------------------------------------------------------------------
(* Counting what passed.                                                    *)

Within(s, a, b) == {i \in DOMAIN s : s[i] \in a .. b}

(* Indices are counted as numbers are. *)
LEMMA Indices ==
  ASSUME NEW a \in Int, NEW b \in Int, NEW S \in SUBSET (a .. b)
  PROVE  /\ IsFiniteSet(S) /\ Cardinality(S) \in Nat
         /\ a <= b + 1 => Cardinality(S) <= b - a + 1
<1>1. IsFiniteSet(a .. b) /\ Cardinality(a .. b) = IF a > b THEN 0 ELSE b - a + 1
  BY FS_Interval, Zenon
<1>2. IsFiniteSet(S) /\ Cardinality(S) <= Cardinality(a .. b)
  BY <1>1, FS_Subset, Zenon
<1>3. Cardinality(S) \in Nat
  BY <1>2, FS_CardinalityType, Zenon
<1> QED
  BY <1>1, <1>2, <1>3

LEMMA AdmittedSeq ==
  ASSUME Types, NEW k \in Keys
  PROVE  /\ admitted[k] \in Seq(Nat) /\ Len(admitted[k]) \in Nat /\ now \in Nat
         /\ DOMAIN admitted[k] = 1 .. Len(admitted[k])
         /\ \A i \in DOMAIN admitted[k] : admitted[k][i] \in Nat /\ admitted[k][i] <= now
<1>1. admitted[k] \in Seq(0 .. now) /\ now \in Nat
  BY DEF Types
<1>2. admitted[k] \in Seq(Nat) /\ \A i \in DOMAIN admitted[k] : admitted[k][i] \in 0 .. now
  BY <1>1
<1> QED
  BY <1>1, <1>2

LEMMA WithinAppend ==
  ASSUME NEW s \in Seq(Nat), NEW x \in Nat, NEW a \in Int, NEW b \in Int
  PROVE  /\ Cardinality(Within(s, a, b)) \in Nat
         /\ Cardinality(Within(Append(s, x), a, b)) =
              Cardinality(Within(s, a, b)) + IF x \in a .. b THEN 1 ELSE 0
<1> DEFINE W == Within(s, a, b)
<1>1. IsFiniteSet(W) /\ Cardinality(W) \in Nat
  <2>1. W \in SUBSET (1 .. Len(s)) /\ Len(s) \in Int /\ 1 \in Int
    BY DEF Within
  <2> QED
    BY <2>1, Indices, Zenon
<1>2. Len(s) + 1 \notin W
  BY DEF Within
<1>3. Within(Append(s, x), a, b) = IF x \in a .. b THEN W \cup {Len(s) + 1} ELSE W
  BY DEF Within
<1> HIDE DEF W
<1>4. Cardinality(W \cup {Len(s) + 1}) = Cardinality(W) + 1
  BY <1>1, <1>2, FS_AddElement, Zenon
<1>5. W = Within(s, a, b)
  BY DEF W
<1> QED
  BY <1>1, <1>3, <1>4, <1>5

LEMMA PassedNow ==
  ASSUME Types, NEW k \in Keys, NEW a \in Int, NEW b \in Int
  PROVE  /\ Passed(k, a, b) \in Nat
         /\ Passes(k) => Passed(k, a, b)' = Passed(k, a, b) + IF now \in a .. b THEN 1 ELSE 0
         /\ a > now => Passed(k, a, b) = 0
         /\ b >= now => Passed(k, a, b) = Passed(k, a, now)
<1>1. admitted[k] \in Seq(Nat) /\ now \in Nat /\ \A i \in DOMAIN admitted[k] : admitted[k][i] \in 0 .. now
  BY DEF Types
<1>2. Passed(k, a, b) = Cardinality(Within(admitted[k], a, b))
  BY DEF Passed, Within
<1>3. Passes(k) => Passed(k, a, b)' = Cardinality(Within(Append(admitted[k], now), a, b))
  BY DEF Passed, Within, Passes
<1>4. Passed(k, a, now) = Cardinality(Within(admitted[k], a, now))
  BY DEF Passed, Within
<1>5. a > now => Within(admitted[k], a, b) = {}
  BY <1>1 DEF Within
<1>6. b >= now => Within(admitted[k], a, b) = Within(admitted[k], a, now)
  BY <1>1 DEF Within
<1>7. /\ Cardinality(Within(admitted[k], a, b)) \in Nat
      /\ Cardinality(Within(Append(admitted[k], now), a, b)) =
           Cardinality(Within(admitted[k], a, b)) + IF now \in a .. b THEN 1 ELSE 0
  BY <1>1, WithinAppend
<1>8. a > now => Passed(k, a, b) = 0
  BY <1>2, <1>5, FS_EmptySet
<1>9. b >= now => Passed(k, a, b) = Passed(k, a, now)
  BY <1>2, <1>4, <1>6
<1> QED
  BY <1>2, <1>3, <1>7, <1>8, <1>9

LEMMA PassedToNow ==
  ASSUME Types, NEW k \in Keys, NEW a \in Int
  PROVE  /\ Passes(k) => Passed(k, a, now)' = Passed(k, a, now) + IF a <= now THEN 1 ELSE 0
         /\ Ages(k) => Passed(k, a, now)' = Passed(k, a, now)
         /\ Resets(k) => Passed(k, a, now)' = 0
         /\ Rests(k) => Passed(k, a, now)' = Passed(k, a, now)
<1>0. /\ now \in Nat /\ admitted[k] \in Seq(Nat)
      /\ \A i \in DOMAIN admitted[k] : admitted[k][i] \in 0 .. now
  BY DEF Types
<1>1. Passed(k, a, now) = Cardinality(Within(admitted[k], a, now))
  BY DEF Passed, Within
<1>2. Passed(k, a, now)' = Cardinality(Within(admitted'[k], a, now'))
  BY DEF Passed, Within
<1>3. Ages(k) => Within(admitted'[k], a, now') = Within(admitted[k], a, now)
  BY <1>0 DEF Ages, Within
<1>4. Resets(k) => Within(admitted'[k], a, now') = {}
  BY DEF Resets, Within
<1>5. Passes(k) => Cardinality(Within(admitted'[k], a, now')) =
        Cardinality(Within(admitted[k], a, now)) + IF now \in a .. now THEN 1 ELSE 0
  BY <1>0, WithinAppend DEF Passes
<1>6. now \in a .. now <=> a <= now
  BY <1>0
<1>7. Resets(k) => Passed(k, a, now)' = 0
  BY <1>2, <1>4, FS_EmptySet
<1> QED
  BY <1>1, <1>2, <1>3, <1>5, <1>6, <1>7 DEF Rests

----------------------------------------------------------------------------
(* The token bucket.                                                        *)

LEMMA Bucket ==
  ASSUME Types, NEW k \in Keys, Is(k, "token-bucket")
  PROVE  /\ now \in Nat
         /\ Held(k) => /\ store[k].tokens \in 0 .. p1(k) /\ store[k].ts \in 0 .. now
                       /\ store[k].expires \in Nat /\ store[k].expires > now
         /\ Held(k) => Tokens(k, now) = MinOf(p1(k), store[k].tokens + (now - store[k].ts) * p2(k))
         /\ ~Held(k) => Tokens(k, now) = p1(k)
         /\ Tokens(k, now) \in 0 .. p1(k)
<1>1. now \in Nat /\ (Held(k) => store[k] \in Stored(k) /\ store[k].expires > now)
  BY DEF Types, Held
<1>2. Held(k) => /\ store[k].tokens \in 0 .. p1(k) /\ store[k].ts \in 0 .. now
                 /\ store[k].expires \in Nat
  BY <1>1 DEF Stored, Is
<1>3. Held(k) => Tokens(k, now) = MinOf(p1(k), store[k].tokens + (now - store[k].ts) * p2(k))
  BY <1>1, <1>2, HeldIsAlive, Rule DEF Tokens, MaxOf
<1>4. ~Held(k) => Tokens(k, now) = p1(k)
  BY HeldIsAlive DEF Tokens
<1>5. Held(k) => (now - store[k].ts) * p2(k) \in Nat
  BY <1>1, <1>2, Rule
<1> QED
  BY <1>1, <1>2, <1>3, <1>4, <1>5, Rule DEF MinOf

LEMMA BucketCommit ==
  ASSUME Types, NEW k \in Keys, Is(k, "token-bucket"), allowed(k, now)
  PROVE  /\ commit(k) \in [tokens : 0 .. p1(k), ts : 0 .. now, expires : Nat]
         /\ commit(k).tokens = Tokens(k, now) - Parts
         /\ commit(k).ts = now /\ commit(k).expires > now
         /\ commit(k).tokens + (commit(k).expires - commit(k).ts) * p2(k) >= p1(k)
<1> DEFINE whole == CeilDiv(p1(k), p2(k) * TicksPerSec)
           life  == TicksPerSec * (whole + 1)
<1>1. commit(k) = [tokens |-> Tokens(k, now) - Parts, ts |-> now, expires |-> now + life]
  BY DEF commit, Is
<1>2. Tokens(k, now) \in Parts .. p1(k) /\ Tokens(k, now) - Parts \in 0 .. p1(k) /\ now \in Nat
  BY Bucket, Rule DEF allowed, Is
<1>3. p2(k) * TicksPerSec \in Nat /\ p2(k) * TicksPerSec >= 1
  BY Rule
<1>4. whole \in Nat /\ whole * (p2(k) * TicksPerSec) >= p1(k)
  BY <1>3, Ceiling, Rule
<1>5. life \in Nat /\ life >= 1
  BY <1>4, Rule
<1>6. life * p2(k) = whole * (p2(k) * TicksPerSec) + p2(k) * TicksPerSec
  BY <1>4, Rule
<1> HIDE DEF life, whole
<1>7. life * p2(k) >= p1(k) /\ (now + life) - now = life
  BY <1>2, <1>3, <1>4, <1>5, <1>6, Rule
<1> QED
  BY <1>1, <1>2, <1>5, <1>7, Rule

(* Tokens are taken by requests and grow by no more than the refill.        *)
LEMMA BucketTokens ==
  ASSUME Types, NEW k \in Keys, Is(k, "token-bucket"), BucketLives(k)
  PROVE  /\ Passes(k) => Tokens(k, now)' = Tokens(k, now) - Parts
         /\ Resets(k) => Tokens(k, now)' = p1(k)
         /\ Ages(k) => /\ Tokens(k, now)' \in Nat /\ Tokens(k, now)' <= p1(k)
                       /\ Tokens(k, now)' <= Tokens(k, now) + p2(k)
         /\ Rests(k) => Tokens(k, now)' = Tokens(k, now)
<1>0. /\ now \in Nat /\ Tokens(k, now) \in 0 .. p1(k)
      /\ p1(k) \in Nat /\ p2(k) \in Nat /\ Parts \in Nat
  BY Bucket, Rule
<1>1. ASSUME Passes(k) PROVE Tokens(k, now)' = Tokens(k, now) - Parts
  <2>1. /\ store'[k].tokens = Tokens(k, now) - Parts /\ store'[k].tokens <= p1(k)
        /\ store'[k].ts = now /\ store'[k].expires > now
    BY <1>1, BucketCommit DEF Passes
  <2>2. Tokens(k, now)' = MinOf(p1(k), store'[k].tokens + MaxOf(0, now - store'[k].ts) * p2(k))
    BY <1>1, <2>1 DEF Tokens, Alive, Passes, p1, p2
  <2>3. MaxOf(0, now - store'[k].ts) * p2(k) = 0
    BY <1>0, <2>1 DEF MaxOf
  <2> QED
    BY <1>0, <2>1, <2>2, <2>3 DEF MinOf
<1>2. ASSUME Resets(k) PROVE Tokens(k, now)' = p1(k)
  BY <1>0, <1>2 DEF Resets, Tokens, Alive, Absent, p1
<1>3. ASSUME Ages(k)
      PROVE  /\ Tokens(k, now)' \in Nat /\ Tokens(k, now)' <= p1(k)
             /\ Tokens(k, now)' <= Tokens(k, now) + p2(k)
  <2>1. CASE store[k].expires > now + 1
    <3>1. /\ Held(k) /\ store[k].tokens \in Nat /\ store[k].ts \in 0 .. now
          /\ Tokens(k, now) = MinOf(p1(k), store[k].tokens + (now - store[k].ts) * p2(k))
      BY <1>0, <2>1, Bucket DEF Held, Absent
    <3>2. Tokens(k, now)' = MinOf(p1(k), store[k].tokens + ((now - store[k].ts) + 1) * p2(k))
      <4>1. store'[k] = store[k] /\ now' = now + 1 /\ store[k].expires > now + 1
        BY <1>3, <2>1 DEF Ages
      <4>2. Alive(k, now)'
        BY <4>1 DEF Alive
      <4>3. Tokens(k, now)' = MinOf(p1(k), store'[k].tokens + MaxOf(0, now' - store'[k].ts) * p2(k))
        BY <4>2 DEF Tokens, p1, p2
      <4>4. MaxOf(0, now' - store'[k].ts) = (now - store[k].ts) + 1 /\ store'[k].tokens = store[k].tokens
        <5>1. store[k].ts \in Nat /\ store[k].ts <= now
          BY <1>0, <3>1
        <5>2. now' - store'[k].ts = (now - store[k].ts) + 1 /\ (now - store[k].ts) + 1 >= 1
          BY <1>0, <4>1, <5>1
        <5> QED
          BY <1>0, <4>1, <5>1, <5>2 DEF MaxOf
      <4> QED
        BY <4>3, <4>4, Zenon
    <3>4. ((now - store[k].ts) + 1) * p2(k) = (now - store[k].ts) * p2(k) + p2(k)
      BY <1>0, <3>1
    <3>5. (now - store[k].ts) * p2(k) \in Nat
      BY <1>0, <3>1
    <3> QED
      BY <1>0, <3>1, <3>2, <3>4, <3>5 DEF MinOf
  <2>2. CASE ~(store[k].expires > now + 1)
    <3>1. Tokens(k, now)' = p1(k)
      BY <1>0, <1>3, <2>2 DEF Ages, Tokens, Alive, Absent, p1
    <3>2. ASSUME Held(k) PROVE p1(k) <= Tokens(k, now) + p2(k)
      <4>1. /\ store[k].tokens \in Nat /\ store[k].ts \in 0 .. now /\ store[k].expires \in Nat
            /\ store[k].expires <= now + 1 /\ now < store[k].expires
            /\ Tokens(k, now) = MinOf(p1(k), store[k].tokens + (now - store[k].ts) * p2(k))
            /\ store[k].tokens + (store[k].expires - store[k].ts) * p2(k) >= p1(k)
        BY <1>0, <2>2, <3>2, Bucket DEF BucketLives
      <4>2. store[k].expires - store[k].ts = (now - store[k].ts) + 1
        <5>1. store[k].expires \in Nat /\ store[k].ts \in Nat /\ store[k].expires > now
          BY <1>0, <3>2, Bucket
        <5>2. store[k].expires = now + 1
          BY <1>0, <2>2, <5>1
        <5> QED
          BY <1>0, <5>1, <5>2
      <4>3. ((now - store[k].ts) + 1) * p2(k) = (now - store[k].ts) * p2(k) + p2(k)
        BY <1>0, <4>1
      <4>4. (now - store[k].ts) * p2(k) \in Nat
        BY <1>0, <4>1
      <4> QED
        BY <1>0, <4>1, <4>2, <4>3, <4>4 DEF MinOf
    <3> QED
      BY <1>0, <3>1, <3>2, Bucket
  <2> QED
    BY <2>1, <2>2
<1>4. ASSUME Rests(k) PROVE Tokens(k, now)' = Tokens(k, now)
  BY <1>4 DEF Rests, Tokens, Alive, p1, p2
<1> QED
  BY <1>1, <1>2, <1>3, <1>4

LEMMA BucketStep ==
  ASSUME Types, NEW k \in Keys, Is(k, "token-bucket"), BucketInv(k),
         Passes(k) \/ Resets(k) \/ Ages(k) \/ Rests(k)
  PROVE  BucketInv(k)'
<1>0. /\ now \in Nat /\ Tokens(k, now) \in 0 .. p1(k) /\ BucketLives(k)
      /\ p1(k) \in Nat /\ p2(k) \in Nat /\ Parts \in Nat /\ p1(k)' = p1(k) /\ p2(k)' = p2(k)
  BY Bucket, Rule DEF BucketInv, p1, p2
<1>1. CASE Passes(k)
  <2>1. BucketLives(k)'
    BY <1>0, <1>1, BucketCommit DEF BucketLives, Passes
  <2>2. now' = now /\ Tokens(k, now)' = Tokens(k, now) - Parts /\ Tokens(k, now) >= Parts
    BY <1>0, <1>1, BucketTokens DEF Passes, allowed, Is
  <2>3. ASSUME NEW a \in 0 .. now
        PROVE  Passed(k, a, now)' * Parts + Tokens(k, now)' <= p1(k) + (now - a) * p2(k)
    <3>1. Passed(k, a, now) \in Nat /\ Passed(k, a, now)' = Passed(k, a, now) + 1
      BY <1>0, <1>1, PassedNow, PassedToNow
    <3>2. Passed(k, a, now) * Parts + Tokens(k, now) <= p1(k) + (now - a) * p2(k)
      BY DEF BucketInv, BucketCovers
    <3>3. (Passed(k, a, now) + 1) * Parts = Passed(k, a, now) * Parts + Parts
      BY <1>0, <3>1
    <3> QED
      BY <1>0, <2>2, <3>1, <3>2, <3>3
  <2>4. BucketCovers(k)'
    BY <1>0, <2>2, <2>3 DEF BucketCovers
  <2>5. ASSUME NEW a \in 0 .. now, NEW b \in a .. now
        PROVE  Passed(k, a, b)' * Parts <= p1(k) + (b - a) * p2(k)
    <3>1. CASE b = now
      <4>1. Passed(k, a, b)' = Passed(k, a, now)' /\ Passed(k, a, now)' \in Nat
        <5>1. Passed(k, a, b)' = Passed(k, a, now)'
          BY <2>2, <3>1 DEF Passed
        <5> QED
          BY <1>0, <1>1, <5>1, PassedNow, PassedToNow
      <4> QED
        BY <1>0, <2>2, <2>3, <3>1, <4>1
    <3>2. CASE b # now
      <4>1. Passed(k, a, b)' = Passed(k, a, b) /\ a \in Int /\ b \in Int
        BY <1>0, <1>1, <3>2, PassedNow
      <4> QED
        BY <4>1 DEF BucketInv, BucketKept
    <3> QED
      BY <3>1, <3>2
  <2>6. BucketKept(k)'
    BY <1>0, <2>2, <2>5 DEF BucketKept
  <2> QED
    BY <2>1, <2>4, <2>6 DEF BucketInv
<1>2. CASE Resets(k)
  <2>1. BucketLives(k)'
    BY <1>2 DEF BucketLives, Resets, Held
  <2>2. now' = now /\ Tokens(k, now)' = p1(k) /\ admitted'[k] = <<>>
    BY <1>0, <1>2, BucketTokens DEF Resets
  <2>3. ASSUME NEW a \in Int, NEW b \in Int PROVE Passed(k, a, b)' = 0
    BY <2>2, FS_EmptySet DEF Passed
  <2>4. \A a \in 0 .. now, b \in 0 .. now : a <= b => (b - a) * p2(k) \in Nat
    BY <1>0
  <2>5. BucketCovers(k)'
    <3>1. ASSUME NEW a \in 0 .. now
          PROVE  Passed(k, a, now)' * Parts + Tokens(k, now)' <= p1(k) + (now - a) * p2(k)
      <4>1. Passed(k, a, now)' = 0 /\ (now - a) * p2(k) \in Nat
        BY <1>0, <1>2, <2>4, PassedToNow
      <4> QED
        BY <1>0, <2>2, <4>1
    <3> QED
      BY <1>0, <2>2, <3>1 DEF BucketCovers
  <2>6. BucketKept(k)'
    BY <1>0, <2>2, <2>3, <2>4 DEF BucketKept
  <2> QED
    BY <2>1, <2>5, <2>6 DEF BucketInv
<1>3. CASE Ages(k)
  <2>1. BucketLives(k)'
    BY <1>0, <1>3 DEF BucketLives, Ages, Held
  <2>2. /\ now' = now + 1 /\ Tokens(k, now)' \in Nat /\ Tokens(k, now)' <= p1(k)
        /\ Tokens(k, now)' <= Tokens(k, now) + p2(k)
    BY <1>0, <1>3, BucketTokens DEF Ages
  <2>3. ASSUME NEW a \in 0 .. now + 1
        PROVE  Passed(k, a, now)' * Parts + Tokens(k, now)' <= p1(k) + (now + 1 - a) * p2(k)
    <3>1. Passed(k, a, now)' = Passed(k, a, now) /\ Passed(k, a, now) \in Nat
      BY <1>0, <1>3, PassedNow, PassedToNow
    <3>2. CASE a <= now
      <4>1. Passed(k, a, now) * Parts + Tokens(k, now) <= p1(k) + (now - a) * p2(k)
        BY <3>2 DEF BucketInv, BucketCovers
      <4>2. (now + 1 - a) * p2(k) = (now - a) * p2(k) + p2(k)
        BY <1>0
      <4> QED
        BY <1>0, <2>2, <3>1, <4>1, <4>2
    <3>3. CASE a = now + 1
      <4>1. Passed(k, a, now) = 0
        BY <1>0, <3>3, PassedNow
      <4> QED
        BY <1>0, <2>2, <3>1, <3>3, <4>1
    <3> QED
      BY <1>0, <3>2, <3>3
  <2>4. BucketCovers(k)'
    BY <1>0, <2>2, <2>3 DEF BucketCovers
  <2>5. ASSUME NEW a \in 0 .. now + 1, NEW b \in a .. now + 1
        PROVE  Passed(k, a, b)' * Parts <= p1(k) + (b - a) * p2(k)
    <3>1. CASE b = now + 1
      <4>1. Passed(k, a, b)' = Passed(k, a, now)' /\ Passed(k, a, now)' \in Nat
        <5>1. Passed(k, a, b)' = Passed(k, a, now)'
          BY <2>2, <3>1 DEF Passed
        <5> QED
          BY <1>0, <1>3, <5>1, PassedNow, PassedToNow
      <4> QED
        BY <1>0, <2>2, <2>3, <3>1, <4>1
    <3>2. CASE b # now + 1
      <4>1. Passed(k, a, b)' = Passed(k, a, b) /\ a \in 0 .. now /\ b \in a .. now
        BY <1>0, <1>3, <3>2 DEF Ages, Passed
      <4> QED
        BY <4>1 DEF BucketInv, BucketKept
    <3> QED
      BY <3>1, <3>2
  <2>6. BucketKept(k)'
    BY <1>0, <2>2, <2>5 DEF BucketKept
  <2> QED
    BY <2>1, <2>4, <2>6 DEF BucketInv
<1>4. CASE Rests(k)
  <2>1. now' = now /\ Tokens(k, now)' = Tokens(k, now)
    BY <1>0, <1>4, BucketTokens DEF Rests
  <2>2. \A a \in Int : Passed(k, a, now)' = Passed(k, a, now)
    BY <1>4, PassedToNow
  <2>3. \A a, b \in Int : Passed(k, a, b)' = Passed(k, a, b)
    BY <1>4 DEF Rests, Passed
  <2>4. BucketLives(k)'
    BY <1>0, <1>4 DEF BucketLives, Rests, Held
  <2>5. BucketCovers(k)'
    BY <1>0, <2>1, <2>2 DEF BucketInv, BucketCovers
  <2>6. BucketKept(k)'
    BY <1>0, <2>1, <2>3 DEF BucketInv, BucketKept
  <2> QED
    BY <2>4, <2>5, <2>6 DEF BucketInv
<1> QED
  BY <1>1, <1>2, <1>3, <1>4

----------------------------------------------------------------------------
(* The fixed window.                                                        *)

LEMMA FixedCommit ==
  ASSUME Types, NEW k \in Keys, Is(k, "fixed-window"), allowed(k, now)
  PROVE  /\ commit(k) \in [count : 1 .. p1(k), expires : Nat]
         /\ commit(k).expires > now
         /\ Held(k) => /\ commit(k).count = store[k].count + 1
                       /\ commit(k).expires = store[k].expires
         /\ ~Held(k) => commit(k).count = 1 /\ commit(k).expires = now + p2(k)
<1>1. commit(k) = [count |-> Count(k, now) + 1,
                   expires |-> IF Count(k, now) = 0 THEN now + p2(k) ELSE store[k].expires]
  BY DEF commit, Is
<1>2. Held(k) => /\ store[k].count \in 1 .. p1(k) /\ store[k].expires \in Nat
                 /\ store[k].expires > now /\ Count(k, now) = store[k].count
  BY HeldIsAlive DEF Types, Held, Stored, Is, Count
<1>3. ~Held(k) => Count(k, now) = 0
  BY HeldIsAlive DEF Count
<1>4. Count(k, now) < p1(k)
  BY DEF allowed, Is
<1> QED
  BY <1>1, <1>2, <1>3, <1>4, Rule DEF Types

LEMMA WindowStep ==
  ASSUME Types, NEW k \in Keys, Is(k, "fixed-window"), WindowInv(k),
         Passes(k) \/ Resets(k) \/ Ages(k) \/ Rests(k)
  PROVE  WindowInv(k)'
<1>0. PICK s \in Seq(Nat), n \in Nat :
      /\ s = admitted[k] /\ n = Len(s)
      /\ now \in Nat /\ p1(k) \in Nat /\ p1(k) >= 1 /\ p2(k) \in Nat /\ p2(k) >= 1
      /\ p1(k)' = p1(k) /\ p2(k)' = p2(k)
      /\ DOMAIN s = 1 .. n
      /\ \A i \in 1 .. n : s[i] \in Nat /\ s[i] <= now
  BY AdmittedSeq, Rule DEF p1, p2
<1>n. /\ n \in Nat /\ now \in Nat /\ p1(k) \in Nat /\ p1(k) >= 1 /\ p2(k) \in Nat /\ p2(k) >= 1
  BY <1>0
<1>1. PICK first \in SUBSET (1 .. n) :
        /\ Starts(k, first) /\ InLast(k, first)
        /\ \A j \in first : Cardinality(WindowOf(k, j)) <= p1(k)
  BY <1>0 DEF WindowInv
<1>2. /\ \A i, j \in first : j < i => s[j] + p2(k) <= s[i]
      /\ \A j \in first : j \in 1 .. n /\ j \in Nat /\ s[j] \in Nat /\ s[j] <= now
  <2>1. \A j \in first : j \in 1 .. n
    OBVIOUS
  <2>2. \A i \in 1 .. n : i \in first <=> \A j \in first : j < i => s[j] + p2(k) <= s[i]
    BY <1>0, <1>1 DEF Starts
  <2>3. \A i, j \in first : j < i => s[j] + p2(k) <= s[i]
    BY <2>1, <2>2
  <2>4. \A j \in first : s[j] \in Nat /\ s[j] <= now
    BY <1>0, <2>1
  <2>5. \A j \in first : j \in Nat
    BY <2>1
  <2> QED
    BY <2>1, <2>3, <2>4, <2>5
<1>3. CASE Passes(k)
  <2>0. /\ now' = now /\ admitted'[k] = Append(s, now) /\ store'[k] = commit(k) /\ allowed(k, now)
        /\ DOMAIN admitted'[k] = 1 .. n + 1 /\ Len(admitted'[k]) = n + 1
        /\ admitted'[k][n + 1] = now /\ \A i \in 1 .. n : admitted'[k][i] = s[i]
    BY <1>0, <1>2, <1>3 DEF Passes
  <2>1. Held(k)'
    BY <1>0, <1>2, <2>0, FixedCommit DEF Held, Absent
  <2>2. ASSUME NEW j \in first, s[j] + p2(k) <= now
        PROVE  Cardinality(WindowOf(k, j))' <= p1(k)
    <3>1. WindowOf(k, j)' = WindowOf(k, j)
      <4>1. WindowOf(k, j) = {i \in 1 .. n : i >= j /\ s[i] < s[j] + p2(k)}
        BY <1>0 DEF WindowOf
      <4>2. WindowOf(k, j)' = {i \in 1 .. n + 1 : i >= j /\ admitted'[k][i] < s[j] + p2(k)}
        BY <1>0, <1>2, <2>0 DEF WindowOf
      <4>3. ~(admitted'[k][n + 1] < s[j] + p2(k))
        <5>1. s[j] \in Nat /\ admitted'[k][n + 1] = now
          BY <1>2, <2>0
        <5> QED
          BY <1>0, <2>2, <5>1
      <4>4. /\ \A i \in 1 .. n + 1 : i \in 1 .. n \/ i = n + 1
            /\ \A i \in 1 .. n : i \in 1 .. n + 1
        BY <1>n
      <4>5. \A i \in 1 .. n : admitted'[k][i] = s[i]
        BY <2>0
      <4> QED
        BY <4>1, <4>2, <4>3, <4>4, <4>5
    <3> QED
      BY <1>1, <3>1
  <2>5. \A i \in 1 .. n : i \in first <=> \A j \in first : j < i => s[j] + p2(k) <= s[i]
    BY <1>0, <1>2, <1>1 DEF Starts
  <2>6. \A i \in 1 .. n : (\A j \in first : j < i => s[j] + p2(k) <= s[i]) <=>
           (\A j \in first : j < i => admitted'[k][j] + p2(k) <= admitted'[k][i])
    BY <1>0, <1>2, <2>0
  <2>3. CASE Held(k)
    <3>1. PICK last \in first : /\ store[k].expires = s[last] + p2(k)
                                /\ store[k].count = n - last + 1
                                /\ \A i \in first : i <= last
      BY <1>0, <1>1, <2>3 DEF InLast
    <3>2. /\ s[last] + p2(k) > now /\ store'[k].expires = s[last] + p2(k)
          /\ store'[k].count = (n + 1) - last + 1 /\ (n + 1) - last + 1 <= p1(k)
      <4>1. commit(k).count \in 1 .. p1(k) /\ commit(k).expires = store[k].expires /\ commit(k).expires > now
            /\ commit(k).count = store[k].count + 1
        BY <2>0, <2>3, FixedCommit
      <4>2. s[last] \in Nat /\ last \in Nat /\ last \in 1 .. n /\ store'[k] = commit(k)
        BY <1>2, <2>0
      <4>3. commit(k).count = (n + 1) - last + 1
        BY <1>n, <3>1, <4>1, <4>2
      <4> QED
        BY <1>n, <3>1, <4>1, <4>2, <4>3
    <3>3. Starts(k, first)'
      <4>1. ASSUME NEW i \in 1 .. n + 1
            PROVE  i \in first <=>
                     \A j \in first : j < i => admitted'[k][j] + p2(k) <= admitted'[k][i]
        <5>1. CASE i \in 1 .. n
          BY <2>5, <2>6, <5>1
        <5>2. CASE i = n + 1
          <6>1. admitted'[k][last] = s[last] /\ admitted'[k][i] = now
            BY <1>2, <2>0, <5>2
          <6>2. ~(s[last] + p2(k) <= now)
            <7>1. s[last] \in Nat
              BY <1>2
            <7> QED
              BY <1>0, <3>2, <7>1
          <6>3. last < i /\ i \notin first
            <7>1. last \in 1 .. n /\ ~(n + 1 \in 1 .. n)
              BY <1>2
            <7> QED
              BY <1>2, <5>2, <7>1
          <6> QED
            BY <6>1, <6>2, <6>3
        <5>3. i \in 1 .. n \/ i = n + 1
          BY <1>n
        <5> QED
          BY <5>1, <5>2, <5>3
      <4> QED
        BY <1>0, <1>2, <2>0, <4>1 DEF Starts
    <3>4. InLast(k, first)'
      <4>1. /\ store'[k].expires = admitted'[k][last] + p2(k)
            /\ store'[k].count = Len(admitted'[k]) - last + 1
        BY <1>0, <1>2, <2>0, <3>1, <3>2
      <4> QED
        BY <1>0, <1>2, <2>1, <3>1, <4>1 DEF InLast
    <3>5. ASSUME NEW j \in first PROVE Cardinality(WindowOf(k, j))' <= p1(k)
      <4>1. CASE j = last
        <5>1. WindowOf(k, j)' \in SUBSET (last .. n + 1)
          BY <1>0, <1>2, <2>0, <4>1 DEF WindowOf
        <5>2. last \in Int /\ n + 1 \in Int /\ last <= (n + 1) + 1
          BY <1>0, <1>2, <3>1
        <5>3. Cardinality(WindowOf(k, j)') <= (n + 1) - last + 1
          BY <5>1, <5>2, Indices, Zenon
        <5>4. Cardinality(WindowOf(k, j)') \in Nat
          BY <5>1, <5>2, Indices, Zenon
        <5>5. (n + 1) - last + 1 \in Int
          BY <5>2
        <5> QED
          BY <1>0, <3>2, <5>3, <5>4, <5>5
      <4>2. CASE j # last
        <5>1. j \in Nat /\ last \in Nat /\ s[j] \in Nat /\ s[last] \in Nat /\ s[last] <= now
          BY <1>2
        <5>2. j < last
          BY <3>1, <4>2, <5>1
        <5>3. s[j] + p2(k) <= s[last]
          BY <1>2, <5>2
        <5>4. s[j] + p2(k) <= now
          BY <1>n, <5>1, <5>3
        <5> QED
          BY <2>2, <5>4
      <4> QED
        BY <4>1, <4>2
    <3>6. first \in SUBSET (DOMAIN admitted'[k])
      BY <1>2, <2>0
    <3> QED
      BY <1>0, <3>3, <3>4, <3>5, <3>6 DEF WindowInv
  <2>4. CASE ~Held(k)
    <3> DEFINE more == first \cup {n + 1}
    <3>1. \A j \in first : s[j] + p2(k) <= now
      BY <1>0, <1>1, <2>4 DEF InLast
    <3>2. store'[k].expires = now + p2(k) /\ store'[k].count = 1
      BY <2>0, <2>4, FixedCommit
    <3>3. Starts(k, more)'
      <4>1. ASSUME NEW i \in 1 .. n + 1
            PROVE  i \in more <=>
                     \A j \in more : j < i => admitted'[k][j] + p2(k) <= admitted'[k][i]
        <5>1. CASE i \in 1 .. n
          <6>1. ~(n + 1 < i) /\ i # n + 1
            BY <1>0, <1>2, <5>1
          <6> QED
            BY <2>5, <2>6, <5>1, <6>1
        <5>2. CASE i = n + 1
          <6>1. \A j \in first : admitted'[k][j] + p2(k) <= admitted'[k][i]
            BY <1>0, <1>2, <2>0, <3>1, <5>2
          <6>2. ~(n + 1 < i)
            BY <1>0, <1>2, <5>2
          <6> QED
            BY <5>2, <6>1, <6>2
        <5>3. i \in 1 .. n \/ i = n + 1
          BY <1>n
        <5> QED
          BY <5>1, <5>2, <5>3
      <4> QED
        BY <1>0, <1>2, <2>0, <4>1 DEF Starts
    <3>4. InLast(k, more)'
      <4>1. /\ store'[k].expires = admitted'[k][n + 1] + p2(k)
            /\ store'[k].count = Len(admitted'[k]) - (n + 1) + 1
            /\ \A i \in more : i <= n + 1
        BY <1>0, <1>2, <2>0, <3>2
      <4> QED
        BY <2>1, <4>1 DEF InLast
    <3>5. ASSUME NEW j \in more PROVE Cardinality(WindowOf(k, j))' <= p1(k)
      <4>1. CASE j = n + 1
        <5>1. WindowOf(k, j)' \in SUBSET (n + 1 .. n + 1)
          BY <1>0, <1>2, <2>0, <4>1 DEF WindowOf
        <5>2. n + 1 \in Int /\ n + 1 <= (n + 1) + 1 /\ (n + 1) - (n + 1) + 1 = 1
          BY <1>0
        <5>3. Cardinality(WindowOf(k, j)') <= (n + 1) - (n + 1) + 1 /\ Cardinality(WindowOf(k, j)') \in Nat
          BY <5>1, <5>2, Indices, Zenon
        <5> QED
          BY <1>0, <1>2, <5>2, <5>3
      <4>2. CASE j \in first
        BY <2>2, <3>1, <4>2
      <4> QED
        BY <4>1, <4>2
    <3>6. more \in SUBSET (DOMAIN admitted'[k])
      <4>1. \A j \in 1 .. n : j \in 1 .. n + 1
        BY <1>n
      <4>2. n + 1 \in 1 .. n + 1
        BY <1>n
      <4> QED
        BY <1>2, <2>0, <4>1, <4>2
    <3> QED
      BY <1>0, <3>3, <3>4, <3>5, <3>6 DEF WindowInv
  <2> QED
    BY <2>3, <2>4
<1>4. CASE Resets(k)
  <2>1. DOMAIN admitted'[k] = {} /\ ~Held(k)'
    BY <1>4 DEF Resets, Held
  <2>2. Starts(k, {})' /\ InLast(k, {})'
    BY <2>1 DEF Starts, InLast
  <2> QED
    BY <2>1, <2>2 DEF WindowInv
<1>5. ASSUME admitted'[k] = admitted[k], InLast(k, first)'
      PROVE  WindowInv(k)'
  <2>1. Starts(k, first)' /\ \A j \in first : Cardinality(WindowOf(k, j))' <= p1(k)
    BY <1>0, <1>2, <1>1, <1>5 DEF Starts, WindowOf
  <2>2. first \in SUBSET (DOMAIN admitted'[k])
    BY <1>0, <1>2, <1>5
  <2> QED
    BY <1>0, <1>5, <2>1, <2>2 DEF WindowInv
<1>6. CASE Ages(k)
  <2>1. admitted'[k] = s /\ now' = now + 1
    BY <1>0, <1>6 DEF Ages
  <2>2. CASE Held(k)
    <3>1. PICK last \in first : /\ store[k].expires = s[last] + p2(k)
                                /\ store[k].count = n - last + 1
                                /\ \A i \in first : i <= last
      BY <1>0, <1>1, <2>2 DEF InLast
    <3>2. CASE Held(k)'
      <4>1. store'[k] = store[k]
        BY <1>6, <3>2 DEF Ages, Held
      <4> QED
        BY <1>0, <1>2, <2>1, <3>1, <3>2, <4>1, <1>5 DEF InLast
    <3>3. CASE ~Held(k)'
      <4>1. ~(store[k].expires > now + 1)
        BY <1>6, <2>2, <3>3 DEF Ages, Held
      <4>2. ASSUME NEW j \in first PROVE s[j] + p2(k) <= now + 1
        <5>1. /\ s[j] \in Nat /\ s[last] \in Nat /\ j \in Nat /\ last \in Nat /\ j <= last
              /\ j < last => s[j] + p2(k) <= s[last]
          BY <1>2, <3>1
        <5>2. s[last] + p2(k) <= now + 1
          <6>1. store[k].expires \in Int /\ ~(store[k].expires > now + 1) /\ now \in Int
            BY <1>n, <3>1, <4>1, <5>1
          <6> QED
            BY <1>n, <3>1, <5>1, <6>1
        <5>3. s[j] + p2(k) \in Int /\ s[last] + p2(k) \in Int /\ s[last] <= s[last] + p2(k)
          BY <1>n, <5>1
        <5>4. CASE j = last
          BY <5>2, <5>4
        <5>5. CASE j # last
          <6>1. s[j] + p2(k) <= s[last]
            BY <5>1, <5>5
          <6>2. s[last] \in Int /\ now + 1 \in Int
            BY <1>n, <5>1
          <6> QED
            BY <5>2, <5>3, <6>1, <6>2
        <5> QED
          BY <5>4, <5>5
      <4> QED
        BY <1>0, <1>2, <2>1, <3>3, <4>2, <1>5 DEF InLast
    <3> QED
      BY <3>2, <3>3
  <2>3. CASE ~Held(k)
    <3>1. ~Held(k)'
      BY <1>6, <2>3 DEF Ages, Held
    <3>2. \A j \in first : s[j] + p2(k) <= now
      BY <1>0, <1>1, <2>3 DEF InLast
    <3> QED
      BY <1>0, <1>2, <2>1, <3>1, <3>2, <1>5 DEF InLast
  <2> QED
    BY <2>2, <2>3
<1>7. CASE Rests(k)
  BY <1>0, <1>2, <1>1, <1>5, <1>7 DEF Rests, InLast, Held
<1> QED
  BY <1>3, <1>4, <1>6, <1>7

----------------------------------------------------------------------------
(* The sliding log.                                                         *)

LEMMA LogStored ==
  ASSUME Types, NEW k \in Keys, Is(k, "sliding-window-log"), Held(k)
  PROVE  /\ store[k].log \in Seq(Nat) /\ Len(store[k].log) \in 1 .. p1(k)
         /\ \A i \in 1 .. Len(store[k].log) : store[k].log[i] \in Nat /\ store[k].log[i] <= now
         /\ store[k].expires \in Nat /\ store[k].expires > now
<1>1. /\ now \in Nat /\ store[k] \in Stored(k) /\ store[k].expires > now
  BY DEF Types, Held
<1>2. /\ store[k].log \in UNION {[1 .. n -> 0 .. now] : n \in 1 .. p1(k)}
      /\ store[k].expires \in Nat
  BY <1>1 DEF Stored, Is
<1>3. PICK n \in 1 .. p1(k) : store[k].log \in [1 .. n -> 0 .. now]
  BY <1>2
<1>4. n \in Nat /\ 0 .. now \in SUBSET Nat /\ p1(k) \in Nat
  BY <1>1, <1>3, Rule
<1>5. store[k].log \in Seq(Nat) /\ Len(store[k].log) = n
  BY <1>3, <1>4
<1> QED
  BY <1>1, <1>2, <1>3, <1>4, <1>5

(* As many entries are dropped as are old, and the old ones are the first.   *)
LEMMA Pruned ==
  ASSUME NEW log \in Seq(Nat), Ordered(log), NEW c \in Int
  PROVE  LET e == Cardinality({i \in DOMAIN log : log[i] <= c})
             r == SubSeq(log, e + 1, Len(log))
         IN  /\ e \in Nat /\ e <= Len(log)
             /\ r \in Seq(Nat) /\ Len(r) = Len(log) - e
             /\ \A i \in 1 .. Len(r) : r[i] = log[e + i]
             /\ \A i \in 1 .. e : log[i] <= c
<1> DEFINE old == {i \in DOMAIN log : log[i] <= c}
           e   == Cardinality(old)
           m   == Len(log)
           r   == SubSeq(log, e + 1, m)
<1>1. m \in Nat /\ DOMAIN log = 1 .. m /\ \A i \in 1 .. m : log[i] \in Nat
  OBVIOUS
<1>2. old \in SUBSET (1 .. m) /\ 1 \in Int /\ m \in Int /\ 1 <= m + 1 /\ m - 1 + 1 = m
  BY <1>1
<1>3. e \in Nat /\ e <= m - 1 + 1
  BY <1>2, Indices, Zenon
<1>4. ASSUME NEW i \in 1 .. e
      PROVE  log[i] <= c
  <2>1. SUFFICES ASSUME ~(log[i] <= c) PROVE FALSE
    OBVIOUS
  <2>2. i \in 1 .. m /\ i \in Nat /\ log[i] \in Nat
    <3>1. i \in 1 .. m
      BY <1>2, <1>3
    <3> QED
      BY <1>1, <3>1
  <2>3. ASSUME NEW j \in old PROVE j \in 1 .. i - 1
    <3>1. j \in 1 .. m /\ log[j] <= c /\ log[j] \in Nat
      BY <1>1
    <3>2. i <= j => log[i] <= log[j]
      BY <1>1, <2>2, <3>1 DEF Ordered
    <3>3. ~(i <= j)
      BY <2>1, <2>2, <3>1, <3>2
    <3> QED
      BY <2>2, <3>1, <3>3
  <2>4. old \in SUBSET (1 .. i - 1) /\ i - 1 \in Int /\ 1 <= (i - 1) + 1 /\ (i - 1) - 1 + 1 = i - 1
    BY <2>2, <2>3
  <2>5. e <= (i - 1) - 1 + 1
    BY <1>2, <2>4, Indices, Zenon
  <2> QED
    BY <1>3, <2>2, <2>4, <2>5
<1> HIDE DEF e, old
<1>5. m \in Nat /\ m \in Int /\ e \in Nat /\ e <= m /\ e + 1 \in Int
  BY <1>1, <1>2, <1>3
<1>6. ASSUME NEW i \in e + 1 .. m PROVE log[i] \in Nat
  <2>1. i \in 1 .. m
    BY <1>5
  <2> QED
    BY <1>1, <2>1
<1>7. /\ r \in Seq(Nat)
      /\ Len(r) = IF e + 1 <= m THEN m - (e + 1) + 1 ELSE 0
      /\ \A i \in 1 .. m - (e + 1) + 1 : r[i] = log[e + 1 + i - 1]
  <2>1. \A i \in e + 1 .. m : log[i] \in Nat
    BY <1>6
  <2> HIDE DEF m
  <2> QED
    BY <1>5, <2>1, SubSeqProperties
<1> HIDE DEF m, r
<1>8. Len(r) = m - e
  <2>1. (IF e + 1 <= m THEN m - (e + 1) + 1 ELSE 0) = m - e
    BY <1>5
  <2> QED
    BY <1>7, <2>1
<1>9. ASSUME NEW i \in 1 .. Len(r) PROVE r[i] = log[e + i]
  <2>1. i \in 1 .. m - (e + 1) + 1 /\ e + 1 + i - 1 = e + i
    BY <1>5, <1>8
  <2> QED
    BY <1>7, <2>1
<1> QED
  BY <1>4, <1>5, <1>7, <1>8, <1>9 DEF e, old, m, r

(* What the commit keeps ends the list of all that passed, and what it drops *)
(* has left the window.                                                      *)
LEMMA RecentEnds ==
  ASSUME Types, NEW k \in Keys, Is(k, "sliding-window-log"), Ordered(admitted[k]), LogEnds(k)
  PROVE  LET r == Recent(k, now)  n == Len(admitted[k]) IN
         /\ r \in Seq(Nat) /\ Len(r) \in Nat /\ Len(r) <= n
         /\ \A i \in 1 .. Len(r) : r[i] = admitted[k][n - Len(r) + i]
         /\ \A i \in 1 .. n - Len(r) : admitted[k][i] <= now - p2(k)
<1>1. /\ now \in Nat /\ Len(admitted[k]) \in Nat /\ p2(k) \in Nat /\ now - p2(k) \in Int
  BY AdmittedSeq, Rule
<1>2. CASE ~Held(k)
  <2>1. Recent(k, now) = <<>> /\ \A i \in 1 .. Len(admitted[k]) : admitted[k][i] <= now - p2(k)
    BY <1>1, <1>2, HeldIsAlive DEF Recent, LogEnds
  <2> QED
    BY <1>1, <2>1
<1>3. CASE Held(k)
  <2> DEFINE log == store[k].log
             n   == Len(admitted[k])
             b   == n - Len(log)
             e   == Cardinality({i \in DOMAIN log : log[i] <= now - p2(k)})
             r   == SubSeq(log, e + 1, Len(log))
  <2>1. /\ log \in Seq(Nat) /\ Len(log) \in Nat /\ DOMAIN log = 1 .. Len(log)
    BY <1>3, LogStored
  <2>2. /\ b \in Nat
        /\ \A i \in 1 .. Len(log) : log[i] = admitted[k][b + i]
        /\ \A i \in 1 .. b : admitted[k][i] <= now - p2(k)
    BY <1>3, <2>1 DEF LogEnds
  <2>3. Recent(k, now) = r
    BY <1>3, HeldIsAlive DEF Recent
  <2>n. n \in Nat /\ Len(log) \in Nat /\ b \in Nat /\ b + Len(log) = n
    BY <1>1, <2>1, <2>2
  <2> HIDE DEF n, b
  <2>4. Ordered(log)
    <3>1. ASSUME NEW i \in 1 .. Len(log), NEW j \in 1 .. Len(log), i <= j
          PROVE  log[i] <= log[j]
      <4>1. b + i \in 1 .. n /\ b + j \in 1 .. n /\ b + i <= b + j
        BY <2>n, <3>1
      <4>2. admitted[k][b + i] <= admitted[k][b + j]
        BY <4>1, AdmittedSeq DEF Ordered, n
      <4> QED
        BY <2>2, <4>2
    <3> QED
      BY <2>1, <3>1 DEF Ordered
  <2> HIDE DEF log
  <2>5. /\ e \in Nat /\ e <= Len(log)
        /\ r \in Seq(Nat) /\ Len(r) = Len(log) - e
        /\ \A i \in 1 .. Len(r) : r[i] = log[e + i]
        /\ \A i \in 1 .. e : log[i] <= now - p2(k)
    BY <1>1, <2>1, <2>4, Pruned
  <2> HIDE DEF e, r
  <2>6. /\ Len(r) \in Nat /\ Len(r) <= n /\ n - Len(r) = b + e
        /\ e \in Nat /\ e + Len(r) = Len(log)
    <3>1. e \in Nat /\ e <= Len(log) /\ Len(r) = Len(log) - e
      BY <2>5
    <3> QED
      BY <2>n, <3>1
  <2>7. ASSUME NEW i \in 1 .. Len(r) PROVE r[i] = admitted[k][n - Len(r) + i]
    <3>1. e + i \in 1 .. Len(log) /\ b + (e + i) = (n - Len(r)) + i
      BY <2>n, <2>6
    <3> QED
      BY <2>2, <2>5, <3>1
  <2>8. ASSUME NEW i \in 1 .. n - Len(r) PROVE admitted[k][i] <= now - p2(k)
    <3>0. i \in Nat /\ i >= 1 /\ i <= b + e
      BY <2>n, <2>6
    <3>1. CASE i <= b
      BY <2>2, <3>0, <3>1
    <3>2. CASE ~(i <= b)
      <4>1. i - b \in 1 .. e /\ i - b \in 1 .. Len(log) /\ b + (i - b) = i
        BY <2>n, <2>6, <3>0, <3>2
      <4>2. log[i - b] = admitted[k][i]
        BY <2>2, <4>1
      <4> QED
        BY <2>5, <4>1, <4>2
    <3> QED
      BY <3>1, <3>2
  <2> QED
    BY <2>3, <2>5, <2>6, <2>7, <2>8 DEF n
<1> QED
  BY <1>2, <1>3

LEMMA LogCommit ==
  ASSUME Types, NEW k \in Keys, Is(k, "sliding-window-log"), Ordered(admitted[k]), LogEnds(k),
         allowed(k, now)
  PROVE  /\ commit(k).log = Append(Recent(k, now), now)
         /\ commit(k).expires = now + p2(k) + TicksPerSec
         /\ commit(k).expires \in Nat /\ commit(k).expires > now
         /\ commit(k) \in [log : UNION {[1 .. n -> 0 .. now] : n \in 1 .. p1(k)}, expires : Nat]
<1>1. commit(k) = [log |-> Append(Recent(k, now), now), expires |-> now + p2(k) + TicksPerSec]
  BY DEF commit, Is
<1>2. PICK r \in Seq(Nat), n \in Nat :
        /\ r = Recent(k, now) /\ n = Len(r) /\ n <= Len(admitted[k])
        /\ \A i \in 1 .. n : r[i] = admitted[k][Len(admitted[k]) - n + i]
  BY RecentEnds
<1>3. /\ now \in Nat /\ Len(admitted[k]) \in Nat /\ p1(k) \in Nat
      /\ p2(k) \in Nat /\ p2(k) >= 1 /\ TicksPerSec \in Nat /\ TicksPerSec >= 1
  BY AdmittedSeq, Rule
<1>4. n < p1(k)
  BY <1>2 DEF allowed, Is
<1>5. ASSUME NEW i \in 1 .. n PROVE r[i] \in 0 .. now
  <2>1. Len(admitted[k]) - n + i \in 1 .. Len(admitted[k])
    <3>1. n \in Nat /\ n <= Len(admitted[k]) /\ Len(admitted[k]) \in Nat
      BY <1>2, <1>3
    <3> QED
      BY <3>1
  <2>2. admitted[k][Len(admitted[k]) - n + i] \in 0 .. now
    BY <2>1, AdmittedSeq
  <2> QED
    BY <1>2, <2>2
<1>6. /\ Append(r, now) \in Seq(Nat) /\ Len(Append(r, now)) = n + 1
      /\ \A i \in 1 .. n : Append(r, now)[i] = r[i]
      /\ Append(r, now)[n + 1] = now
  BY <1>2, <1>3
<1>7. Append(r, now) \in [1 .. n + 1 -> 0 .. now]
  <2>1. Append(r, now) \in [1 .. n + 1 -> Nat]
    BY <1>6, LenProperties
  <2>2. ASSUME NEW i \in 1 .. n + 1 PROVE Append(r, now)[i] \in 0 .. now
    <3>1. i \in 1 .. n \/ i = n + 1
      OBVIOUS
    <3> QED
      BY <1>3, <1>5, <1>6, <3>1
  <2> QED
    BY <2>1, <2>2
<1>8. n + 1 \in 1 .. p1(k)
  BY <1>3, <1>4
<1>9. now + p2(k) + TicksPerSec \in Nat /\ now + p2(k) + TicksPerSec > now
  BY <1>3
<1> QED
  BY <1>1, <1>2, <1>7, <1>8, <1>9

(* What passed since an instant that is still in the window is in the log.   *)
LEMMA RecentCounts ==
  ASSUME Types, NEW k \in Keys, Is(k, "sliding-window-log"), Ordered(admitted[k]), LogEnds(k),
         NEW a \in Int, a + p2(k) - 1 >= now, NEW b \in Int
  PROVE  Passed(k, a, b) <= Len(Recent(k, now))
<1>1. PICK m \in Nat, n \in Nat :
        /\ m = Len(Recent(k, now)) /\ n = Len(admitted[k]) /\ m <= n
        /\ \A i \in 1 .. n - m : admitted[k][i] <= now - p2(k)
  BY RecentEnds, AdmittedSeq
<1>2. now \in Nat /\ p2(k) \in Nat /\ DOMAIN admitted[k] = 1 .. n
      /\ \A i \in 1 .. n : admitted[k][i] \in Nat
  BY <1>1, AdmittedSeq, Rule
<1>3. ASSUME NEW i \in 1 .. n, admitted[k][i] \in a .. b
      PROVE  i \in n - m + 1 .. n
  <2>1. admitted[k][i] \in Nat /\ ~(admitted[k][i] <= now - p2(k))
    <3>1. admitted[k][i] \in Nat /\ now \in Nat /\ p2(k) \in Nat
      BY <1>2
    <3> QED
      BY <1>3, <3>1
  <2>2. ~(i \in 1 .. n - m)
    BY <1>1, <2>1
  <2>3. m \in Nat /\ n \in Nat /\ m <= n
    BY <1>1
  <2> QED
    BY <2>2, <2>3
<1> DEFINE W == {i \in DOMAIN admitted[k] : admitted[k][i] \in a .. b}
<1>4. W \in SUBSET (n - m + 1 .. n)
  BY <1>2, <1>3
<1>5. /\ n - m + 1 \in Int /\ n \in Int /\ n - m + 1 <= n + 1 /\ n - (n - m + 1) + 1 = m
  BY <1>1
<1>6. Cardinality(W) <= n - (n - m + 1) + 1
  BY <1>4, <1>5, Indices, Zenon
<1> QED
  BY <1>1, <1>5, <1>6 DEF Passed

LEMMA LogStep ==
  ASSUME Types, NEW k \in Keys, Is(k, "sliding-window-log"), Ordered(admitted[k]), LogInv(k),
         Passes(k) \/ Resets(k) \/ Ages(k) \/ Rests(k)
  PROVE  LogInv(k)'
<1>0. /\ LogEnds(k) /\ LogKept(k)
      /\ now \in Nat /\ p1(k) \in Nat /\ p2(k) \in Nat /\ p2(k) >= 1 /\ TicksPerSec \in Nat
      /\ p1(k)' = p1(k) /\ p2(k)' = p2(k)
      /\ Len(admitted[k]) \in Nat
  BY Rule, AdmittedSeq DEF LogInv, p1, p2
<1>1. CASE Passes(k)
  <2>1. now' = now /\ store'[k] = commit(k) /\ admitted'[k] = Append(admitted[k], now)
        /\ allowed(k, now)
    BY <1>1 DEF Passes
  <2>2. LogEnds(k)'
    <3>1. PICK s \in Seq(Nat), n \in Nat, r \in Seq(Nat), m \in Nat :
            /\ s = admitted[k] /\ n = Len(s) /\ r = Recent(k, now) /\ m = Len(r) /\ m <= n
            /\ \A i \in 1 .. m : r[i] = s[n - m + i]
            /\ \A i \in 1 .. n - m : s[i] <= now - p2(k)
      BY <1>0, RecentEnds, AdmittedSeq
    <3>2. /\ store'[k].log = Append(r, now) /\ store'[k].expires = now + p2(k) + TicksPerSec
          /\ Held(k)' /\ admitted'[k] = Append(s, now)
      <4>1. /\ commit(k).log = Append(Recent(k, now), now)
            /\ commit(k).expires = now + p2(k) + TicksPerSec /\ commit(k).expires > now
        BY <1>0, <2>1, LogCommit
      <4>2. commit(k) # Absent
        BY <1>0, <4>1 DEF Absent
      <4> QED
        BY <2>1, <3>1, <4>1, <4>2 DEF Held
    <3>3. /\ Len(store'[k].log) = m + 1 /\ DOMAIN store'[k].log = 1 .. m + 1
          /\ Len(admitted'[k]) = n + 1
          /\ \A i \in 1 .. m : store'[k].log[i] = r[i]
          /\ \A i \in 1 .. n : admitted'[k][i] = s[i]
          /\ store'[k].log[m + 1] = now /\ admitted'[k][n + 1] = now
      <4>1. m = Len(r) /\ n = Len(s) /\ now \in Nat
        BY <1>0, <3>1
      <4>2. /\ Len(Append(r, now)) = m + 1 /\ DOMAIN Append(r, now) = 1 .. m + 1
            /\ \A i \in 1 .. m : Append(r, now)[i] = r[i]
            /\ Append(r, now)[m + 1] = now
        BY <4>1
      <4>3. /\ Len(Append(s, now)) = n + 1
            /\ \A i \in 1 .. n : Append(s, now)[i] = s[i]
            /\ Append(s, now)[n + 1] = now
        BY <4>1
      <4> QED
        BY <3>2, <4>2, <4>3
    <3>4. m \in Nat /\ n \in Nat /\ m <= n /\ (n + 1) - (m + 1) = n - m /\ n - m \in Nat
          /\ (n - m) + (m + 1) = n + 1
      <4>1. m \in Nat /\ n \in Nat /\ m <= n
        BY <3>1
      <4> QED
        BY <4>1
    <3>5. ASSUME NEW i \in 1 .. n - m PROVE admitted'[k][i] <= now - p2(k)
      <4>1. i \in 1 .. n
        BY <3>4
      <4> QED
        BY <3>1, <3>3, <4>1
    <3>6. ASSUME NEW i \in 1 .. m + 1
          PROVE  /\ store'[k].log[i] = admitted'[k][(n - m) + i]
                 /\ store'[k].log[i] + p2(k) <= store'[k].expires
      <4>1. CASE i \in 1 .. m
        <5>1. (n - m) + i \in 1 .. n
          BY <3>4, <4>1
        <5>2. store'[k].log[i] = s[(n - m) + i] /\ s[(n - m) + i] = admitted'[k][(n - m) + i]
          <6>1. store'[k].log[i] = r[i] /\ s[(n - m) + i] = admitted'[k][(n - m) + i]
            BY <3>3, <4>1, <5>1
          <6>2. r[i] = s[n - m + i]
            BY <3>1, <4>1
          <6> QED
            BY <6>1, <6>2
        <5>3. s[(n - m) + i] \in Nat /\ s[(n - m) + i] <= now
          BY <3>1, <5>1, AdmittedSeq
        <5>4. s[(n - m) + i] + p2(k) <= now + p2(k) + TicksPerSec
          BY <1>0, <5>3
        <5> QED
          BY <3>2, <5>2, <5>4
      <4>2. CASE i = m + 1
        <5>1. (n - m) + i = n + 1
          BY <3>4, <4>2
        <5>2. store'[k].log[i] = now /\ admitted'[k][(n - m) + i] = now
          BY <3>3, <4>2, <5>1
        <5>3. now + p2(k) <= now + p2(k) + TicksPerSec
          BY <1>0
        <5> QED
          BY <3>2, <5>2, <5>3
      <4>3. i \in 1 .. m \/ i = m + 1
        BY <3>4
      <4> QED
        BY <4>1, <4>2, <4>3
    <3>7. /\ Len(admitted'[k]) - Len(store'[k].log) = n - m /\ n - m \in Nat
          /\ now' = now /\ p2(k)' = p2(k) /\ Held(k)'
      BY <1>0, <2>1, <3>2, <3>3, <3>4
    <3>8. DOMAIN store'[k].log = 1 .. m + 1
      BY <3>3
    <3> QED
      BY <3>5, <3>6, <3>7, <3>8 DEF LogEnds
  <2>3. ASSUME NEW a \in 0 .. now PROVE Passed(k, a, a + p2(k) - 1)' <= p1(k)
    <3>1. a \in Int /\ a + p2(k) - 1 \in Int
      BY <1>0
    <3>2. Passed(k, a, a + p2(k) - 1) \in Nat /\ Passed(k, a, a + p2(k) - 1) <= p1(k)
          /\ Passed(k, a, a + p2(k) - 1)' =
               Passed(k, a, a + p2(k) - 1) + IF now \in a .. a + p2(k) - 1 THEN 1 ELSE 0
      BY <1>0, <1>1, <2>1, <3>1, PassedNow DEF LogKept
    <3>3. CASE now \in a .. a + p2(k) - 1
      <4>1. Passed(k, a, a + p2(k) - 1) <= Len(Recent(k, now))
        BY <1>0, <3>1, <3>3, RecentCounts
      <4>2. Len(Recent(k, now)) \in Nat /\ Len(Recent(k, now)) < p1(k)
        BY <1>0, <2>1, RecentEnds DEF allowed, Is
      <4> QED
        BY <1>0, <3>2, <3>3, <4>1, <4>2
    <3> QED
      BY <1>0, <3>2, <3>3
  <2>4. LogKept(k)'
    BY <1>0, <2>1, <2>3 DEF LogKept
  <2> QED
    BY <2>2, <2>4 DEF LogInv
<1>2. CASE Resets(k)
  <2>1. now' = now /\ admitted'[k] = <<>> /\ ~Held(k)'
    BY <1>2 DEF Resets, Held
  <2>2. LogEnds(k)'
    BY <2>1 DEF LogEnds
  <2>3. \A a \in Int, b \in Int : Passed(k, a, b)' = 0
    BY <2>1, FS_EmptySet DEF Passed
  <2>4. LogKept(k)'
    BY <1>0, <2>1, <2>3 DEF LogKept
  <2> QED
    BY <2>2, <2>4 DEF LogInv
<1>3. CASE Ages(k)
  <2>1. now' = now + 1 /\ admitted'[k] = admitted[k]
        /\ store'[k] = IF store[k].expires > now + 1 THEN store[k] ELSE Absent
    BY <1>3 DEF Ages
  <2>2. LogEnds(k)'
    <3>1. CASE ~Held(k)
      <4>1. ~Held(k)'
        BY <2>1, <3>1 DEF Held
      <4>2. ASSUME NEW i \in 1 .. Len(admitted[k]) PROVE admitted[k][i] <= now + 1 - p2(k)
        <5>1. admitted[k][i] <= now - p2(k) /\ admitted[k][i] \in Nat
          BY <1>0, <3>1, AdmittedSeq DEF LogEnds
        <5> QED
          BY <1>0, <5>1
      <4> QED
        BY <1>0, <2>1, <4>1, <4>2 DEF LogEnds
    <3>2. CASE Held(k)
      <4> DEFINE b == Len(admitted[k]) - Len(store[k].log)
                 m == Len(store[k].log)
      <4>1. /\ b \in Nat /\ m \in Nat /\ b + m = Len(admitted[k])
            /\ DOMAIN store[k].log = 1 .. m
        BY <1>0, <3>2, LogStored DEF LogEnds
      <4>2. /\ \A i \in 1 .. b : admitted[k][i] <= now - p2(k)
            /\ \A i \in 1 .. m : store[k].log[i] = admitted[k][b + i]
            /\ \A i \in 1 .. m : store[k].log[i] + p2(k) <= store[k].expires
        BY <1>0, <3>2, <4>1 DEF LogEnds
      <4> HIDE DEF b, m
      <4>3. ASSUME NEW i \in 1 .. b PROVE admitted[k][i] <= now + 1 - p2(k)
        <5>1. i \in 1 .. Len(admitted[k])
          BY <4>1
        <5>2. admitted[k][i] <= now - p2(k) /\ admitted[k][i] \in Nat
          BY <4>2, <5>1, AdmittedSeq
        <5> QED
          BY <1>0, <5>2
      <4>4. CASE Held(k)'
        <5>1. store'[k] = store[k]
          BY <2>1, <4>4 DEF Held
        <5> QED
          <6>1. b = Len(admitted'[k]) - Len(store'[k].log)
            BY <2>1, <5>1 DEF b
          <6>2. ASSUME NEW i \in 1 .. b PROVE admitted'[k][i] <= now' - p2(k)'
            BY <1>0, <2>1, <4>3
          <6>3. /\ \A i \in DOMAIN store'[k].log : store'[k].log[i] = admitted'[k][b + i]
                /\ \A i \in DOMAIN store'[k].log : store'[k].log[i] + p2(k) <= store'[k].expires
            BY <2>1, <4>1, <4>2, <5>1
          <6> QED
            BY <4>1, <4>4, <6>1, <6>2, <6>3 DEF LogEnds
      <4>5. CASE ~Held(k)'
        <5>1. store[k].expires \in Nat /\ ~(store[k].expires > now + 1)
          BY <2>1, <3>2, <4>5, LogStored DEF Held
        <5>2. ASSUME NEW i \in 1 .. Len(admitted[k]) PROVE admitted[k][i] <= now + 1 - p2(k)
          <6>1. CASE i \in 1 .. b
            BY <4>3, <6>1
          <6>2. CASE ~(i \in 1 .. b)
            <7>1. i - b \in 1 .. m /\ b + (i - b) = i
              BY <1>0, <4>1, <6>2
            <7>2. admitted[k][i] + p2(k) <= store[k].expires /\ admitted[k][i] \in Nat
              BY <4>2, <7>1, AdmittedSeq
            <7> QED
              BY <1>0, <5>1, <7>2
          <6> QED
            BY <6>1, <6>2
        <5> QED
          BY <1>0, <2>1, <4>5, <5>2 DEF LogEnds
      <4> QED
        BY <4>4, <4>5
    <3> QED
      BY <3>1, <3>2
  <2>3. ASSUME NEW a \in 0 .. now + 1 PROVE Passed(k, a, a + p2(k) - 1)' <= p1(k)
    <3>1. Passed(k, a, a + p2(k) - 1)' = Passed(k, a, a + p2(k) - 1)
      BY <1>0, <2>1 DEF Passed
    <3>2. CASE a \in 0 .. now
      BY <1>0, <3>1, <3>2 DEF LogKept
    <3>3. CASE a = now + 1
      BY <1>0, <3>1, <3>3, PassedNow
    <3> QED
      BY <1>0, <3>2, <3>3
  <2>4. LogKept(k)'
    BY <1>0, <2>1, <2>3 DEF LogKept
  <2> QED
    BY <2>2, <2>4 DEF LogInv
<1>4. CASE Rests(k)
  <2>1. now' = now /\ store'[k] = store[k] /\ admitted'[k] = admitted[k]
    BY <1>4 DEF Rests
  <2>2. LogEnds(k)'
    BY <1>0, <2>1 DEF LogEnds, Held
  <2>3. LogKept(k)'
    BY <1>0, <2>1 DEF LogKept, Passed
  <2> QED
    BY <2>2, <2>3 DEF LogInv
<1> QED
  BY <1>1, <1>2, <1>3, <1>4

----------------------------------------------------------------------------
(* The counters of two windows.                                             *)

LEMMA Quotient ==
  ASSUME NEW a \in Int, NEW b \in Nat, b >= 1, NEW c \in Int, b * c <= a
  PROVE  c <= a \div b
<1> DEFINE q == a \div b
<1>1. q \in Int /\ a < b * q + b
  BY Division
<1> HIDE DEF q
<1>2. c >= q + 1 => b * c >= b * (q + 1) /\ b * (q + 1) = b * q + b
  BY <1>1
<1>3. b * c \in Int /\ b * q \in Int
  BY <1>1
<1>4. ~(c >= q + 1)
  BY <1>1, <1>2, <1>3
<1>5. c <= q
  BY <1>1, <1>4
<1> QED
  BY <1>5 DEF q

LEMMA WindowBounds ==
  ASSUME NEW k \in Keys, NEW at \in Nat
  PROVE  /\ Window(k, at) \in 0 .. at /\ p2(k) * Window(k, at) \in Nat
         /\ p2(k) * Window(k, at) <= at /\ at < p2(k) * Window(k, at) + p2(k)
         /\ at % p2(k) = at - p2(k) * Window(k, at)
         /\ Window(k, at) <= Window(k, at + 1)
         /\ p2(k) * Window(k, at) <= p2(k) * Window(k, at + 1)
<1> DEFINE L == p2(k)  W == at \div L  V == (at + 1) \div L
<1>0. L \in Nat /\ L >= 1 /\ at \in Int /\ at + 1 \in Int
  BY Rule
<1> HIDE DEF L
<1>1. /\ W \in Int /\ L * W <= at /\ at < L * W + L /\ at % L = at - L * W
      /\ V \in Int
  BY <1>0, Division, Zenon
<1>2. 0 <= W
  <2>1. L * 0 <= at
    BY <1>0
  <2> QED
    BY <1>0, <2>1, Quotient
<1> HIDE DEF L, W, V
<1>3. L * W \in Nat /\ W <= L * W
  BY <1>0, <1>1, <1>2
<1>4. L * W <= at + 1
  BY <1>1, <1>3
<1>5. W <= V
  BY <1>0, <1>1, <1>4, Quotient DEF V
<1>6. L * W <= L * V
  BY <1>0, <1>1, <1>5
<1> QED
  BY <1>1, <1>2, <1>3, <1>5, <1>6 DEF L, W, V, Window

LEMMA CounterStored ==
  ASSUME Types, NEW k \in Keys, Is(k, "sliding-window-counter"), Held(k)
  PROVE  /\ store[k].w \in Nat /\ p2(k) * store[k].w \in Nat
         /\ store[k].cur \in 0 .. p1(k) /\ store[k].prev \in 0 .. p1(k)
         /\ store[k].expires \in Nat /\ store[k].expires > now
<1>1. /\ now \in Nat /\ store[k] \in Stored(k) /\ store[k].expires > now
  BY DEF Types, Held
<1>2. /\ store[k].w \in 0 .. now /\ store[k].cur \in 1 .. p1(k)
      /\ store[k].prev \in 0 .. p1(k) /\ store[k].expires \in Nat
  BY <1>1 DEF Stored, Is
<1>3. store[k].w \in Nat
  BY <1>1, <1>2
<1>4. p2(k) * store[k].w \in Nat
  BY <1>3, Rule
<1>5. store[k].cur \in 0 .. p1(k)
  BY <1>2, Rule
<1> QED
  BY <1>1, <1>2, <1>3, <1>4, <1>5

LEMMA PassedNone ==
  ASSUME Types, NEW k \in Keys, NEW a \in Int, NEW b \in Int,
         \A i \in DOMAIN admitted[k] : admitted[k][i] < a
  PROVE  Passed(k, a, b) = 0
<1>1. \A i \in DOMAIN admitted[k] : admitted[k][i] \in Nat
  BY AdmittedSeq
<1>2. {i \in DOMAIN admitted[k] : admitted[k][i] \in a .. b} = {}
  BY <1>1
<1> QED
  BY <1>2, FS_EmptySet DEF Passed

(* What the counters say of this window and of the one before is what passed. *)
LEMMA WindowsCount ==
  ASSUME Types, NEW k \in Keys, Is(k, "sliding-window-counter"), CounterCounts(k)
  PROVE  LET start == p2(k) * Window(k, now)  c == Windows(k, now) IN
         /\ c.cur = Passed(k, start, start + p2(k) - 1)
         /\ c.prev = Passed(k, start - p2(k), start - 1)
         /\ c.cur \in 0 .. p1(k) /\ c.prev \in 0 .. p1(k)
<1> DEFINE L     == p2(k)
           W     == Window(k, now)
           start == L * W
           c     == Windows(k, now)
<1>0. /\ now \in Nat /\ L \in Nat /\ L >= 1 /\ W \in Nat /\ start \in Nat /\ p1(k) \in Nat
      /\ \A i \in DOMAIN admitted[k] : admitted[k][i] \in Nat
  <2>1. /\ now \in Nat /\ L \in Nat /\ L >= 1 /\ p1(k) \in Nat
        /\ \A i \in DOMAIN admitted[k] : admitted[k][i] \in Nat
    BY AdmittedSeq, Rule
  <2>2. W \in Nat /\ start \in Nat
    <3>1. Window(k, now) \in 0 .. now /\ p2(k) * Window(k, now) \in Nat
      BY <2>1, WindowBounds, Zenon
    <3> QED
      BY <2>1, <3>1
  <2> QED
    BY <2>1, <2>2
<1>1. ASSUME \A i \in DOMAIN admitted[k] : admitted[k][i] < start
      PROVE  Passed(k, start, start + L - 1) = 0
  BY <1>0, <1>1, PassedNone
<1>2. ASSUME \A i \in DOMAIN admitted[k] : admitted[k][i] < start - L
      PROVE  Passed(k, start - L, start - 1) = 0 /\ Passed(k, start, start + L - 1) = 0
  <2>1. Passed(k, start - L, start - 1) = 0
    BY <1>0, <1>2, PassedNone
  <2>2. ASSUME NEW i \in DOMAIN admitted[k] PROVE admitted[k][i] < start
    <3>1. admitted[k][i] < start - L /\ admitted[k][i] \in Nat
      BY <1>0, <1>2
    <3> QED
      BY <1>0, <3>1
  <2> QED
    BY <1>1, <2>1, <2>2
<1>3. CASE ~Held(k)
  <2>1. c = [cur |-> 0, prev |-> 0]
    BY <1>3, HeldIsAlive DEF Windows
  <2>2. \A i \in DOMAIN admitted[k] : admitted[k][i] < start - L
    BY <1>3 DEF CounterCounts
  <2> QED
    BY <1>0, <1>2, <2>1, <2>2
<1>4. CASE Held(k)
  <2> DEFINE w == store[k].w
  <2>1. /\ w \in Nat /\ L * w \in Nat /\ w <= W
        /\ store[k].cur \in 0 .. p1(k) /\ store[k].prev \in 0 .. p1(k) /\ Alive(k, now)
    BY <1>4, CounterStored, HeldIsAlive DEF CounterCounts
  <2>2. /\ \A i \in DOMAIN admitted[k] : admitted[k][i] < L * w + L
        /\ store[k].cur = Passed(k, L * w, L * w + L - 1)
        /\ store[k].prev = Passed(k, L * w - L, L * w - 1)
    BY <1>4 DEF CounterCounts
  <2>3. CASE w = W
    <3>1. c = [cur |-> store[k].cur, prev |-> store[k].prev]
      BY <2>1, <2>3 DEF Windows
    <3> QED
      BY <2>1, <2>2, <2>3, <3>1
  <2>4. CASE w = W - 1
    <3>1. c = [cur |-> 0, prev |-> store[k].cur]
      BY <1>0, <2>1, <2>4 DEF Windows
    <3>2. L * w = start - L /\ L * w + L = start /\ L * w + L - 1 = start - 1
      <4>1. W = w + 1 /\ L * (w + 1) = L * w + L
        BY <1>0, <2>1, <2>4
      <4> QED
        BY <1>0, <2>1, <4>1
    <3>3. Passed(k, start, start + L - 1) = 0
      BY <1>1, <2>2, <3>2
    <3>4. store[k].cur = Passed(k, start - L, start - 1)
      BY <2>2, <3>2
    <3> QED
      BY <1>0, <2>1, <3>1, <3>3, <3>4
  <2>5. CASE w # W /\ w # W - 1
    <3>1. c = [cur |-> 0, prev |-> 0]
      BY <2>5 DEF Windows
    <3>2. L * w + L <= start - L
      <4>1. w + 2 <= W
        BY <1>0, <2>1, <2>5
      <4>2. L * (w + 2) <= L * W /\ L * (w + 2) = L * w + L + L
        BY <1>0, <2>1, <4>1
      <4> QED
        BY <1>0, <2>1, <4>2
    <3>3. ASSUME NEW i \in DOMAIN admitted[k] PROVE admitted[k][i] < start - L
      <4>1. admitted[k][i] \in Nat /\ admitted[k][i] < L * w + L
        BY <1>0, <2>2
      <4> QED
        BY <1>0, <2>1, <3>2, <4>1
    <3> QED
      BY <1>0, <1>2, <3>1, <3>3
  <2> QED
    BY <2>3, <2>4, <2>5
<1> QED
  BY <1>3, <1>4

LEMMA CounterCommit ==
  ASSUME Types, NEW k \in Keys, Is(k, "sliding-window-counter"), CounterCounts(k), allowed(k, now)
  PROVE  LET start == p2(k) * Window(k, now)  c == Windows(k, now) IN
         /\ c.prev * (start + p2(k) - now) + (c.cur + 1) * p2(k) <= p1(k) * p2(k)
         /\ commit(k).w = Window(k, now) /\ commit(k).cur = c.cur + 1 /\ commit(k).prev = c.prev
         /\ commit(k).expires >= start + 2 * p2(k) /\ commit(k).expires > now
         /\ commit(k) \in [w : 0 .. now, cur : 1 .. p1(k), prev : 0 .. p1(k), expires : Nat]
<1> DEFINE L     == p2(k)
           W     == Window(k, now)
           start == L * W
           cur   == Windows(k, now).cur
           prev  == Windows(k, now).prev
           left  == start + L - now
           due   == now + 2 * L + TicksPerSec
<1>1. commit(k) = [w |-> W, cur |-> cur + 1, prev |-> prev, expires |-> due]
  BY DEF commit, Is
<1>2. /\ now \in Nat /\ L \in Nat /\ L >= 1 /\ p1(k) \in Nat /\ TicksPerSec \in Nat
      /\ cur \in 0 .. p1(k) /\ prev \in 0 .. p1(k)
  BY AdmittedSeq, Rule, WindowsCount
<1>3. /\ W \in 0 .. now /\ start \in Nat /\ start <= now /\ now < start + L
      /\ now % L = now - start
  <2>1. now \in Nat
    BY <1>2
  <2> QED
    BY <2>1, WindowBounds, Zenon
<1>4. prev * (L - (now % L)) + cur * L + L <= p1(k) * L
  BY DEF allowed, Is, Estimated
<1> HIDE DEF L, W, start, cur, prev
<1>5. L - (now % L) = left /\ left \in Nat
  BY <1>2, <1>3
<1> HIDE DEF left
<1>6. prev * left + cur * L + L <= p1(k) * L
  BY <1>4, <1>5
<1>7. /\ (cur + 1) * L = cur * L + L /\ cur * L \in Nat /\ prev * left \in Nat
  BY <1>2, <1>5
<1>8. prev * left + (cur + 1) * L <= p1(k) * L /\ (cur + 1) * L <= p1(k) * L
  <2>1. p1(k) * L \in Nat
    BY <1>2
  <2> QED
    BY <1>2, <1>6, <1>7, <2>1
<1>9. cur + 1 <= p1(k)
  <2>1. cur + 1 \in Int /\ p1(k) \in Int
    BY <1>2
  <2> QED
    BY <1>2, <1>8, <2>1, Cancel
<1>10. cur + 1 \in 1 .. p1(k)
  BY <1>2, <1>9
<1>11. due \in Nat /\ due >= start + 2 * L /\ due > now
  BY <1>2, <1>3
<1> QED
  BY <1>1, <1>2, <1>3, <1>8, <1>10, <1>11 DEF L, W, start, cur, prev, left

(* The requests of a request's own window, up to it.                         *)
Own(s, start, i) == {j \in 1 .. i : s[j] >= start}

LEMMA CounterPasses ==
  ASSUME Types, NEW k \in Keys, Is(k, "sliding-window-counter"), CounterInv(k), Passes(k)
  PROVE  CounterInv(k)'
<1>a. /\ now \in Nat /\ p2(k) \in Nat /\ p2(k) >= 1 /\ p1(k) \in Nat
      /\ p2(k)' = p2(k) /\ p1(k)' = p1(k) /\ CounterCounts(k) /\ CounterKept(k)
      /\ now' = now /\ store'[k] = commit(k) /\ allowed(k, now)
      /\ admitted'[k] = Append(admitted[k], now)
  BY AdmittedSeq, Rule DEF CounterInv, Passes, p1, p2
<1>b. PICK L \in Nat, W \in Nat, start \in Nat, cur \in Nat, prev \in Nat :
        /\ L = p2(k) /\ W = Window(k, now) /\ start = L * W
        /\ cur = Windows(k, now).cur /\ prev = Windows(k, now).prev
  <2>1. Window(k, now) \in 0 .. now /\ p2(k) * Window(k, now) \in Nat
    BY <1>a, WindowBounds, Zenon
  <2>2. Windows(k, now).cur \in 0 .. p1(k) /\ Windows(k, now).prev \in 0 .. p1(k)
    BY <1>a, WindowsCount, Zenon
  <2>3. /\ p2(k) \in Nat /\ Window(k, now) \in Nat /\ p2(k) * Window(k, now) \in Nat
        /\ Windows(k, now).cur \in Nat /\ Windows(k, now).prev \in Nat
    BY <1>a, <2>1, <2>2
  <2> QED
    BY <2>3, Zenon
<1>0. /\ L \in Nat /\ L >= 1 /\ W \in Nat /\ start \in Nat /\ start <= now /\ now < start + L
      /\ cur \in Nat /\ prev \in Nat /\ now \in Nat
  BY <1>a, <1>b, WindowBounds
<1>1. /\ cur = Passed(k, start, start + L - 1) /\ prev = Passed(k, start - L, start - 1)
  BY <1>a, <1>b, WindowsCount
<1>2. PICK s \in Seq(Nat), n \in Nat :
        /\ s = admitted[k] /\ n = Len(s)
        /\ DOMAIN s = 1 .. n /\ \A i \in 1 .. n : s[i] \in Nat /\ s[i] <= now
  BY AdmittedSeq
<1>4. /\ DOMAIN admitted'[k] = 1 .. n + 1 /\ admitted'[k][n + 1] = now
      /\ \A i \in 1 .. n : admitted'[k][i] = s[i]
  <2>1. /\ DOMAIN Append(s, now) = 1 .. n + 1 /\ Append(s, now)[n + 1] = now
        /\ \A i \in 1 .. n : Append(s, now)[i] = s[i]
    BY <1>0, <1>2
  <2> QED
    BY <1>a, <1>2, <2>1
<1>5. /\ prev * (start + L - now) + (cur + 1) * L <= p1(k) * L
      /\ store'[k].w = W /\ store'[k].cur = cur + 1 /\ store'[k].prev = prev
      /\ store'[k].expires >= start + 2 * L /\ store'[k].expires > now
  BY <1>a, <1>b, CounterCommit
<1>7. ASSUME NEW a \in Int, NEW b \in Int
      PROVE  Passed(k, a, b)' = Passed(k, a, b) + IF now \in a .. b THEN 1 ELSE 0
  BY PassedNow
<1>8. /\ Passed(k, start, start + L - 1)' = cur + 1
      /\ Passed(k, start - L, start - 1)' = prev
  <2>1. /\ now \in start .. start + L - 1 /\ now \notin start - L .. start - 1
        /\ start \in Int /\ start + L - 1 \in Int /\ start - L \in Int /\ start - 1 \in Int
    BY <1>0
  <2>2. Passed(k, start, start + L - 1)' = Passed(k, start, start + L - 1) + 1
    BY <1>7, <2>1
  <2>3. Passed(k, start - L, start - 1)' = Passed(k, start - L, start - 1) + 0
    BY <1>7, <2>1
  <2> QED
    BY <1>0, <1>1, <2>2, <2>3
<1>9. CounterCounts(k)'
  <2>1. ASSUME NEW i \in 1 .. n + 1 PROVE admitted'[k][i] < start + L
    <3>1. CASE i \in 1 .. n
      <4>1. s[i] \in Nat /\ s[i] <= now /\ admitted'[k][i] = s[i]
        BY <1>2, <1>4, <3>1
      <4> QED
        BY <1>0, <4>1
    <3>2. CASE i = n + 1
      BY <1>0, <1>4, <3>2
    <3>3. i \in 1 .. n \/ i = n + 1
      OBVIOUS
    <3> QED
      BY <3>1, <3>2, <3>3
  <2>2. Held(k)'
    <3>1. now \in Nat /\ store'[k].expires > now
      BY <1>0, <1>5
    <3> QED
      BY <3>1 DEF Held, Absent
  <2>3. /\ p2(k)' = L /\ L * store'[k].w = start /\ store'[k].w <= Window(k, now)'
    <3>1. Window(k, now)' = W
      BY <1>a, <1>b DEF Window
    <3> QED
      BY <1>a, <1>b, <1>0, <1>5, <3>1
  <2>4. /\ store'[k].cur = Passed(k, start, start + L - 1)'
        /\ store'[k].prev = Passed(k, start - L, start - 1)'
    BY <1>5, <1>8
  <2>5. \A i \in DOMAIN admitted'[k] : admitted'[k][i] < start + L
    BY <1>4, <2>1
  <2> QED
    BY <1>5, <2>2, <2>3, <2>4, <2>5 DEF CounterCounts
<1>10. ASSUME NEW i \in 1 .. n + 1
       PROVE  LET from == L * (admitted'[k][i] \div L) IN
              Cardinality(Within(admitted'[k], from - L, from - 1)) * (from + L - admitted'[k][i])
                + Cardinality(Own(admitted'[k], from, i)) * L <= p1(k) * L
  <2>1. CASE i \in 1 .. n
    <3> DEFINE from == L * (s[i] \div L)
    <3>1. admitted'[k][i] = s[i] /\ s[i] \in Nat /\ s[i] <= now
      BY <1>2, <1>4, <2>1
    <3>2. s[i] \div L \in Int /\ from \in Int /\ from <= s[i]
      <4>1. s[i] \in Int /\ L \in Nat /\ L >= 1
        BY <1>0, <3>1
      <4>2. s[i] \div L \in Int /\ L * (s[i] \div L) <= s[i]
        BY <4>1, Division, Zenon
      <4> QED
        BY <4>1, <4>2
    <3> HIDE DEF from
    <3>3. Cardinality(Within(admitted'[k], from - L, from - 1)) = Passed(k, from - L, from - 1)
      <4>1. /\ from - L \in Int /\ from - 1 \in Int /\ now \notin from - L .. from - 1
        <5>1. L \in Nat /\ now \in Nat /\ from \in Int /\ s[i] \in Nat /\ from <= s[i] /\ s[i] <= now
          BY <1>0, <3>1, <3>2
        <5> QED
          BY <5>1
      <4>2. Within(admitted'[k], from - L, from - 1) = Within(s, from - L, from - 1)
        <5>1. \A j \in 1 .. n + 1 : j \in 1 .. n \/ j = n + 1
          OBVIOUS
        <5>2. \A j \in 1 .. n : j \in 1 .. n + 1
          OBVIOUS
        <5>3. Within(admitted'[k], from - L, from - 1) =
                {j \in 1 .. n + 1 : admitted'[k][j] \in from - L .. from - 1}
          BY <1>4 DEF Within
        <5>4. Within(s, from - L, from - 1) = {j \in 1 .. n : s[j] \in from - L .. from - 1}
          BY <1>2 DEF Within
        <5>5. admitted'[k][n + 1] \notin from - L .. from - 1 /\ \A j \in 1 .. n : admitted'[k][j] = s[j]
          BY <1>4, <4>1
        <5> QED
          BY <5>1, <5>2, <5>3, <5>4, <5>5
      <4> QED
        BY <1>2, <4>2 DEF Passed, Within
    <3>4. Own(admitted'[k], from, i) = Own(s, from, i)
      <4>1. \A j \in 1 .. i : j \in 1 .. n
        BY <1>2, <2>1
      <4> QED
        BY <1>4, <4>1 DEF Own
    <3>5. Passed(k, from - L, from - 1) * (from + L - s[i]) + Cardinality(Own(s, from, i)) * L
            <= p1(k) * L
      BY <1>a, <1>b, <1>2, <2>1 DEF CounterKept, Own, from
    <3>6. Cardinality(Within(admitted'[k], from - L, from - 1)) * (from + L - s[i])
            + Cardinality(Own(admitted'[k], from, i)) * L <= p1(k) * L
      BY <3>3, <3>4, <3>5
    <3> QED
      BY <3>1, <3>6 DEF from
  <2>2. CASE i = n + 1
    <3>1. admitted'[k][i] = now /\ L * (now \div L) = start
      BY <1>b, <1>4, <2>2 DEF Window
    <3>2. Own(admitted'[k], start, i) = {j \in DOMAIN admitted'[k] : admitted'[k][j] \in start .. start + L - 1}
      <4>1. ASSUME NEW j \in 1 .. n + 1
            PROVE  admitted'[k][j] >= start <=> admitted'[k][j] \in start .. start + L - 1
        <5>1. CASE j \in 1 .. n
          <6>1. admitted'[k][j] \in Nat /\ admitted'[k][j] <= now
            BY <1>2, <1>4, <5>1
          <6> QED
            BY <1>0, <1>1, <6>1
        <5>2. CASE j = n + 1
          <6>1. admitted'[k][j] = now
            BY <1>4, <5>2
          <6> QED
            BY <1>0, <1>1, <6>1
        <5>3. j \in 1 .. n \/ j = n + 1
          OBVIOUS
        <5> QED
          BY <5>1, <5>2, <5>3
      <4> QED
        BY <1>4, <2>2, <4>1 DEF Own
    <3>3. Cardinality(Own(admitted'[k], start, i)) = cur + 1
      BY <1>8, <3>2 DEF Passed
    <3>4. /\ Cardinality(Within(admitted'[k], start - L, start - 1)) * (start + L - now)
               + Cardinality(Own(admitted'[k], start, i)) * L <= p1(k) * L
      <4>1. Cardinality(Within(admitted'[k], start - L, start - 1)) = prev
        BY <1>8 DEF Passed, Within
      <4> QED
        BY <1>5, <3>3, <4>1
    <3> QED
      BY <3>1, <3>4
  <2>3. i \in 1 .. n \/ i = n + 1
    OBVIOUS
  <2> QED
    BY <2>1, <2>2, <2>3
<1>11. CounterKept(k)'
  <2>1. p2(k)' = L /\ p1(k)' = p1(k)
    BY <1>a, <1>b
  <2> QED
    BY <1>4, <1>10, <2>1 DEF CounterKept, Passed, Within, Own
<1> QED
  BY <1>9, <1>11 DEF CounterInv

LEMMA CounterStep ==
  ASSUME Types, NEW k \in Keys, Is(k, "sliding-window-counter"), CounterInv(k),
         Passes(k) \/ Resets(k) \/ Ages(k) \/ Rests(k)
  PROVE  CounterInv(k)'
<1>0. PICK L \in Nat :
        /\ L = p2(k) /\ L = p2(k)' /\ L >= 1 /\ p1(k)' = p1(k)
        /\ now \in Nat /\ CounterCounts(k) /\ CounterKept(k)
  BY AdmittedSeq, Rule DEF CounterInv, p1, p2
<1>1. CASE Passes(k)
  BY <1>1, CounterPasses
<1>2. CASE Resets(k)
  <2>1. admitted'[k] = <<>> /\ ~Held(k)'
    BY <1>2 DEF Resets, Held
  <2>2. CounterCounts(k)'
    BY <2>1 DEF CounterCounts
  <2>3. CounterKept(k)'
    BY <2>1 DEF CounterKept
  <2> QED
    BY <2>2, <2>3 DEF CounterInv
<1>3. ASSUME admitted'[k] = admitted[k] PROVE CounterKept(k)'
  BY <1>0, <1>3 DEF CounterKept, Passed
<1>4. CASE Ages(k)
  <2>1. now' = now + 1 /\ admitted'[k] = admitted[k]
        /\ store'[k] = IF store[k].expires > now + 1 THEN store[k] ELSE Absent
    BY <1>4 DEF Ages
  <2>2. PICK W \in Nat, V \in Nat :
          /\ W = Window(k, now) /\ V = Window(k, now + 1) /\ V = Window(k, now)'
          /\ W <= V /\ L * W <= L * V
    <3>1. now + 1 \in Nat
      BY <1>0
    <3>2. Window(k, now) \in 0 .. now /\ Window(k, now) <= Window(k, now + 1)
          /\ p2(k) * Window(k, now) <= p2(k) * Window(k, now + 1)
      BY <1>0, WindowBounds, Zenon
    <3>3. Window(k, now + 1) \in 0 .. now + 1
      BY <3>1, WindowBounds, Zenon
    <3>4. Window(k, now) \in Nat /\ Window(k, now + 1) \in Nat
      BY <1>0, <3>2, <3>3
    <3>5. Window(k, now)' = Window(k, now + 1)
      BY <1>0, <2>1 DEF Window
    <3> QED
      BY <1>0, <3>2, <3>4, <3>5
  <2>3. L * W \in Nat /\ L * V \in Nat /\ L \in Nat /\ now \in Nat
    BY <1>0
  <2>4. \A i \in DOMAIN admitted[k] : admitted[k][i] \in Nat
    BY AdmittedSeq
  <2>5. CASE ~Held(k)
    <3>1. ~Held(k)'
      BY <2>1, <2>5 DEF Held
    <3>2. ASSUME NEW i \in DOMAIN admitted[k] PROVE admitted[k][i] < L * V - L
      <4>1. admitted[k][i] < L * W - L /\ admitted[k][i] \in Nat
        BY <1>0, <2>2, <2>4, <2>5 DEF CounterCounts
      <4> QED
        BY <2>2, <2>3, <4>1
    <3> QED
      BY <1>0, <1>3, <2>1, <2>2, <3>1, <3>2 DEF CounterInv, CounterCounts
  <2>6. CASE Held(k)
    <3>1. PICK w \in Nat :
            /\ w = store[k].w /\ w <= W /\ store[k].expires \in Nat
            /\ store[k].expires >= L * w + 2 * L
            /\ \A i \in DOMAIN admitted[k] : admitted[k][i] < L * w + L
            /\ store[k].cur = Passed(k, L * w, L * w + L - 1)
            /\ store[k].prev = Passed(k, L * w - L, L * w - 1)
      BY <1>0, <2>2, <2>6, CounterStored DEF CounterCounts
    <3>0. L * w \in Nat
      OBVIOUS
    <3>2. CASE Held(k)'
      <4>1. store'[k] = store[k]
        BY <2>1, <3>2 DEF Held
      <4>2. w <= V
        BY <2>2, <3>1
      <4>3. \A a, b \in Int : Passed(k, a, b)' = Passed(k, a, b)
        BY <2>1 DEF Passed
      <4>5. CounterCounts(k)'
        <5>1. L * w \in Int /\ L * w + L - 1 \in Int /\ L * w - L \in Int /\ L * w - 1 \in Int
          BY <1>0, <3>0
        <5>2. store'[k].cur = Passed(k, L * w, L * w + L - 1)' /\ store'[k].prev = Passed(k, L * w - L, L * w - 1)'
          BY <3>1, <4>1, <4>3, <5>1
        <5> QED
          BY <1>0, <2>1, <2>2, <3>1, <3>2, <4>1, <4>2, <5>2 DEF CounterCounts
      <4> QED
        BY <1>3, <2>1, <4>5 DEF CounterInv
    <3>3. CASE ~Held(k)'
      <4>1. ~(store[k].expires > now + 1)
        BY <2>1, <2>6, <3>3 DEF Held
      <4>2. L * w + L + L <= now + 1 /\ L * (w + 2) = L * w + L + L
        BY <1>0, <3>0, <3>1, <4>1
      <4>3. w + 2 <= V
        <5>1. now + 1 \in Int /\ w + 2 \in Int /\ L * (w + 2) <= now + 1
          BY <1>0, <3>0, <4>2
        <5> QED
          BY <1>0, <2>2, <5>1, Quotient DEF Window
      <4>4. L * (w + 2) <= L * V
        BY <1>0, <2>3, <3>1, <4>3
      <4>5. ASSUME NEW i \in DOMAIN admitted[k] PROVE admitted[k][i] < L * V - L
        <5>1. admitted[k][i] \in Nat /\ admitted[k][i] < L * w + L
          BY <2>4, <3>1
        <5>2. L * w + L <= L * V - L
          BY <2>3, <3>0, <4>2, <4>4
        <5> QED
          BY <2>3, <3>0, <5>1, <5>2
      <4> QED
        BY <1>0, <1>3, <2>1, <2>2, <3>3, <4>5 DEF CounterInv, CounterCounts
    <3> QED
      BY <3>2, <3>3
  <2> QED
    BY <2>5, <2>6
<1>5. CASE Rests(k)
  <2>1. now' = now /\ store'[k] = store[k] /\ admitted'[k] = admitted[k]
    BY <1>5 DEF Rests
  <2>2. CounterCounts(k)'
    BY <1>0, <2>1 DEF CounterCounts, Held, Passed, Window
  <2> QED
    BY <1>3, <2>1, <2>2 DEF CounterInv
<1> QED
  BY <1>1, <1>2, <1>4, <1>5

----------------------------------------------------------------------------
(* The invariant.                                                           *)

LEMMA InitInv == Init => Inv
<1> SUFFICES ASSUME Init PROVE Inv
  OBVIOUS
<1>0. /\ rules \in Lists /\ now = 0 /\ Horizon \in Nat
      /\ store = [k \in Keys |-> Absent] /\ admitted = [k \in Keys |-> <<>>]
  BY RateLimitAssumption DEF Init, RateLimitAssumption
<1>1. Types
  BY <1>0 DEF Types
<1>2. ASSUME NEW k \in Keys
      PROVE  /\ Ordered(admitted[k])
             /\ Is(k, "token-bucket") => BucketInv(k)
             /\ Is(k, "fixed-window") => WindowInv(k)
             /\ Is(k, "sliding-window-log") => LogInv(k)
             /\ Is(k, "sliding-window-counter") => CounterInv(k)
  <2>0. admitted[k] = <<>> /\ DOMAIN admitted[k] = {} /\ ~Held(k) /\ Len(admitted[k]) = 0
    BY <1>0 DEF Held
  <2>1. \A a \in Int, b \in Int : Passed(k, a, b) = 0
    BY <2>0, FS_EmptySet DEF Passed
  <2>2. Ordered(admitted[k])
    BY <2>0 DEF Ordered
  <2>3. ASSUME Is(k, "token-bucket") PROVE BucketInv(k)
    <3>1. Tokens(k, now) = p1(k) /\ p1(k) \in Nat /\ p2(k) \in Nat /\ Parts \in Nat
      BY <1>1, <2>0, <2>3, Bucket, Rule
    <3>2. BucketLives(k)
      BY <2>0 DEF BucketLives
    <3>3. BucketCovers(k)
      BY <1>0, <2>1, <3>1 DEF BucketCovers
    <3>4. BucketKept(k)
      BY <1>0, <2>1, <3>1 DEF BucketKept
    <3> QED
      BY <3>2, <3>3, <3>4 DEF BucketInv
  <2>4. WindowInv(k)
    <3>1. Starts(k, {}) /\ InLast(k, {})
      BY <2>0 DEF Starts, InLast
    <3> QED
      BY <3>1 DEF WindowInv
  <2>5. LogInv(k)
    <3>1. LogEnds(k)
      BY <2>0 DEF LogEnds
    <3>2. LogKept(k)
      BY <1>0, <2>1, Rule DEF LogKept
    <3> QED
      BY <3>1, <3>2 DEF LogInv
  <2>6. CounterInv(k)
    BY <2>0 DEF CounterInv, CounterCounts, CounterKept
  <2> QED
    BY <2>2, <2>3, <2>4, <2>5, <2>6
<1> QED
  BY <1>1, <1>2 DEF Inv, RuleInv

LEMMA OrderedStep ==
  ASSUME Types, NEW k \in Keys, Ordered(admitted[k]),
         Passes(k) \/ Resets(k) \/ Ages(k) \/ Rests(k)
  PROVE  Ordered(admitted[k])'
<1>1. CASE Passes(k)
  <2>1. PICK s \in Seq(Nat), n \in Nat :
          /\ s = admitted[k] /\ n = Len(s) /\ now \in Nat
          /\ DOMAIN s = 1 .. n /\ \A i \in 1 .. n : s[i] \in Nat /\ s[i] <= now
    BY AdmittedSeq
  <2>2. /\ DOMAIN Append(s, now) = 1 .. n + 1 /\ Append(s, now)[n + 1] = now
        /\ \A i \in 1 .. n : Append(s, now)[i] = s[i]
    BY <2>1
  <2>3. ASSUME NEW i \in 1 .. n + 1, NEW j \in 1 .. n + 1, i <= j
        PROVE  Append(s, now)[i] <= Append(s, now)[j]
    <3>1. CASE j \in 1 .. n
      <4>1. i \in 1 .. n
        BY <2>3, <3>1
      <4> QED
        BY <2>1, <2>2, <2>3, <3>1, <4>1 DEF Ordered
    <3>2. CASE j = n + 1
      <4>1. i \in 1 .. n \/ i = n + 1
        OBVIOUS
      <4> QED
        BY <2>1, <2>2, <3>2, <4>1
    <3>3. j \in 1 .. n \/ j = n + 1
      OBVIOUS
    <3> QED
      BY <3>1, <3>2, <3>3
  <2> QED
    BY <1>1, <2>1, <2>2, <2>3 DEF Ordered, Passes
<1>2. CASE Resets(k)
  BY <1>2 DEF Ordered, Resets
<1>3. CASE Ages(k) \/ Rests(k)
  BY <1>3 DEF Ordered, Ages, Rests
<1> QED
  BY <1>1, <1>2, <1>3

(* What a key may hold holds again, one tick later as well.                  *)
LEMMA StoredLater ==
  ASSUME Types, NEW k \in Keys, store[k] \in Stored(k), now' = now \/ now' = now + 1
  PROVE  store[k] \in Stored(k)'
<1>0. 0 .. now \in SUBSET (0 .. now') /\ now \in Nat
  BY DEF Types
<1>1. CASE Is(k, "token-bucket")
  BY <1>0, <1>1 DEF Stored, Is, p1
<1>2. CASE Is(k, "fixed-window")
  BY <1>2 DEF Stored, Is, p1
<1>3. CASE Is(k, "sliding-window-log")
  <2>1. PICK n \in 1 .. p1(k) : store[k].log \in [1 .. n -> 0 .. now]
    BY <1>3 DEF Stored, Is
  <2>2. store[k].log \in [1 .. n -> 0 .. now']
    BY <1>0, <2>1
  <2>3. store[k] \in [log : UNION {[1 .. i -> 0 .. now'] : i \in 1 .. p1(k)}, expires : Nat]
    BY <1>3, <2>1, <2>2 DEF Stored, Is
  <2> QED
    BY <1>3, <2>3 DEF Stored, Is, p1
<1>4. CASE Is(k, "sliding-window-counter")
  BY <1>0, <1>4 DEF Stored, Is, p1
<1> QED
  BY <1>1, <1>2, <1>3, <1>4, Rule

LEMMA KeyTypes ==
  ASSUME Types, NEW k \in Keys,
         Ordered(admitted[k]),
         Is(k, "sliding-window-log") => LogInv(k),
         Is(k, "sliding-window-counter") => CounterInv(k),
         Passes(k) \/ Resets(k) \/ Ages(k) \/ Rests(k)
  PROVE  /\ store'[k] = Absent \/ (store'[k] \in Stored(k)' /\ store'[k].expires > now')
         /\ admitted'[k] \in Seq(0 .. now')
<1>0. /\ now \in Nat /\ admitted[k] \in Seq(0 .. now)
      /\ store[k] = Absent \/ (store[k] \in Stored(k) /\ store[k].expires > now)
  BY DEF Types
<1>1. CASE Passes(k)
  <2>0. /\ now' = now /\ store'[k] = commit(k) /\ allowed(k, now)
        /\ admitted'[k] = Append(admitted[k], now)
    BY <1>1 DEF Passes
  <2>1. commit(k) \in Stored(k) /\ commit(k).expires > now
    <3>1. CASE Is(k, "token-bucket")
      BY <2>0, <3>1, BucketCommit DEF Stored, Is
    <3>2. CASE Is(k, "fixed-window")
      BY <2>0, <3>2, FixedCommit DEF Stored, Is
    <3>3. CASE Is(k, "sliding-window-log")
      BY <2>0, <3>3, LogCommit DEF Stored, Is, LogInv
    <3>4. CASE Is(k, "sliding-window-counter")
      BY <2>0, <3>4, CounterCommit DEF Stored, Is, CounterInv
    <3> QED
      BY <3>1, <3>2, <3>3, <3>4, Rule
  <2>2. Stored(k)' = Stored(k)
    BY <2>0 DEF Stored, Is, p1
  <2>3. now \in 0 .. now /\ Append(admitted[k], now) \in Seq(0 .. now)
    BY <1>0, AppendProperties
  <2> QED
    BY <2>0, <2>1, <2>2, <2>3
<1>2. CASE Resets(k)
  BY <1>2 DEF Resets
<1>3. CASE Ages(k)
  <2>1. now' = now + 1 /\ admitted'[k] = admitted[k]
        /\ store'[k] = IF store[k].expires > now + 1 THEN store[k] ELSE Absent
    BY <1>3 DEF Ages
  <2>2. admitted'[k] \in Seq(0 .. now')
    <3>1. 0 .. now \in SUBSET (0 .. now')
      BY <1>0, <2>1
    <3> QED
      BY <1>0, <2>1, <3>1
  <2>3. CASE store[k].expires > now + 1
    <3>1. store[k] # Absent
      BY <1>0, <2>3 DEF Absent
    <3>2. store[k] \in Stored(k)'
      BY <1>0, <2>1, <3>1, StoredLater
    <3> QED
      BY <2>1, <2>2, <2>3, <3>2
  <2> QED
    BY <2>1, <2>2, <2>3
<1>4. CASE Rests(k)
  <2>1. now' = now /\ store'[k] = store[k] /\ admitted'[k] = admitted[k]
    BY <1>4 DEF Rests
  <2>2. Stored(k)' = Stored(k)
    BY <2>1 DEF Stored, Is, p1
  <2> QED
    BY <1>0, <2>1, <2>2
<1> QED
  BY <1>1, <1>2, <1>3, <1>4

LEMMA InvStep == Inv /\ [Next]_vars => Inv'
<1> SUFFICES ASSUME Inv, [Next]_vars PROVE Inv'
  OBVIOUS
<1>0. Types
  BY DEF Inv, RuleInv
<1>1. /\ rules' \in Lists /\ now' \in Nat /\ now' <= Horizon
      /\ store' = [k \in Keys |-> store'[k]] /\ admitted' = [k \in Keys |-> admitted'[k]]
  <2>0. /\ rules \in Lists /\ now \in Nat /\ now <= Horizon /\ Horizon \in Nat
        /\ store = [k \in Keys |-> store[k]] /\ admitted = [k \in Keys |-> admitted[k]]
    BY <1>0, RateLimitAssumption DEF Types, RateLimitAssumption
  <2>1. ASSUME NEW list \in Requests, attempt(list) PROVE <1>1!:
    BY <2>0, <2>1 DEF attempt
  <2>2. ASSUME NEW k \in KeysOf(rules), reset(k) PROVE <1>1!:
    BY <2>0, <2>2 DEF reset
  <2>3. ASSUME Tick PROVE <1>1!:
    BY <2>0, <2>3 DEF Tick
  <2>4. UNCHANGED vars => <1>1!:
    BY <2>0 DEF vars
  <2> QED
    BY <2>1, <2>2, <2>3, <2>4 DEF Next
<1>2. ASSUME NEW k \in Keys
      PROVE  /\ store'[k] = Absent \/ (store'[k] \in Stored(k)' /\ store'[k].expires > now')
             /\ admitted'[k] \in Seq(0 .. now')
             /\ Ordered(admitted[k])'
             /\ Is(k, "token-bucket") => BucketInv(k)'
             /\ Is(k, "fixed-window") => WindowInv(k)'
             /\ Is(k, "sliding-window-log") => LogInv(k)'
             /\ Is(k, "sliding-window-counter") => CounterInv(k)'
  <2>1. Passes(k) \/ Resets(k) \/ Ages(k) \/ Rests(k)
    BY <1>0, Kinds
  <2>2. /\ Ordered(admitted[k])
        /\ Is(k, "token-bucket") => BucketInv(k)
        /\ Is(k, "fixed-window") => WindowInv(k)
        /\ Is(k, "sliding-window-log") => LogInv(k)
        /\ Is(k, "sliding-window-counter") => CounterInv(k)
    BY DEF Inv, RuleInv
  <2>3. /\ store'[k] = Absent \/ (store'[k] \in Stored(k)' /\ store'[k].expires > now')
        /\ admitted'[k] \in Seq(0 .. now')
    BY <1>0, <2>1, <2>2, KeyTypes
  <2> QED
    BY <1>0, <2>1, <2>2, <2>3, OrderedStep, BucketStep, WindowStep, LogStep, CounterStep
<1>3. Types'
  BY <1>1, <1>2 DEF Types
<1> QED
  BY <1>2, <1>3 DEF Inv, RuleInv, Is

LEMMA Invariance == Spec => []Inv
<1>1. Init => Inv
  BY InitInv
<1>2. Inv /\ [Next]_vars => Inv'
  BY InvStep
<1> QED
  BY <1>1, <1>2, PTL DEF Spec

(* The state is well formed: whatever passed, expired and was pruned before, *)
(* no rule stores more than its limit (RATE_LIMIT_SCRIPT's commits).         *)
THEOREM TypeCorrect == Spec => []TypeOK
<1>1. Inv => TypeOK
  BY DEF Inv, Types, TypeOK
<1> QED
  BY <1>1, Invariance, PTL

(* No rule lets more requests pass than it says: a bucket its capacity and   *)
(* what was refilled, a fixed window and any window of the log the limit, and *)
(* a request that the counters let pass what the weighted windows have left.  *)
THEOREM NeverOver == Spec => []NeverOverLimit
<1>1. Inv => NeverOverLimit
  <2> SUFFICES ASSUME Inv, NEW k \in Keys
               PROVE  CASE Is(k, "token-bucket")           -> BucketKept(k)
                        [] Is(k, "fixed-window")           -> WindowKept(k)
                        [] Is(k, "sliding-window-log")     -> LogKept(k)
                        [] Is(k, "sliding-window-counter") -> CounterKept(k)
    BY DEF NeverOverLimit
  <2>1. /\ Is(k, "token-bucket") => BucketKept(k)
        /\ Is(k, "fixed-window") => WindowKept(k)
        /\ Is(k, "sliding-window-log") => LogKept(k)
        /\ Is(k, "sliding-window-counter") => CounterKept(k)
    BY DEF Inv, RuleInv, BucketInv, WindowInv, LogInv, CounterInv, WindowKept
  <2> QED
    BY <2>1, Rule DEF Is
<1> QED
  BY <1>1, Invariance, PTL

----------------------------------------------------------------------------
(* Answers.  A rule that rejects tells after how many seconds it would let   *)
(* the caller in; a rule that would let it in goes on doing so.              *)

LEMMA CeilingLeast ==
  ASSUME NEW a \in Int, NEW b \in Nat, b >= 1, NEW s \in Int
  PROVE  /\ CeilDiv(a, b) \in Int
         /\ s >= CeilDiv(a, b) <=> s * b >= a
         /\ a >= 1 => CeilDiv(a, b) >= 1
<1> DEFINE q == (-a) \div b
<1>1. q \in Int /\ b * q <= -a
  BY Division
<1>2. CeilDiv(a, b) = -q
  BY DEF CeilDiv
<1> HIDE DEF q
<1>3. ASSUME s >= -q PROVE s * b >= a
  <2>1. b * (s + q) >= 0 /\ b * (s + q) = s * b + b * q
    BY <1>1, <1>3
  <2> QED
    BY <1>1, <2>1
<1>4. ASSUME s * b >= a PROVE s >= -q
  <2>1. b * (-s) = -(s * b)
    OBVIOUS
  <2>2. b * (-s) <= -a
    BY <1>4, <2>1
  <2>3. -s <= q
    BY <2>2, Quotient DEF q
  <2> QED
    BY <1>1, <2>3
<1>5. a >= 1 => -q >= 1
  <2> SUFFICES ASSUME a >= 1, q >= 0 PROVE FALSE
    BY <1>1
  <2>1. b * q >= 0
    BY <1>1
  <2> QED
    BY <1>1, <2>1
<1> QED
  BY <1>1, <1>2, <1>3, <1>4, <1>5

(* The assumption of the theorem: a bucket has room for a whole token.      *)
WholeTokens == \A k \in Keys : Is(k, "token-bucket") => p1(k) >= Parts

(* From wait seconds on, and not earlier, the rule lets a request pass.      *)
LetsInAfter(k, wait) ==
  /\ wait \in Nat /\ wait >= 1
  /\ \A s \in Nat : allowed(k, now + s * TicksPerSec) <=> s >= wait

LetsInFromNow(k) == \A s \in Nat : allowed(k, now + s * TicksPerSec)

LEMMA TokensAt ==
  ASSUME NEW k \in Keys, NEW at \in Nat
  PROVE  /\ store[k].expires > at =>
              Tokens(k, at) = MinOf(p1(k), store[k].tokens + MaxOf(0, at - store[k].ts) * p2(k))
         /\ ~(store[k].expires > at) => Tokens(k, at) = p1(k)
  BY Zenon DEF Tokens, Alive

LEMMA BucketLater ==
  ASSUME Types, NEW k \in Keys, Is(k, "token-bucket"), BucketLives(k), p1(k) >= Parts,
         NEW d \in Nat
  PROVE  allowed(k, now + d) <=> Tokens(k, now) + d * p2(k) >= Parts
<1>0. /\ now \in Nat /\ p1(k) \in Nat /\ p2(k) \in Nat /\ Parts \in Nat /\ Parts >= 1
      /\ Tokens(k, now) \in 0 .. p1(k) /\ d * p2(k) \in Nat
  BY Bucket, Rule
<1>1. allowed(k, now + d) <=> Tokens(k, now + d) >= Parts
  BY DEF allowed, Is
<1>2. CASE ~Held(k)
  <2>1. Tokens(k, now) = p1(k)
    BY <1>2, Bucket
  <2>2. Tokens(k, now + d) = p1(k)
    BY <1>0, <1>2 DEF Tokens, Alive, Held, Absent
  <2> QED
    BY <1>0, <1>1, <2>1, <2>2
<1>3. CASE Held(k)
  <2> DEFINE t == store[k].tokens  e == store[k].expires  b == store[k].ts
             L == p2(k)
             x == (now - b) * L
             y == d * L
  <2>1. t \in Nat /\ b \in Nat /\ b <= now /\ e \in Nat /\ e > now /\ t <= p1(k)
    BY <1>0, <1>3, Bucket
  <2>2. Tokens(k, now) = MinOf(p1(k), t + x)
    BY <1>3, Bucket
  <2>3. x \in Nat /\ y \in Nat
    BY <1>0, <2>1
  <2>4. ((now + d) - b) * L = x + y
    BY <1>0, <2>1
  <2>5. CASE e > now + d
    <3>1. Tokens(k, now + d) = MinOf(p1(k), t + MaxOf(0, (now + d) - b) * L)
      <4>1. now + d \in Nat
        BY <1>0
      <4> QED
        BY <2>5, <4>1, TokensAt, Zenon
    <3>2. MaxOf(0, (now + d) - b) = (now + d) - b
      BY <1>0, <2>1 DEF MaxOf
    <3>3. Tokens(k, now + d) = MinOf(p1(k), t + (x + y))
      BY <2>4, <3>1, <3>2
    <3> HIDE DEF t, x, y, L
    <3>4. Tokens(k, now + d) >= Parts <=> t + x + y >= Parts
      BY <1>0, <2>1, <2>3, <3>3 DEF MinOf
    <3>5. Tokens(k, now) + y >= Parts <=> t + x + y >= Parts
      BY <1>0, <2>1, <2>2, <2>3 DEF MinOf
    <3> QED
      BY <1>1, <3>4, <3>5 DEF y, L
  <2>6. CASE ~(e > now + d)
    <3>1. Tokens(k, now + d) = p1(k)
      BY <2>6 DEF Tokens, Alive
    <3>2. t + (e - b) * L >= p1(k)
      BY <1>3 DEF BucketLives
    <3>3. ((now + d) - b) * L >= (e - b) * L
      BY <1>0, <2>1, <2>6
    <3>4. t + (x + y) >= p1(k)
      <4>1. (e - b) * L \in Int
        BY <1>0, <2>1
      <4> HIDE DEF t, x, y, L, e, b
      <4> QED
        BY <1>0, <2>1, <2>3, <2>4, <3>2, <3>3, <4>1
    <3> HIDE DEF t, x, y, L
    <3>5. Tokens(k, now) + y >= Parts
      BY <1>0, <2>1, <2>2, <2>3, <3>4 DEF MinOf
    <3> QED
      BY <1>0, <1>1, <3>1, <3>5 DEF y, L
  <2> QED
    BY <2>5, <2>6
<1> QED
  BY <1>2, <1>3

LEMMA BucketWaits ==
  ASSUME Types, NEW k \in Keys, Is(k, "token-bucket"), BucketLives(k), p1(k) >= Parts
  PROVE  IF allowed(k, now) THEN LetsInFromNow(k) ELSE LetsInAfter(k, retry(k, now))
<1> DEFINE t == Tokens(k, now)
           L == p2(k)
           T == TicksPerSec
<1>0. /\ t \in Nat /\ L \in Nat /\ L >= 1 /\ T \in Nat /\ T >= 1 /\ Parts \in Nat /\ now \in Nat
  BY Bucket, Rule
<1>1. \A s \in Nat : s * T \in Nat
  BY <1>0
<1>2. ASSUME NEW s \in Nat
      PROVE  allowed(k, now + s * T) <=> t + (s * T) * L >= Parts
  <2>1. s * T \in Nat
    BY <1>1
  <2> HIDE DEF t, L, T
  <2> QED
    BY <2>1, BucketLater DEF t, L
<1>3. allowed(k, now) <=> t >= Parts
  BY DEF allowed, Is
<1>4. CASE allowed(k, now)
  <2>1. \A s \in Nat : (s * T) * L \in Nat
    BY <1>0
  <2>2. \A s \in Nat : t + (s * T) * L >= Parts
    BY <1>0, <1>3, <1>4, <2>1
  <2> HIDE DEF t, L, T
  <2> QED
    BY <1>2, <1>4, <2>2 DEF LetsInFromNow, T
<1>5. CASE ~allowed(k, now)
  <2> DEFINE a == Parts - t
             b == L * T
             r == CeilDiv(a, b)
  <2>1. retry(k, now) = r
    BY DEF retry, Is
  <2>2. a \in Int /\ a >= 1 /\ b \in Nat /\ b >= 1
    BY <1>0, <1>3, <1>5
  <2>3. \A s \in Nat : t + (s * T) * L >= Parts <=> s * b >= a
    <3> SUFFICES ASSUME NEW s \in Nat PROVE t + (s * T) * L >= Parts <=> s * b >= a
      OBVIOUS
    <3>1. (s * T) * L = s * (L * T) /\ (s * T) * L \in Nat
      BY <1>0
    <3> HIDE DEF t, L, T
    <3> QED
      BY <1>0, <3>1
  <2> HIDE DEF a, b
  <2>4. r \in Int /\ r >= 1
    BY <2>2, CeilingLeast
  <2>6. \A s \in Nat : s * b >= a <=> s >= r
    <3> SUFFICES ASSUME NEW s \in Nat PROVE s * b >= a <=> s >= r
      OBVIOUS
    <3>1. s \in Int
      OBVIOUS
    <3> QED
      BY <2>2, <3>1, CeilingLeast, Zenon
  <2> HIDE DEF t, L, T, r
  <2>5. r \in Nat
    BY <2>4
  <2> QED
    BY <1>2, <1>5, <2>1, <2>3, <2>4, <2>5, <2>6 DEF LetsInAfter, T
<1> QED
  BY <1>4, <1>5

LEMMA SecondsLeast ==
  ASSUME NEW left \in Int, left >= 1, TicksPerSec \in Nat, TicksPerSec >= 1
  PROVE  /\ MaxOf(1, Seconds(left)) \in Nat /\ MaxOf(1, Seconds(left)) >= 1
         /\ \A s \in Nat : s * TicksPerSec >= left <=> s >= MaxOf(1, Seconds(left))
<1> DEFINE r == CeilDiv(left, TicksPerSec)
<1>1. r \in Int /\ r >= 1
  BY CeilingLeast
<1>2. \A s \in Nat : s * TicksPerSec >= left <=> s >= r
  <2> SUFFICES ASSUME NEW s \in Nat PROVE s * TicksPerSec >= left <=> s >= r
    OBVIOUS
  <2>1. s \in Int
    OBVIOUS
  <2> QED
    BY <2>1, CeilingLeast, Zenon
<1>3. MaxOf(1, Seconds(left)) = r
  <2> HIDE DEF r
  <2>1. MaxOf(1, r) = r
    BY <1>1 DEF MaxOf
  <2> QED
    BY <2>1 DEF Seconds, r
<1> HIDE DEF r
<1> QED
  BY <1>1, <1>2, <1>3

(* A rule that rejects until an instant, and says so. *)
LEMMA EndsAt ==
  ASSUME Types, NEW k \in Keys, NEW end \in Int, end > now,
         \A at \in Nat : at >= now => (allowed(k, at) <=> at >= end),
         retry(k, now) = MaxOf(1, Seconds(end - now))
  PROVE  LetsInAfter(k, retry(k, now))
<1> DEFINE T == TicksPerSec
           r == MaxOf(1, Seconds(end - now))
<1>1. /\ now \in Nat /\ T \in Nat /\ T >= 1 /\ end - now \in Int /\ end - now >= 1
  BY Rule DEF Types
<1>2. /\ r \in Nat /\ r >= 1
      /\ \A s \in Nat : s * T >= end - now <=> s >= r
  BY <1>1, SecondsLeast
<1> HIDE DEF r
<1>3. ASSUME NEW s \in Nat
      PROVE  allowed(k, now + s * T) <=> s >= r
  <2>1. s * T \in Nat
    BY <1>1
  <2> DEFINE w == s * T
  <2>2. w >= end - now <=> s >= r
    BY <1>2
  <2> HIDE DEF w
  <2>3. now + w \in Nat /\ now + w >= now
    BY <1>1, <2>1 DEF w
  <2>4. allowed(k, now + w) <=> now + w >= end
    BY <2>3
  <2> QED
    BY <1>1, <2>1, <2>2, <2>4 DEF w
<1> QED
  BY <1>2, <1>3 DEF LetsInAfter, r

LEMMA StaysIn ==
  ASSUME Types, NEW k \in Keys,
         \A at \in Nat : at >= now => allowed(k, at)
  PROVE  LetsInFromNow(k)
<1> SUFFICES ASSUME NEW s \in Nat PROVE allowed(k, now + s * TicksPerSec)
  BY DEF LetsInFromNow
<1>1. now \in Nat /\ s * TicksPerSec \in Nat
  BY Rule DEF Types
<1> DEFINE w == s * TicksPerSec
<1> HIDE DEF w
<1>2. now + w \in Nat /\ now + w >= now
  BY <1>1 DEF w
<1>3. allowed(k, now + w)
  BY <1>2
<1> QED
  BY <1>3 DEF w

LEMMA FixedWaits ==
  ASSUME Types, NEW k \in Keys, Is(k, "fixed-window")
  PROVE  IF allowed(k, now) THEN LetsInFromNow(k) ELSE LetsInAfter(k, retry(k, now))
<1> DEFINE n == store[k].count  e == store[k].expires
<1>0. now \in Nat /\ p1(k) \in Nat /\ p1(k) >= 1
  BY Rule DEF Types
<1>1. \A at : allowed(k, at) <=> Count(k, at) < p1(k)
  BY DEF allowed, Is
<1>2. CASE ~Held(k)
  <2>1. \A at \in Nat : Count(k, at) = 0
    BY <1>2 DEF Count, Alive, Held, Absent
  <2>2. \A at \in Nat : allowed(k, at)
    BY <1>0, <1>1, <2>1
  <2> QED
    BY <1>0, <2>2, StaysIn
<1>3. CASE Held(k)
  <2>1. n \in Nat /\ e \in Nat /\ e > now
    BY <1>3 DEF Types, Held, Stored, Is
  <2>2. \A at \in Nat : Count(k, at) = IF e > at THEN n ELSE 0
    BY DEF Count, Alive
  <2>3. \A at \in Nat : allowed(k, at) <=> n < p1(k) \/ at >= e
    BY <1>0, <1>1, <2>1, <2>2
  <2>4. CASE n < p1(k)
    <3>1. \A at \in Nat : allowed(k, at)
      BY <2>3, <2>4
    <3> QED
      BY <1>0, <3>1, StaysIn
  <2>5. CASE ~(n < p1(k))
    <3>1. \A at \in Nat : at >= now => (allowed(k, at) <=> at >= e)
      BY <2>3, <2>5
    <3>2. ~allowed(k, now)
      BY <1>0, <2>1, <3>1
    <3>3. retry(k, now) = MaxOf(1, Seconds(e - now))
      BY DEF retry, Is
    <3>4. LetsInAfter(k, retry(k, now))
      <4>1. e \in Int
        BY <2>1
      <4> QED
        BY <2>1, <3>1, <3>3, <4>1, EndsAt
    <3> QED
      BY <3>2, <3>4
  <2> QED
    BY <2>4, <2>5
<1> QED
  BY <1>2, <1>3

LEMMA LogOrdered ==
  ASSUME Types, NEW k \in Keys, Is(k, "sliding-window-log"), Ordered(admitted[k]), LogEnds(k),
         Held(k)
  PROVE  Ordered(store[k].log)
<1> DEFINE log == store[k].log
           n   == Len(admitted[k])
           b   == n - Len(log)
<1>1. /\ log \in Seq(Nat) /\ Len(log) \in Nat /\ DOMAIN log = 1 .. Len(log)
  BY LogStored
<1>2. /\ b \in Nat
      /\ \A i \in 1 .. Len(log) : log[i] = admitted[k][b + i]
  BY <1>1 DEF LogEnds
<1>3. n \in Nat /\ Len(log) \in Nat /\ b \in Nat /\ b + Len(log) = n
  BY <1>1, <1>2, AdmittedSeq
<1> HIDE DEF n, b
<1>4. ASSUME NEW i \in 1 .. Len(log), NEW j \in 1 .. Len(log), i <= j
      PROVE  log[i] <= log[j]
  <2>1. b + i \in 1 .. n /\ b + j \in 1 .. n /\ b + i <= b + j
    BY <1>3, <1>4
  <2>2. admitted[k][b + i] <= admitted[k][b + j]
    BY <2>1, AdmittedSeq DEF Ordered, n
  <2> QED
    BY <1>2, <2>2
<1> QED
  BY <1>1, <1>4 DEF Ordered

(* A log rejects while it is full of entries that are not old.               *)
LEMMA LogAt ==
  ASSUME Types, NEW k \in Keys, Is(k, "sliding-window-log"), Ordered(admitted[k]), LogEnds(k),
         Held(k), NEW at \in Nat
  PROVE  LET log == store[k].log  recent == Recent(k, at) IN
         /\ allowed(k, at) <=> Len(log) < p1(k) \/ at >= log[1] + p2(k)
         /\ ~allowed(k, at) => Len(recent) = Len(log) /\ recent[1] = log[1]
<1> DEFINE log == store[k].log
           m   == Len(log)
           c   == at - p2(k)
           old == {i \in DOMAIN log : log[i] <= c}
           e   == Cardinality(old)
           r   == SubSeq(log, e + 1, m)
<1>0. p1(k) \in Nat /\ p1(k) >= 1 /\ p2(k) \in Nat /\ c \in Int
  BY Rule
<1>1. /\ log \in Seq(Nat) /\ m \in 1 .. p1(k) /\ DOMAIN log = 1 .. m
      /\ \A i \in 1 .. m : log[i] \in Nat
      /\ store[k].expires \in Nat
  BY LogStored
<1>2. Ordered(log)
  BY LogOrdered
<1>3. \A i \in 1 .. m : log[i] + p2(k) <= store[k].expires
  BY <1>1 DEF LogEnds
<1>4. allowed(k, at) <=> Len(Recent(k, at)) < p1(k)
  BY DEF allowed, Is
<1>5. CASE ~(store[k].expires > at)
  <2>1. Recent(k, at) = <<>>
    BY <1>5 DEF Recent, Alive
  <2>2. allowed(k, at)
    BY <1>0, <1>4, <2>1
  <2>3. log[1] + p2(k) <= store[k].expires /\ log[1] \in Nat
    BY <1>1, <1>3
  <2>4. at >= log[1] + p2(k)
    <3>1. store[k].expires \in Nat
      BY <1>1
    <3> HIDE DEF log
    <3> QED
      BY <1>0, <1>5, <2>3, <3>1
  <2> QED
    BY <2>2, <2>4
<1>6. CASE store[k].expires > at
  <2>1. Recent(k, at) = r
    BY <1>6 DEF Recent, Alive
  <2> HIDE DEF log, c
  <2>2. /\ e \in Nat /\ e <= m
        /\ Len(r) = m - e
        /\ \A i \in 1 .. Len(r) : r[i] = log[e + i]
        /\ \A i \in 1 .. e : log[i] <= c
    BY <1>0, <1>1, <1>2, Pruned
  <2>3. log[1] <= c => e >= 1
    <3> SUFFICES ASSUME log[1] <= c PROVE e >= 1
      OBVIOUS
    <3>1. 1 \in old
      BY <1>0, <1>1
    <3>2. IsFiniteSet(old) /\ {1} \in SUBSET old
      <4>1. IsFiniteSet(1 .. m) /\ old \in SUBSET (1 .. m)
        BY <1>0, <1>1, FS_Interval
      <4> QED
        BY <3>1, <4>1, FS_Subset
    <3>3. Cardinality({1}) <= Cardinality(old)
      BY <3>2, FS_Subset
    <3>4. Cardinality({1}) = 1
      BY FS_Singleton
    <3> HIDE DEF e
    <3> QED
      BY <2>2, <3>3, <3>4 DEF e
  <2> HIDE DEF e, r
  <2>4. e >= 1 => log[1] <= c
    BY <2>2
  <2>5. m \in Nat /\ m >= 1 /\ m <= p1(k) /\ log[1] \in Nat
    BY <1>0, <1>1
  <2> HIDE DEF m
  <2>6. allowed(k, at) <=> m < p1(k) \/ e >= 1
    BY <1>0, <1>4, <2>1, <2>2, <2>5
  <2>7. log[1] <= c <=> at >= log[1] + p2(k)
    BY <1>0, <2>5 DEF c
  <2>8. ~allowed(k, at) => Len(r) = m /\ r[1] = log[1]
    <3> SUFFICES ASSUME ~allowed(k, at) PROVE Len(r) = m /\ r[1] = log[1]
      OBVIOUS
    <3>1. e = 0
      BY <2>2, <2>6
    <3>2. Len(r) = m /\ 1 \in 1 .. Len(r)
      BY <2>2, <2>5, <3>1
    <3>3. r[1] = log[e + 1]
      BY <2>2, <3>2
    <3> QED
      BY <3>1, <3>2, <3>3
  <2> QED
    BY <2>1, <2>3, <2>4, <2>6, <2>7, <2>8 DEF log, m
<1> QED
  BY <1>5, <1>6

LEMMA LogWaits ==
  ASSUME Types, NEW k \in Keys, Is(k, "sliding-window-log"), Ordered(admitted[k]), LogEnds(k)
  PROVE  IF allowed(k, now) THEN LetsInFromNow(k) ELSE LetsInAfter(k, retry(k, now))
<1>0. now \in Nat /\ p1(k) \in Nat /\ p1(k) >= 1 /\ p2(k) \in Nat
  BY Rule DEF Types
<1>1. CASE ~Held(k)
  <2>1. \A at \in Nat : Recent(k, at) = <<>>
    BY <1>1 DEF Recent, Alive, Held, Absent
  <2>2. \A at \in Nat : allowed(k, at)
    BY <1>0, <2>1 DEF allowed, Is
  <2> QED
    BY <1>0, <2>2, StaysIn
<1>2. CASE Held(k)
  <2> DEFINE log == store[k].log  m == Len(log)  end == log[1] + p2(k)
  <2>1. m \in Nat /\ m >= 1 /\ m <= p1(k) /\ end \in Int
    BY <1>0, <1>2, LogStored
  <2>2. \A at \in Nat : allowed(k, at) <=> m < p1(k) \/ at >= end
    BY <1>2, LogAt
  <2>3. ~allowed(k, now) => Len(Recent(k, now)) = m /\ Recent(k, now)[1] = log[1]
    BY <1>0, <1>2, LogAt
  <2> HIDE DEF m, end
  <2>4. CASE allowed(k, now)
    <3>1. \A at \in Nat : at >= now => allowed(k, at)
      BY <1>0, <2>1, <2>2, <2>4
    <3> QED
      BY <2>4, <3>1, StaysIn
  <2>5. CASE ~allowed(k, now)
    <3>1. m = p1(k) /\ end > now
      BY <1>0, <2>1, <2>2, <2>5
    <3>2. \A at \in Nat : at >= now => (allowed(k, at) <=> at >= end)
      BY <1>0, <2>1, <2>2, <3>1
    <3>3. retry(k, now) = MaxOf(1, Seconds(end - now))
      <4> DEFINE recent == Recent(k, now)
      <4>1. retry(k, now) = MaxOf(1, Seconds(recent[Len(recent) - p1(k) + 1] + p2(k) - now))
        BY DEF retry, Is
      <4>2. Len(recent) - p1(k) + 1 = 1
        BY <1>0, <2>3, <2>5, <3>1
      <4>3. recent[1] + p2(k) - now = end - now
        BY <1>0, <1>2, <2>3, <2>5, LogStored DEF end
      <4> QED
        BY <4>1, <4>2, <4>3
    <3>4. LetsInAfter(k, retry(k, now))
      BY <2>1, <3>1, <3>2, <3>3, EndsAt
    <3> QED
      BY <2>5, <3>4
  <2> QED
    BY <2>4, <2>5
<1> QED
  BY <1>1, <1>2

LEMMA WindowIs ==
  ASSUME NEW k \in Keys, NEW at \in Nat, NEW v \in Nat,
         p2(k) * v <= at, at < p2(k) * v + p2(k)
  PROVE  Window(k, at) = v
<1> DEFINE L == p2(k)  q == at \div L
<1>1. L \in Nat /\ L >= 1 /\ at \in Int
  BY Rule
<1> HIDE DEF L
<1>2. q \in Int /\ L * q <= at
  BY <1>1, Division, Zenon
<1>3. v <= q
  <2>1. v \in Int /\ L * v <= at
    BY DEF L
  <2> QED
    BY <1>1, <2>1, Quotient
<1> HIDE DEF q
<1>4. CASE q >= v + 1
  <2>1. L * q >= L * (v + 1) /\ L * (v + 1) = L * v + L
    BY <1>1, <1>2, <1>4
  <2>2. at < L * v + L
    BY DEF L
  <2> QED
    BY <1>1, <1>2, <2>1, <2>2
<1> QED
  BY <1>2, <1>3, <1>4 DEF q, L, Window

(* What the counters will say: the same in this window, then those of this   *)
(* window count as the one before, then none.                                *)
LEMMA WindowsLater ==
  ASSUME Types, NEW k \in Keys, Is(k, "sliding-window-counter"), CounterCounts(k),
         NEW at \in Nat, at >= now
  PROVE  LET end == p2(k) * Window(k, now) + p2(k)  c == Windows(k, now) IN
         /\ at < end => Window(k, at) = Window(k, now) /\ Windows(k, at) = c
         /\ end <= at /\ at < end + p2(k) =>
              Window(k, at) = Window(k, now) + 1 /\ Windows(k, at) = [cur |-> 0, prev |-> c.cur]
         /\ end + p2(k) <= at => Windows(k, at) = [cur |-> 0, prev |-> 0]
<1> DEFINE L   == p2(k)
           W   == Window(k, now)
           end == L * W + L
           V   == Window(k, at)
           c   == Windows(k, now)
           w   == store[k].w
<1>0. /\ now \in Nat /\ L \in Nat /\ L >= 1 /\ W \in Nat /\ L * W \in Nat /\ L * W <= now
      /\ now < L * W + L
  <2>1. now \in Nat /\ L \in Nat /\ L >= 1
    BY Rule DEF Types
  <2>2. Window(k, now) \in 0 .. now /\ p2(k) * Window(k, now) \in Nat
        /\ p2(k) * Window(k, now) <= now /\ now < p2(k) * Window(k, now) + p2(k)
    BY <2>1, WindowBounds, Zenon
  <2> QED
    BY <2>1, <2>2
<1>1. at < end => V = W
  <2> SUFFICES ASSUME at < end PROVE V = W
    OBVIOUS
  <2>1. L * W <= at
    BY <1>0
  <2> QED
    BY <1>0, <2>1, WindowIs
<1>2. end <= at /\ at < end + L => V = W + 1
  <2> SUFFICES ASSUME end <= at, at < end + L PROVE V = W + 1
    OBVIOUS
  <2>1. L * (W + 1) = L * W + L /\ W + 1 \in Nat
    BY <1>0
  <2>2. L * (W + 1) <= at /\ at < L * (W + 1) + L
    BY <1>0, <2>1
  <2> QED
    BY <2>1, <2>2, WindowIs
<1>3. end + L <= at => V >= W + 2
  <2> SUFFICES ASSUME end + L <= at PROVE V >= W + 2
    OBVIOUS
  <2>1. L * (W + 2) = L * W + L + L /\ W + 2 \in Int
    BY <1>0
  <2>2. L * (W + 2) <= at
    BY <1>0, <2>1
  <2>3. W + 2 <= at \div L
    BY <1>0, <2>1, <2>2, Quotient
  <2>4. V = at \div L
    BY DEF Window
  <2>5. V \in Int
    BY <1>0, <2>4, Division
  <2> HIDE DEF V
  <2> QED
    BY <1>0, <2>3, <2>4, <2>5
<1>4. V \in Int
  <2>1. at \div L \in Int
    BY <1>0, Division
  <2> QED
    BY <2>1 DEF Window
<1>5. CASE ~Held(k)
  <2>1. \A a \in Nat : ~Alive(k, a)
    BY <1>5 DEF Alive, Held, Absent
  <2>2. c = [cur |-> 0, prev |-> 0] /\ Windows(k, at) = [cur |-> 0, prev |-> 0]
    BY <1>0, <2>1 DEF Windows
  <2> HIDE DEF c, V, W, L
  <2>3. c.cur = 0
    BY <2>2
  <2> QED
    BY <1>1, <1>2, <2>2, <2>3 DEF c, V, W, L
<1>6. CASE Held(k)
  <2> DEFINE e == store[k].expires
  <2>1. /\ w \in Nat /\ L * w \in Nat /\ w <= W /\ e \in Nat /\ e >= L * w + 2 * L
        /\ Alive(k, now)
    BY <1>6, CounterStored, HeldIsAlive DEF CounterCounts
  <2>2. Alive(k, at) <=> e > at
    BY DEF Alive
  <2>3. c = IF w = W THEN [cur |-> store[k].cur, prev |-> store[k].prev]
            ELSE IF w = W - 1 THEN [cur |-> 0, prev |-> store[k].cur]
            ELSE [cur |-> 0, prev |-> 0]
    BY <2>1 DEF Windows
  <2>4. Windows(k, at) =
            IF e > at /\ w = V THEN [cur |-> store[k].cur, prev |-> store[k].prev]
            ELSE IF e > at /\ w = V - 1 THEN [cur |-> 0, prev |-> store[k].cur]
            ELSE [cur |-> 0, prev |-> 0]
    BY <2>2 DEF Windows
  <2>5. w = W => e >= end + L
    BY <1>0, <2>1
  <2>6. w = W - 1 => e >= end
    <3>1. w = W - 1 => L * w = L * W - L
      BY <1>0, <2>1
    <3> QED
      BY <1>0, <2>1, <3>1
  <2> HIDE DEF c, V, W, L, w, e
  <2>7. end \in Int
    BY <1>0
  <2> HIDE DEF end
  <2>8. ASSUME at < end PROVE Windows(k, at) = c
    <3>1. V = W
      BY <1>1, <2>8
    <3>2. w = W \/ w = W - 1 => e > at
      BY <1>0, <2>1, <2>5, <2>6, <2>7, <2>8
    <3> QED
      BY <2>3, <2>4, <3>1, <3>2
  <2>9. ASSUME end <= at, at < end + L PROVE Windows(k, at) = [cur |-> 0, prev |-> c.cur]
    <3>1. V = W + 1
      BY <1>2, <2>9
    <3>2. w = W => e > at
      BY <1>0, <2>1, <2>5, <2>7, <2>9
    <3>3. w # V /\ (w = V - 1 <=> w = W)
      BY <1>0, <2>1, <3>1
    <3>4. CASE w = W
      BY <2>3, <2>4, <3>2, <3>3, <3>4
    <3>5. CASE w # W
      <4>1. c.cur = 0
        BY <2>3, <3>5
      <4> QED
        BY <2>4, <3>3, <3>5, <4>1
    <3> QED
      BY <3>4, <3>5
  <2>10. ASSUME end + L <= at PROVE Windows(k, at) = [cur |-> 0, prev |-> 0]
    <3>1. w # V /\ w # V - 1
      BY <1>0, <1>3, <1>4, <2>1, <2>10
    <3> QED
      BY <2>4, <3>1
  <2> QED
    BY <1>1, <1>2, <2>8, <2>9, <2>10 DEF c, V, W, L, end
<1> QED
  BY <1>5, <1>6

LEMMA CounterAt ==
  ASSUME Types, NEW k \in Keys, Is(k, "sliding-window-counter"), CounterCounts(k),
         NEW at \in Nat, at >= now
  PROVE  LET L == p2(k)  end == L * Window(k, now) + L  c == Windows(k, now) IN
         allowed(k, at) <=>
           /\ at < end => c.prev * (end - at) + c.cur * L + L <= p1(k) * L
           /\ end <= at /\ at < end + L => c.cur * ((end + L) - at) + L <= p1(k) * L
<1> DEFINE L   == p2(k)
           W   == Window(k, now)
           end == L * W + L
           V   == Window(k, at)
           c   == Windows(k, now)
           x   == Windows(k, at)
<1>0. /\ L \in Nat /\ L >= 1 /\ p1(k) \in Nat /\ p1(k) >= 1 /\ now \in Nat /\ W \in Nat
      /\ L * W \in Nat
  <2>1. now \in Nat /\ L \in Nat /\ L >= 1 /\ p1(k) \in Nat /\ p1(k) >= 1
    BY Rule DEF Types
  <2>2. Window(k, now) \in 0 .. now /\ p2(k) * Window(k, now) \in Nat
    BY <2>1, WindowBounds, Zenon
  <2> QED
    BY <2>1, <2>2
<1>1. allowed(k, at) <=> x.prev * (L - (at % L)) + x.cur * L + L <= p1(k) * L
  BY DEF allowed, Is, Estimated
<1>2. at % L = at - L * V
  BY WindowBounds, Zenon
<1>3. /\ at < end => V = W /\ x = c
      /\ end <= at /\ at < end + L => V = W + 1 /\ x = [cur |-> 0, prev |-> c.cur]
      /\ end + L <= at => x = [cur |-> 0, prev |-> 0]
  BY WindowsLater
<1>4. c.cur \in Nat /\ c.prev \in Nat
  BY <1>0, WindowsCount
<1> HIDE DEF L, W, V, c, x
<1>5. CASE at < end
  <2>1. L - (at % L) = end - at /\ x = c
    BY <1>0, <1>2, <1>3, <1>5
  <2> QED
    BY <1>0, <1>1, <1>5, <2>1 DEF L, W, c
<1>6. CASE end <= at /\ at < end + L
  <2>1. x.cur = 0 /\ x.prev = c.cur
    BY <1>3, <1>6
  <2>2. L * V = L * W + L
    <3>1. V = W + 1
      BY <1>3, <1>6
    <3> QED
      BY <1>0, <3>1
  <2>3. L - (at % L) = (end + L) - at
    BY <1>0, <1>2, <2>2
  <2> DEFINE y == c.cur * ((end + L) - at)
  <2>4. y \in Int /\ x.prev * (L - (at % L)) = y /\ x.cur * L = 0
    BY <1>0, <1>4, <2>1, <2>3
  <2>5. ~(at < end)
    BY <1>0, <1>6
  <2> HIDE DEF y, end
  <2>6. allowed(k, at) <=> y + L <= p1(k) * L
    BY <1>0, <1>1, <2>4
  <2> QED
    BY <1>6, <2>5, <2>6 DEF L, W, c, y, end
<1>7. CASE end + L <= at
  <2>1. x.cur = 0 /\ x.prev = 0
    BY <1>3, <1>7
  <2>2. L - (at % L) \in Int
    <3>0. L * V \in Nat
      BY WindowBounds, Zenon DEF L, V
    <3>1. L * V \in Int
      BY <3>0
    <3> QED
      BY <1>0, <1>2, <3>1
  <2> DEFINE z == L - (at % L)
  <2>3. x.prev * z = 0 /\ x.cur * L = 0
    BY <1>0, <2>1, <2>2
  <2>4. L <= p1(k) * L /\ p1(k) * L \in Nat
    BY <1>0
  <2>5. allowed(k, at)
    BY <1>0, <1>1, <2>3, <2>4
  <2>6. ~(at < end) /\ ~(at < end + L)
    BY <1>0, <1>7
  <2> HIDE DEF end
  <2> QED
    BY <2>5, <2>6 DEF L, W, c, end
<1>8. at < end \/ (end <= at /\ at < end + L) \/ end + L <= at
  BY <1>0
<1> QED
  BY <1>5, <1>6, <1>7, <1>8

(* The estimate leaves room for a request d ticks from now: with the counts  *)
(* of this window and the one before, left ticks before this window ends.    *)
Fits(cur, prev, L, p, left, d) ==
  /\ d < left => prev * (left - d) + cur * L + L <= p * L
  /\ left <= d /\ d < left + L => cur * ((left + L) - d) + L <= p * L

LEMMA FitsLater ==
  ASSUME NEW cur \in Nat, NEW prev \in Nat, NEW L \in Nat, L >= 1, NEW p \in Nat,
         NEW left \in 1 .. L, Fits(cur, prev, L, p, left, 0), NEW d \in Nat
  PROVE  Fits(cur, prev, L, p, left, d)
<1>0. left \in Nat /\ left >= 1
  OBVIOUS
<1>1. prev * left + cur * L + L <= p * L
  BY <1>0 DEF Fits
<1>2. prev * left \in Nat /\ cur * L \in Nat /\ p * L \in Nat
  BY <1>0
<1>3. ASSUME d < left PROVE prev * (left - d) + cur * L + L <= p * L
  <2>1. prev * (left - d) \in Nat /\ prev * (left - d) <= prev * left
    <3>1. left - d \in Nat /\ left - d <= left
      BY <1>0, <1>3
    <3> QED
      BY <1>0, <3>1
  <2> QED
    BY <1>1, <1>2, <2>1
<1>4. ASSUME left <= d, d < left + L PROVE cur * ((left + L) - d) + L <= p * L
  <2> DEFINE m == (left + L) - d
  <2>1. m \in Nat /\ m <= L
    BY <1>0, <1>4
  <2> HIDE DEF m
  <2>2. cur * m \in Nat /\ cur * m <= cur * L
    BY <2>1
  <2>3. cur * m + L <= p * L
    BY <1>1, <1>2, <2>2
  <2> QED
    BY <2>3 DEF m
<1> QED
  BY <1>3, <1>4 DEF Fits

LEMMA FitsInWindow ==
  ASSUME NEW cur \in Nat, NEW prev \in Nat, NEW L \in Nat, L >= 1, NEW p \in Nat,
         NEW left \in 1 .. L, ~Fits(cur, prev, L, p, left, 0), NEW d \in Nat,
         NEW spare \in Nat, spare = p - 1 - cur, prev > 0
  PROVE  /\ left * prev - spare * L \in Int /\ left * prev - spare * L >= 1
         /\ Fits(cur, prev, L, p, left, d) <=> d * prev >= left * prev - spare * L
<1>0. left \in Nat /\ left >= 1 /\ p = spare + 1 + cur
  OBVIOUS
<1>1. p * L = spare * L + L + cur * L
  BY <1>0
<1>2. /\ left * prev \in Nat /\ spare * L \in Nat /\ cur * L \in Nat /\ d * prev \in Nat
      /\ prev * left = left * prev
  BY <1>0
<1>3. left * prev > spare * L
  <2>1. ~(prev * left + cur * L + L <= p * L)
    BY <1>0 DEF Fits
  <2> QED
    BY <1>1, <1>2, <2>1
<1>4. CASE d < left
  <2>1. prev * (left - d) = left * prev - d * prev
    BY <1>0
  <2>2. Fits(cur, prev, L, p, left, d) <=> prev * (left - d) + cur * L + L <= p * L
    BY <1>0, <1>4 DEF Fits
  <2>3. Fits(cur, prev, L, p, left, d) <=> left * prev - d * prev <= spare * L
    BY <1>1, <1>2, <2>1, <2>2
  <2> QED
    BY <1>2, <1>3, <2>3
<1>5. CASE ~(d < left)
  <2>1. d * prev >= left * prev
    BY <1>0, <1>5
  <2>2. ASSUME d < left + L PROVE cur * ((left + L) - d) + L <= p * L
    <3> DEFINE m == (left + L) - d
    <3>1. m \in Nat /\ m <= L
      BY <1>0, <1>5, <2>2
    <3> HIDE DEF m
    <3>2. cur * m \in Nat /\ cur * m <= cur * L
      BY <3>1
    <3>3. cur * m + L <= p * L
      BY <1>1, <1>2, <3>2
    <3> QED
      BY <3>3 DEF m
  <2>3. Fits(cur, prev, L, p, left, d)
    BY <1>5, <2>2 DEF Fits
  <2> QED
    BY <1>2, <1>3, <2>1, <2>3
<1> QED
  BY <1>2, <1>3, <1>4, <1>5

LEMMA FitsInNext ==
  ASSUME NEW cur \in Nat, NEW prev \in Nat, NEW L \in Nat, L >= 1, NEW p \in Nat, p >= 1,
         NEW left \in 1 .. L, ~Fits(cur, prev, L, p, left, 0), NEW d \in Nat,
         cur <= p, ~(p - 1 - cur >= 0 /\ prev > 0)
  PROVE  LET a == (left + L) * cur - (p - 1) * L IN
         /\ cur >= 1 /\ a \in Int /\ a >= 1
         /\ Fits(cur, prev, L, p, left, d) <=> d * cur >= a
<1> DEFINE a == (left + L) * cur - (p - 1) * L
<1>0. left \in Nat /\ left >= 1
  OBVIOUS
<1>1. /\ prev * left \in Nat /\ cur * L \in Nat /\ p * L \in Nat /\ d * cur \in Nat
      /\ left * cur \in Nat /\ left * cur >= cur
  BY <1>0
<1>2. cur = p
  <2> SUFFICES ASSUME cur # p PROVE FALSE
    OBVIOUS
  <2>1. cur + 1 <= p /\ prev = 0
    OBVIOUS
  <2>2. (cur + 1) * L <= p * L /\ (cur + 1) * L = cur * L + L
    BY <2>1
  <2>3. prev * left = 0
    BY <1>0, <2>1
  <2>4. ~(prev * left + cur * L + L <= p * L)
    BY <1>0 DEF Fits
  <2> QED
    BY <1>1, <2>2, <2>3, <2>4
<1>3. a = left * cur + L
  <2>1. (left + L) * cur = left * cur + cur * L /\ (p - 1) * L = p * L - L
    BY <1>0
  <2> QED
    BY <1>1, <1>2, <2>1
<1> HIDE DEF a
<1>4. ASSUME d < left
      PROVE  Fits(cur, prev, L, p, left, d) <=> d * cur >= a
  <2>1. d * cur <= left * cur
    BY <1>0, <1>4
  <2>2. ~(d * cur >= a)
    BY <1>1, <1>3, <2>1
  <2>3. prev * (left - d) \in Nat
    BY <1>0, <1>4
  <2>4. Fits(cur, prev, L, p, left, d) <=> prev * (left - d) + cur * L + L <= p * L
    BY <1>0, <1>4 DEF Fits
  <2>5. ~Fits(cur, prev, L, p, left, d)
    BY <1>1, <1>2, <2>3, <2>4
  <2> QED
    BY <2>2, <2>5
<1>5. ASSUME left <= d /\ d < left + L
      PROVE  Fits(cur, prev, L, p, left, d) <=> d * cur >= a
  <2>1. cur * ((left + L) - d) = left * cur + cur * L - d * cur
    BY <1>0
  <2>2. Fits(cur, prev, L, p, left, d) <=> cur * ((left + L) - d) + L <= p * L
    BY <1>0, <1>5 DEF Fits
  <2> QED
    BY <1>1, <1>2, <1>3, <2>1, <2>2
<1>6. ASSUME ~(d < left + L)
      PROVE  Fits(cur, prev, L, p, left, d) <=> d * cur >= a
  <2>1. ~(d < left)
    BY <1>0, <1>6
  <2>2. Fits(cur, prev, L, p, left, d)
    BY <1>6, <2>1 DEF Fits
  <2>3. d * cur >= (left + L) * cur /\ (left + L) * cur = left * cur + cur * L
    BY <1>0, <1>6
  <2>4. cur * L >= L
    BY <1>2
  <2> QED
    BY <1>1, <1>3, <2>2, <2>3, <2>4
<1>7. d < left \/ (left <= d /\ d < left + L) \/ ~(d < left + L)
  BY <1>0
<1>8. cur >= 1 /\ a \in Int /\ a >= 1 /\ (Fits(cur, prev, L, p, left, d) <=> d * cur >= a)
  BY <1>1, <1>2, <1>3, <1>4, <1>5, <1>6, <1>7
<1> QED
  BY <1>8 DEF a

LEMMA CounterFits ==
  ASSUME Types, NEW k \in Keys, Is(k, "sliding-window-counter"), CounterCounts(k)
  PROVE  LET L == p2(k)  left == (L * Window(k, now) + L) - now  c == Windows(k, now) IN
         /\ left \in 1 .. L /\ c.cur \in 0 .. p1(k) /\ c.prev \in Nat
         /\ left = (Window(k, now) + 1) * L - now
         /\ \A d \in Nat : allowed(k, now + d) <=> Fits(c.cur, c.prev, L, p1(k), left, d)
<1> DEFINE L    == p2(k)
           W    == Window(k, now)
           end  == L * W + L
           left == end - now
           c    == Windows(k, now)
<1>0. /\ L \in Nat /\ L >= 1 /\ now \in Nat /\ W \in Nat /\ L * W \in Nat /\ L * W <= now
      /\ now < L * W + L
  <2>1. now \in Nat /\ L \in Nat /\ L >= 1
    BY Rule DEF Types
  <2>2. /\ Window(k, now) \in 0 .. now /\ p2(k) * Window(k, now) \in Nat
        /\ p2(k) * Window(k, now) <= now /\ now < p2(k) * Window(k, now) + p2(k)
    BY <2>1, WindowBounds, Zenon
  <2> QED
    BY <2>1, <2>2
<1>1. c.cur \in 0 .. p1(k) /\ c.prev \in Nat
  <2>1. c.cur \in 0 .. p1(k) /\ c.prev \in 0 .. p1(k)
    BY WindowsCount
  <2> HIDE DEF c
  <2> QED
    BY <2>1
<1> HIDE DEF L, W, c
<1>2. left \in 1 .. L /\ end \in Nat
  BY <1>0
<1>3. left = (W + 1) * L - now
  <2>1. (W + 1) * L = L * W + L
    BY <1>0
  <2> QED
    BY <2>1
<1>4. ASSUME NEW d \in Nat
      PROVE  allowed(k, now + d) <=> Fits(c.cur, c.prev, L, p1(k), left, d)
  <2> DEFINE at == now + d
  <2>1. at \in Nat /\ at >= now
    BY <1>0
  <2>2. allowed(k, at) <=>
          /\ at < end => c.prev * (end - at) + c.cur * L + L <= p1(k) * L
          /\ end <= at /\ at < end + L => c.cur * ((end + L) - at) + L <= p1(k) * L
    <3> HIDE DEF at
    <3> QED
      BY <2>1, CounterAt DEF L, W, c
  <2>3. /\ at < end <=> d < left
        /\ (end <= at /\ at < end + L) <=> (left <= d /\ d < left + L)
        /\ end - at = left - d /\ (end + L) - at = (left + L) - d
    BY <1>0, <1>2
  <2> HIDE DEF end, left
  <2> QED
    BY <2>2, <2>3 DEF Fits
<1> QED
  BY <1>1, <1>2, <1>3, <1>4 DEF L, W, c

(* A wait of a over b ticks a second, when the rule lets in from a on. *)
LEMMA CeilingWait ==
  ASSUME Types, NEW k \in Keys, NEW a \in Int, a >= 1, NEW b \in Nat, b >= 1,
         \A d \in Nat : allowed(k, now + d) <=> d * b >= a,
         NEW wait, wait = CeilDiv(a, b * TicksPerSec)
  PROVE  LetsInAfter(k, wait) /\ MaxOf(1, wait) = wait
<1> DEFINE T == TicksPerSec  c == b * T
<1>0. T \in Nat /\ T >= 1 /\ c \in Nat /\ c >= 1
  BY Rule
<1> HIDE DEF c, T
<1>1. wait \in Int /\ wait >= 1
  BY <1>0, CeilingLeast DEF c, T
<1>2. ASSUME NEW s \in Nat PROVE allowed(k, now + s * T) <=> s >= wait
  <2>1. s \in Int
    OBVIOUS
  <2>2. s >= CeilDiv(a, c) <=> s * c >= a
    BY <1>0, <2>1, CeilingLeast, Zenon
  <2>3. wait = CeilDiv(a, c)
    BY DEF c, T
  <2>4. s * T \in Nat /\ (s * T) * b = s * c
    BY <1>0 DEF c
  <2> DEFINE w == s * T
  <2> HIDE DEF w
  <2>5. w \in Nat /\ w * b = s * c
    BY <2>4 DEF w
  <2>6. allowed(k, now + w) <=> w * b >= a
    BY <2>5
  <2> QED
    BY <2>2, <2>3, <2>5, <2>6 DEF w
<1>3. wait \in Nat /\ MaxOf(1, wait) = wait
  BY <1>1 DEF MaxOf
<1> QED
  BY <1>1, <1>2, <1>3 DEF LetsInAfter, T

LEMMA CounterWaits ==
  ASSUME Types, NEW k \in Keys, Is(k, "sliding-window-counter"), CounterCounts(k)
  PROVE  IF allowed(k, now) THEN LetsInFromNow(k) ELSE LetsInAfter(k, retry(k, now))
<1> DEFINE L     == p2(k)
           left  == (L * Window(k, now) + L) - now
           cur   == Windows(k, now).cur
           prev  == Windows(k, now).prev
           p     == p1(k)
           spare == p - 1 - cur
           wait  == CounterRetry(k, now)
<1>0. /\ L \in Nat /\ L >= 1 /\ p \in Nat /\ p >= 1 /\ now \in Nat
  BY Rule DEF Types
<1>1. /\ left \in 1 .. L /\ cur \in 0 .. p /\ prev \in Nat
      /\ left = (Window(k, now) + 1) * L - now
      /\ \A d \in Nat : allowed(k, now + d) <=> Fits(cur, prev, L, p, left, d)
  BY CounterFits
<1>2. retry(k, now) = MaxOf(1, wait)
  BY DEF retry, Is
<1>3. wait = IF spare >= 0 /\ prev > 0
             THEN CeilDiv(left * prev - spare * L, prev * TicksPerSec)
             ELSE CeilDiv((left + L) * cur - (p - 1) * L, cur * TicksPerSec)
  <2>1. (Window(k, now) + 1) * L - now = left
    BY <1>1
  <2> HIDE DEF left
  <2> QED
    BY <2>1, Zenon DEF CounterRetry
<1> HIDE DEF L, left, cur, prev, p, wait
<1>4. /\ cur \in Nat /\ cur <= p /\ prev \in Nat /\ left \in 1 .. L
      /\ L \in Nat /\ L >= 1 /\ p \in Nat /\ p >= 1
  BY <1>0, <1>1
<1>5. allowed(k, now) <=> Fits(cur, prev, L, p, left, 0)
  <2>1. now + 0 = now
    BY <1>0
  <2>2. allowed(k, now + 0) <=> Fits(cur, prev, L, p, left, 0)
    BY <1>1
  <2> QED
    BY <2>1, <2>2
<1>6. CASE allowed(k, now)
  <2>1. ASSUME NEW at \in Nat, at >= now PROVE allowed(k, at)
    <3>1. at - now \in Nat /\ now + (at - now) = at
      BY <1>0, <2>1
    <3> DEFINE d == at - now
    <3> HIDE DEF d
    <3>2. Fits(cur, prev, L, p, left, d)
      <4>1. d \in Nat /\ Fits(cur, prev, L, p, left, 0)
        BY <1>5, <1>6, <3>1 DEF d
      <4> QED
        BY <1>4, <4>1, FitsLater
    <3>3. allowed(k, now + d)
      BY <1>1, <3>1, <3>2 DEF d
    <3> QED
      BY <3>1, <3>3 DEF d
  <2> QED
    BY <1>6, <2>1, StaysIn
<1>7. CASE ~allowed(k, now)
  <2>1. CASE spare >= 0 /\ prev > 0
    <3> DEFINE a == left * prev - spare * L
    <3>1. spare \in Nat
      BY <1>0, <1>4, <2>1
    <3> HIDE DEF spare
    <3>2. spare = p - 1 - cur
      BY DEF spare
    <3>3. ASSUME NEW d \in Nat
          PROVE a \in Int /\ a >= 1 /\ (Fits(cur, prev, L, p, left, d) <=> d * prev >= a)
      <4>1. ~Fits(cur, prev, L, p, left, 0)
        BY <1>5, <1>7
      <4> QED
        BY <1>4, <2>1, <3>1, <3>2, <4>1, FitsInWindow
    <3>4. wait = CeilDiv(a, prev * TicksPerSec)
      BY <1>3, <2>1
    <3> HIDE DEF a
    <3>5. a \in Int /\ a >= 1 /\ prev >= 1
      <4>1. 0 \in Nat
        OBVIOUS
      <4> QED
        BY <1>1, <2>1, <3>3, <4>1
    <3>6. \A d \in Nat : allowed(k, now + d) <=> d * prev >= a
      BY <1>1, <3>3
    <3>7. LetsInAfter(k, wait) /\ MaxOf(1, wait) = wait
      BY <1>1, <3>4, <3>5, <3>6, CeilingWait
    <3> QED
      BY <1>2, <1>7, <3>7
  <2>2. CASE ~(spare >= 0 /\ prev > 0)
    <3> DEFINE a == (left + L) * cur - (p - 1) * L
    <3>3. ASSUME NEW d \in Nat
          PROVE /\ cur >= 1 /\ a \in Int /\ a >= 1
                /\ Fits(cur, prev, L, p, left, d) <=> d * cur >= a
      <4>1. ~Fits(cur, prev, L, p, left, 0)
        BY <1>5, <1>7
      <4>2. ~(p - 1 - cur >= 0 /\ prev > 0)
        BY <2>2 DEF spare
      <4> HIDE DEF spare
      <4> QED
        BY <1>4, <4>1, <4>2, FitsInNext
    <3>4. wait = CeilDiv(a, cur * TicksPerSec)
      BY <1>3, <2>2
    <3> HIDE DEF a
    <3>5. a \in Int /\ a >= 1 /\ cur >= 1
      <4>1. 0 \in Nat
        OBVIOUS
      <4> QED
        BY <3>3, <4>1
    <3>6. \A d \in Nat : allowed(k, now + d) <=> d * cur >= a
      BY <1>1, <3>3
    <3>7. LetsInAfter(k, wait) /\ MaxOf(1, wait) = wait
      BY <1>4, <3>4, <3>5, <3>6, CeilingWait
    <3> QED
      BY <1>2, <1>7, <3>7
  <2> QED
    BY <2>1, <2>2
<1> QED
  BY <1>6, <1>7

LEMMA RuleWaits ==
  ASSUME Inv, WholeTokens, NEW k \in Keys
  PROVE  IF allowed(k, now) THEN LetsInFromNow(k) ELSE LetsInAfter(k, retry(k, now))
<1>0. Types /\ RuleInv(k)
  BY DEF Inv, RuleInv
<1>1. CASE Is(k, "token-bucket")
  BY <1>0, <1>1, BucketWaits DEF RuleInv, BucketInv, WholeTokens
<1>2. CASE Is(k, "fixed-window")
  BY <1>0, <1>2, FixedWaits
<1>3. CASE Is(k, "sliding-window-log")
  BY <1>0, <1>3, LogWaits DEF RuleInv, LogInv
<1>4. CASE Is(k, "sliding-window-counter")
  BY <1>0, <1>4, CounterWaits DEF RuleInv, CounterInv
<1> QED
  BY <1>1, <1>2, <1>3, <1>4, Rule

(* Among finitely many indices the first of those with the largest value.   *)
FirstBest(f, S, i) == \A j \in S : f[j] < f[i] \/ (f[j] = f[i] /\ i <= j)

LEMMA FirstBestExists ==
  ASSUME NEW S \in SUBSET Nat, IsFiniteSet(S), S # {}, NEW f \in [S -> Int]
  PROVE  \E i \in S : FirstBest(f, S, i)
<1> DEFINE Good == {T \in SUBSET S : T = {} \/ \E i \in T : FirstBest(f, T, i)}
<1>1. {} \in Good
  OBVIOUS
<1>2. ASSUME NEW T \in SUBSET S, NEW x \in S \ T, T \in Good
      PROVE  T \cup {x} \in Good
  <2>1. CASE T = {}
    <3>1. FirstBest(f, {x}, x)
      BY DEF FirstBest
    <3> QED
      BY <2>1, <3>1
  <2>2. CASE T # {}
    <3>1. PICK i \in T : FirstBest(f, T, i)
      BY <1>2, <2>2
    <3>2. /\ \A j \in T \cup {x} : f[j] \in Int /\ j \in Nat
          /\ i \in T \cup {x} /\ x \in T \cup {x}
      OBVIOUS
    <3>3. CASE f[x] > f[i] \/ (f[x] = f[i] /\ x <= i)
      <4>1. FirstBest(f, T \cup {x}, x)
        BY <3>1, <3>2, <3>3 DEF FirstBest
      <4> QED
        BY <4>1
    <3>4. CASE ~(f[x] > f[i] \/ (f[x] = f[i] /\ x <= i))
      <4>1. f[x] < f[i] \/ (f[x] = f[i] /\ i <= x)
        BY <3>2, <3>4
      <4>2. FirstBest(f, T \cup {x}, i)
        BY <3>1, <3>2, <4>1 DEF FirstBest
      <4> QED
        BY <3>2, <4>2
    <3> QED
      BY <3>3, <3>4
  <2> QED
    BY <2>1, <2>2
<1>3. S \in Good
  <2> HIDE DEF Good
  <2> QED
    BY <1>1, <1>2, FiniteInduction
<1> QED
  BY <1>3

LEMMA RequestKeys ==
  ASSUME Types, NEW list \in Requests
  PROVE  /\ list \in Seq(Keys) /\ Len(list) \in Nat /\ Len(list) >= 1
         /\ DOMAIN list = 1 .. Len(list) /\ \A i \in DOMAIN list : list[i] \in Keys
<1>1. rules \in Seq(Keys) /\ rules # <<>>
  BY RateLimitAssumption DEF RateLimitAssumption, Types
<1>2. rules[1] \in Keys
  BY <1>1
<1>3. list = rules \/ list = <<rules[1]>>
  BY DEF Requests
<1>4. list \in Seq(Keys) /\ list # <<>>
  <2>1. CASE list = rules
    BY <1>1, <2>1
  <2>2. CASE list = <<rules[1]>>
    BY <1>2, <2>2
  <2> QED
    BY <1>3, <2>1, <2>2
<1>5. /\ Len(list) \in Nat /\ Len(list) >= 1 /\ DOMAIN list = 1 .. Len(list)
  BY <1>4
<1> QED
  BY <1>4, <1>5

LEMMA WorstExists ==
  ASSUME Inv, WholeTokens, NEW list \in Requests,
         ~(\A i \in DOMAIN list : allowed(list[i], now))
  PROVE  \E i \in DOMAIN list : Worst(list, now, i)
<1>1. /\ DOMAIN list = 1 .. Len(list) /\ Len(list) \in Nat
      /\ \A i \in DOMAIN list : list[i] \in Keys
  BY RequestKeys DEF Inv
<1> DEFINE S == {i \in DOMAIN list : ~allowed(list[i], now)}
           f == [i \in S |-> retry(list[i], now)]
<1>2. S \in SUBSET Nat /\ IsFiniteSet(S) /\ S # {}
  <2>1. IsFiniteSet(1 .. Len(list)) /\ S \in SUBSET (1 .. Len(list))
    BY <1>1, FS_Interval
  <2> QED
    BY <1>1, <2>1, FS_Subset
<1>3. ASSUME NEW i \in S PROVE retry(list[i], now) \in Int
  BY <1>1, RuleWaits DEF LetsInAfter
<1>4. f \in [S -> Int]
  BY <1>3
<1>5. PICK i \in S : FirstBest(f, S, i)
  <2> HIDE DEF S, f
  <2> QED
    BY <1>2, <1>4, FirstBestExists
<1> QED
  BY <1>5 DEF FirstBest, Worst

LEMMA RetryIsExact ==
  ASSUME Inv, WholeTokens
  PROVE  RetryAfterExact
<1> SUFFICES ASSUME NEW list \in Requests, ~Decision(list, now, 0).allowed
    PROVE  LET d == Decision(list, now, 0)
               Later(s) == Decision(list, now + s * TicksPerSec, 0).allowed
           IN  Later(d.retry) /\ (d.retry > 1 => ~Later(d.retry - 1))
  BY DEF RetryAfterExact
<1> DEFINE T == TicksPerSec
           d == Decision(list, now, 0)
           Later(s) == Decision(list, now + s * T, 0).allowed
           i == CHOOSE j \in DOMAIN list : Worst(list, now, j)
           R == retry(list[i], now)
<1>1. \A j \in DOMAIN list : list[j] \in Keys
  BY RequestKeys DEF Inv
<1>2. ~(\A j \in DOMAIN list : allowed(list[j], now))
  BY DEF Decision
<1>3. i \in DOMAIN list /\ Worst(list, now, i)
  BY <1>2, WorstExists
<1>4. d.retry = R
  BY <1>2 DEF Decision
<1>5. ASSUME NEW s \in Nat
      PROVE  Later(s) <=> \A j \in DOMAIN list : allowed(list[j], now + s * T)
  BY DEF Decision
<1> HIDE DEF d, Later, i, R
<1>6. LetsInAfter(list[i], R)
  BY <1>1, <1>3, RuleWaits DEF Worst, R
<1>7. R \in Nat /\ R >= 1
  BY <1>6 DEF LetsInAfter
<1>8. Later(R)
  <2> SUFFICES ASSUME NEW j \in DOMAIN list PROVE allowed(list[j], now + R * T)
    BY <1>5, <1>7
  <2>1. CASE allowed(list[j], now)
    <3>1. LetsInFromNow(list[j])
      BY <1>1, <2>1, RuleWaits
    <3> QED
      BY <1>7, <3>1 DEF LetsInFromNow
  <2>2. CASE ~allowed(list[j], now)
    <3>1. LetsInAfter(list[j], retry(list[j], now))
      BY <1>1, <2>2, RuleWaits
    <3>2. retry(list[j], now) <= R
      <4>1. retry(list[j], now) < R \/ retry(list[j], now) = R
        BY <1>3, <2>2 DEF Worst, R
      <4> QED
        BY <1>7, <3>1, <4>1 DEF LetsInAfter
    <3> QED
      BY <1>7, <3>1, <3>2 DEF LetsInAfter
  <2> QED
    BY <2>1, <2>2
<1>9. ASSUME R > 1 PROVE ~Later(R - 1)
  <2>1. R - 1 \in Nat /\ ~(R - 1 >= R)
    BY <1>7, <1>9
  <2> DEFINE s == R - 1
  <2> HIDE DEF s
  <2>2. ~allowed(list[i], now + s * T)
    BY <1>6, <2>1 DEF LetsInAfter, s
  <2>3. ~Later(s)
    BY <1>3, <1>5, <2>1, <2>2 DEF s
  <2> QED
    BY <2>3 DEF s
<1> QED
  BY <1>4, <1>8, <1>9 DEF d, Later

----------------------------------------------------------------------------
(* What is left.                                                            *)

LEMMA QuotientIs ==
  ASSUME NEW a \in Int, NEW b \in Nat, b >= 1, NEW q \in Int, b * q <= a, a < b * q + b
  PROVE  a \div b = q
<1> DEFINE r == a \div b
<1>1. r \in Int /\ b * r <= a
  BY Division
<1>2. q <= r
  BY Quotient
<1> HIDE DEF r
<1>3. CASE r >= q + 1
  <2>1. b * r >= b * (q + 1) /\ b * (q + 1) = b * q + b
    BY <1>1, <1>3
  <2>2. b * q \in Int /\ b * r \in Int
    BY <1>1
  <2> QED
    BY <1>1, <2>1, <2>2
<1> QED
  BY <1>1, <1>2, <1>3 DEF r

LEMMA OneLess ==
  ASSUME NEW a \in Int, NEW b \in Nat, b >= 1
  PROVE  (a - b) \div b = a \div b - 1
<1> DEFINE q == a \div b
<1>1. q \in Int /\ b * q <= a /\ a < b * q + b
  BY Division
<1> HIDE DEF q
<1>2. b * (q - 1) = b * q - b /\ b * q \in Int
  BY <1>1
<1>3. a - b \in Int /\ q - 1 \in Int /\ b * (q - 1) <= a - b /\ a - b < b * (q - 1) + b
  BY <1>1, <1>2
<1> QED
  BY <1>3, QuotientIs DEF q

LEMMA AtLeastOne ==
  ASSUME NEW a \in Int, NEW b \in Nat, b >= 1
  PROVE  a \div b \in Int /\ (a \div b >= 1 <=> a >= b)
<1> DEFINE q == a \div b
<1>1. q \in Int /\ b * q <= a /\ a < b * q + b
  BY Division
<1>2. a >= b => 1 <= q
  <2> SUFFICES ASSUME a >= b PROVE 1 <= q
    OBVIOUS
  <2>1. b * 1 <= a
    OBVIOUS
  <2> QED
    BY <2>1, Quotient
<1> HIDE DEF q
<1>3. q >= 1 => b * q >= b
  BY <1>1
<1>4. b * q \in Int
  BY <1>1
<1> QED
  BY <1>1, <1>2, <1>3, <1>4 DEF q

LEMMA EstimatedInt ==
  ASSUME Types, NEW k \in Keys, Is(k, "sliding-window-counter"), CounterCounts(k)
  PROVE  Estimated(k, now) \in Int
<1> DEFINE cur == Windows(k, now).cur  prev == Windows(k, now).prev  m == p2(k) - (now % p2(k))
<1>1. cur \in Int /\ prev \in Int
  <2>1. cur \in 0 .. p1(k) /\ prev \in 0 .. p1(k)
    BY WindowsCount
  <2> HIDE DEF cur, prev
  <2> QED
    BY <2>1, Rule
<1>2. m \in Int /\ p2(k) \in Int
  <2>1. now \in Int /\ p2(k) \in Nat /\ p2(k) >= 1
    BY Rule DEF Types
  <2> QED
    BY <2>1
<1>3. Estimated(k, now) = prev * m + cur * p2(k)
  BY DEF Estimated
<1> HIDE DEF cur, prev, m
<1> QED
  BY <1>1, <1>2, <1>3

(* A rule lets a request pass if, and only if, it has one left.              *)
AvailableIsRoom ==
  \A k \in Keys : available(k, now) \in Int /\ (allowed(k, now) <=> available(k, now) >= 1)

LEMMA Room ==
  ASSUME Inv
  PROVE  AvailableIsRoom
<1> SUFFICES ASSUME NEW k \in Keys
    PROVE  available(k, now) \in Int /\ (allowed(k, now) <=> available(k, now) >= 1)
  BY DEF AvailableIsRoom
<1>0. /\ Types /\ RuleInv(k)
      /\ p1(k) \in Nat /\ p2(k) \in Nat /\ p2(k) >= 1 /\ Parts \in Nat /\ Parts >= 1
  BY Rule DEF Inv, RuleInv
<1>1. CASE Is(k, "token-bucket")
  <2>1. Tokens(k, now) \in Int
    BY <1>0, <1>1, Bucket
  <2>2. /\ allowed(k, now) <=> Tokens(k, now) >= Parts
        /\ available(k, now) = Tokens(k, now) \div Parts
    BY <1>1 DEF allowed, available, Is
  <2> QED
    BY <1>0, <2>1, <2>2, AtLeastOne
<1>2. CASE Is(k, "fixed-window")
  <2>1. Count(k, now) \in Int
    <3>1. Held(k) => store[k].count \in 1 .. p1(k)
      BY <1>0, <1>2 DEF Types, Held, Stored, Is
    <3>2. Held(k) => store[k].count \in Int
      BY <1>0, <3>1
    <3> QED
      BY <1>0, <3>2, HeldIsAlive DEF Count
  <2>2. /\ allowed(k, now) <=> Count(k, now) < p1(k)
        /\ available(k, now) = MaxOf(0, p1(k) - Count(k, now))
    BY <1>2 DEF allowed, available, Is
  <2> QED
    BY <1>0, <2>1, <2>2 DEF MaxOf
<1>3. CASE Is(k, "sliding-window-log")
  <2>1. Len(Recent(k, now)) \in Int
    BY <1>0, <1>3, RecentEnds DEF RuleInv, LogInv
  <2>2. /\ allowed(k, now) <=> Len(Recent(k, now)) < p1(k)
        /\ available(k, now) = MaxOf(0, p1(k) - Len(Recent(k, now)))
    BY <1>3 DEF allowed, available, Is
  <2> QED
    BY <1>0, <2>1, <2>2 DEF MaxOf
<1>4. CASE Is(k, "sliding-window-counter")
  <2> DEFINE E == Estimated(k, now)  L == p2(k)  x == p1(k) * L - E
  <2>1. E \in Int
    BY <1>0, <1>4, EstimatedInt DEF RuleInv, CounterInv
  <2>2. /\ allowed(k, now) <=> E + L <= p1(k) * L
        /\ available(k, now) = MaxOf(0, x \div L)
    BY <1>4 DEF allowed, available, Is
  <2>3. x \in Int
    BY <1>0, <2>1
  <2>4. x \div L \in Int /\ (x \div L >= 1 <=> x >= L)
    BY <1>0, <2>3, AtLeastOne
  <2>5. x >= L <=> E + L <= p1(k) * L
    <3>1. p1(k) * L \in Int
      BY <1>0
    <3> HIDE DEF E
    <3> QED
      BY <1>0, <2>1, <3>1
  <2> HIDE DEF x, E, L
  <2> QED
    BY <2>2, <2>4, <2>5 DEF MaxOf
<1> QED
  BY <1>1, <1>2, <1>3, <1>4, Rule

(* What is recent is younger than the window. *)
LEMMA RecentIsNew ==
  ASSUME Types, NEW k \in Keys, Is(k, "sliding-window-log"), Ordered(admitted[k]), LogEnds(k),
         NEW i \in 1 .. Len(Recent(k, now))
  PROVE  Recent(k, now)[i] \in Nat /\ Recent(k, now)[i] > now - p2(k)
<1> DEFINE log == store[k].log
           m   == Len(log)
           c   == now - p2(k)
           old == {j \in DOMAIN log : log[j] <= c}
           e   == Cardinality(old)
           r   == SubSeq(log, e + 1, m)
<1>0. now \in Nat /\ p2(k) \in Nat /\ c \in Int
  BY Rule DEF Types
<1>1. CASE ~Held(k)
  <2>1. Recent(k, now) = <<>>
    BY <1>1, HeldIsAlive DEF Recent
  <2> QED
    BY <2>1
<1>2. CASE Held(k)
  <2>1. /\ log \in Seq(Nat) /\ m \in Nat /\ DOMAIN log = 1 .. m
        /\ \A j \in 1 .. m : log[j] \in Nat
    <3>1. log \in Seq(Nat)
      BY <1>2, LogStored
    <3> HIDE DEF log
    <3> QED
      BY <3>1
  <2>2. Ordered(log)
    BY <1>2, LogOrdered
  <2>3. Recent(k, now) = r
    BY <1>2, HeldIsAlive DEF Recent
  <2> HIDE DEF log, c
  <2>4. /\ e \in Nat /\ e <= m /\ Len(r) = m - e
        /\ \A j \in 1 .. Len(r) : r[j] = log[e + j]
    BY <1>0, <2>1, <2>2, Pruned
  <2>5. i \in 1 .. Len(r)
    BY <2>3
  <2> HIDE DEF r
  <2> DEFINE x == e + i
  <2>6. x \in 1 .. m /\ x > e /\ r[i] = log[x] /\ x \in Nat
    <3> HIDE DEF e
    <3> QED
      BY <2>1, <2>4, <2>5
  <2> HIDE DEF x
  <2>7. ASSUME log[x] <= c PROVE FALSE
    <3>1. 1 .. x \in SUBSET old
      <4> SUFFICES ASSUME NEW j \in 1 .. x PROVE j \in old
        OBVIOUS
      <4>1. j \in 1 .. m /\ j <= x
        BY <2>1, <2>6
      <4>2. log[j] <= log[x] /\ log[j] \in Nat /\ log[x] \in Nat
        BY <2>1, <2>2, <2>6, <4>1 DEF Ordered
      <4>3. log[j] <= c
        BY <1>0, <2>7, <4>2
      <4> QED
        BY <2>1, <4>1, <4>3
    <3>2. IsFiniteSet(old)
      <4>1. IsFiniteSet(1 .. m) /\ old \in SUBSET (1 .. m)
        BY <2>1, FS_Interval
      <4> QED
        BY <4>1, FS_Subset
    <3>3. Cardinality(1 .. x) <= e
      BY <3>1, <3>2, FS_Subset
    <3>4. Cardinality(1 .. x) = x
      BY <2>6, FS_Interval
    <3> HIDE DEF e
    <3> QED
      BY <2>4, <2>6, <3>3, <3>4
  <2>8. log[x] \in Nat
    BY <2>1, <2>6
  <2>9. log[x] > c
    BY <1>0, <2>7, <2>8
  <2> QED
    BY <2>3, <2>6, <2>8, <2>9 DEF c
<1> QED
  BY <1>1, <1>2

(* A request that passes takes one of what is left, of every rule. *)
LEMMA BucketTakes ==
  ASSUME Types, NEW k \in Keys, Is(k, "token-bucket"), BucketLives(k), Passes(k)
  PROVE  available(k, now)' = available(k, now) - 1
<1>1. Tokens(k, now)' = Tokens(k, now) - Parts
  BY BucketTokens
<1>2. Tokens(k, now) \in Int /\ Parts \in Nat /\ Parts >= 1
  BY Bucket, Rule
<1>3. available(k, now) = Tokens(k, now) \div Parts
  BY DEF available, Is
<1>4. available(k, now)' = Tokens(k, now)' \div Parts
  BY DEF available, Is
<1>5. (Tokens(k, now) - Parts) \div Parts = Tokens(k, now) \div Parts - 1
  BY <1>2, OneLess
<1> QED
  BY <1>1, <1>3, <1>4, <1>5

LEMMA FixedTakes ==
  ASSUME Types, NEW k \in Keys, Is(k, "fixed-window"), Passes(k)
  PROVE  available(k, now)' = available(k, now) - 1
<1> DEFINE n == Count(k, now)
<1>1. allowed(k, now) /\ now' = now /\ store'[k] = commit(k)
  BY DEF Passes
<1>2. n < p1(k) /\ p1(k) \in Nat
  BY <1>1, Rule DEF allowed, Is
<1>3. n \in Int
  <2>1. Held(k) => store[k].count \in 1 .. p1(k)
    BY DEF Types, Held, Stored, Is
  <2>2. Held(k) => store[k].count \in Int
    BY <1>2, <2>1
  <2> QED
    BY <2>2, HeldIsAlive DEF Count
<1>4. commit(k).count = n + 1 /\ commit(k).expires > now
  <2>1. commit(k).expires > now
    BY <1>1, FixedCommit
  <2>2. commit(k).count = n + 1
    BY DEF commit, Is
  <2> QED
    BY <2>1, <2>2
<1>5. Count(k, now)' = n + 1
  BY <1>1, <1>4 DEF Count, Alive
<1>6. available(k, now) = MaxOf(0, p1(k) - n)
  BY DEF available, Is
<1>7. available(k, now)' = MaxOf(0, p1(k) - Count(k, now)')
  BY DEF available, Is, p1
<1> HIDE DEF n
<1> QED
  BY <1>2, <1>3, <1>5, <1>6, <1>7 DEF MaxOf

Younger(log, c) == SubSeq(log, Cardinality({i \in DOMAIN log : log[i] <= c}) + 1, Len(log))

LEMMA LogTakes ==
  ASSUME Types, NEW k \in Keys, Is(k, "sliding-window-log"), Ordered(admitted[k]), LogEnds(k),
         Passes(k)
  PROVE  available(k, now)' = available(k, now) - 1
<1> DEFINE r == Recent(k, now)
           n == Len(r)
           c == now - p2(k)
           s == Append(r, now)
<1>1. allowed(k, now) /\ now' = now /\ store'[k] = commit(k) /\ now \in Nat
  BY DEF Passes, Types
<1>2. n < p1(k) /\ p1(k) \in Nat /\ p2(k) \in Nat /\ p2(k) >= 1
  BY <1>1, Rule DEF allowed, Is
<1>3. commit(k).log = s /\ commit(k).expires > now
  BY <1>1, LogCommit
<1>4. r \in Seq(Nat) /\ n \in Nat
  BY RecentEnds
<1>5. \A i \in 1 .. n : r[i] \in Nat /\ r[i] > c
  BY RecentIsNew
<1> HIDE DEF r
<1>6. s \in Seq(Nat) /\ DOMAIN s = 1 .. n + 1 /\ Len(s) = n + 1
  BY <1>1, <1>4
<1>7. {i \in DOMAIN s : s[i] <= c} = {}
  <2> SUFFICES ASSUME NEW i \in 1 .. n + 1 PROVE ~(s[i] <= c)
    BY <1>6
  <2>1. CASE i \in 1 .. n
    <3>1. s[i] = r[i]
      BY <1>1, <1>4, <2>1
    <3> QED
      BY <1>1, <1>2, <1>5, <2>1, <3>1
  <2>2. CASE i = n + 1
    <3>1. s[i] = now
      BY <1>1, <1>4, <2>2
    <3> QED
      BY <1>1, <1>2, <3>1
  <2>3. i \in 1 .. n \/ i = n + 1
    BY <1>4
  <2> QED
    BY <2>1, <2>2, <2>3
<1>8. Recent(k, now)' = SubSeq(s, 1, n + 1)
  <2>1. Recent(k, now)' = SubSeq(s, Cardinality({i \in DOMAIN s : s[i] <= c}) + 1, Len(s))
    <3> HIDE DEF s
    <3>1. Alive(k, now)'
      BY <1>1, <1>3 DEF Alive
    <3>2. store'[k].log = s /\ now' = now
      BY <1>1, <1>3
    <3>3. Recent(k, now)' = Younger(store'[k].log, now' - p2(k))
      BY <3>1 DEF Recent, p2, Younger
    <3>4. Recent(k, now)' = Younger(s, c)
      BY <3>2, <3>3
    <3> QED
      BY <3>4, Zenon DEF Younger
  <2>2. Cardinality({i \in DOMAIN s : s[i] <= c}) + 1 = 1
    <3> DEFINE o == {i \in DOMAIN s : s[i] <= c}
    <3>1. o = {}
      BY <1>7
    <3> HIDE DEF o
    <3>2. Cardinality(o) + 1 = 1
      BY <3>1, FS_EmptySet
    <3> QED
      BY <3>2 DEF o
  <2> HIDE DEF s
  <2> QED
    BY <1>6, <2>1, <2>2
<1>9. Len(Recent(k, now)') = n + 1
  <2> HIDE DEF s
  <2> QED
    BY <1>4, <1>6, <1>8
<1>10. available(k, now) = MaxOf(0, p1(k) - n)
  BY DEF available, Is, r
<1>11. available(k, now)' = MaxOf(0, p1(k) - Len(Recent(k, now)'))
  BY DEF available, Is, p1
<1> HIDE DEF n
<1> QED
  BY <1>2, <1>4, <1>9, <1>10, <1>11 DEF MaxOf

LEMMA CounterTakes ==
  ASSUME Types, NEW k \in Keys, Is(k, "sliding-window-counter"), CounterCounts(k), Passes(k)
  PROVE  available(k, now)' = available(k, now) - 1
<1> DEFINE L    == p2(k)
           cur  == Windows(k, now).cur
           prev == Windows(k, now).prev
           m    == L - (now % L)
           E    == Estimated(k, now)
           p    == p1(k)
<1>1. allowed(k, now) /\ now' = now /\ store'[k] = commit(k) /\ now \in Nat
  BY DEF Passes, Types
<1>2. L \in Nat /\ L >= 1 /\ p \in Nat
  BY Rule
<1>3. /\ commit(k).w = Window(k, now) /\ commit(k).cur = cur + 1 /\ commit(k).prev = prev
      /\ commit(k).expires > now
  BY <1>1, CounterCommit
<1>4. Windows(k, now)' = [cur |-> cur + 1, prev |-> prev]
  BY <1>1, <1>3 DEF Windows, Alive, Window, p2
<1>5. cur \in Int /\ prev \in Int /\ m \in Int
  <2>1. cur \in 0 .. p1(k) /\ prev \in 0 .. p1(k)
    BY WindowsCount
  <2>2. m \in Int
    BY <1>1, <1>2
  <2> HIDE DEF cur, prev, m
  <2> QED
    BY <1>2, <2>1, <2>2
<1>6. E = prev * m + cur * L
  BY DEF Estimated
<1>7. Estimated(k, now)' = prev * m + (cur + 1) * L
  BY <1>1, <1>4 DEF Estimated, p2
<1>8. E + L <= p * L
  BY <1>1 DEF allowed, Is
<1>9. available(k, now) = MaxOf(0, (p * L - E) \div L)
  BY DEF available, Is
<1>10. available(k, now)' = MaxOf(0, (p * L - Estimated(k, now)') \div L)
  BY DEF available, Is, p1, p2
<1> HIDE DEF L, cur, prev, m, E, p
<1>11. E \in Int /\ p * L \in Int /\ Estimated(k, now)' = E + L
  <2>1. (cur + 1) * L = cur * L + L
    BY <1>2, <1>5
  <2>2. prev * m \in Int /\ cur * L \in Int
    BY <1>2, <1>5
  <2> QED
    BY <1>2, <1>6, <1>7, <2>1, <2>2
<1> DEFINE x == p * L - E  y == x \div L
<1>12. x \in Int /\ x >= L
  BY <1>2, <1>8, <1>11
<1>13. p * L - Estimated(k, now)' = x - L
  BY <1>2, <1>11
<1> HIDE DEF x
<1>14. y \in Int /\ y >= 1 /\ (x - L) \div L = y - 1
  BY <1>2, <1>12, OneLess, AtLeastOne
<1>15. available(k, now) = MaxOf(0, y) /\ available(k, now)' = MaxOf(0, y - 1)
  BY <1>9, <1>10, <1>13, <1>14 DEF x
<1> HIDE DEF y
<1> QED
  BY <1>14, <1>15 DEF MaxOf

LEMMA RoomNext == Inv' => AvailableIsRoom'
<1>1. Inv => AvailableIsRoom
  BY Room
<1> QED
  BY <1>1, PTL

LEMMA RuleTakes ==
  ASSUME Inv, NEW k \in Keys, Passes(k)
  PROVE  available(k, now)' = available(k, now) - 1
<1>0. Types /\ RuleInv(k)
  BY DEF Inv, RuleInv
<1>1. CASE Is(k, "token-bucket")
  BY <1>0, <1>1, BucketTakes DEF RuleInv, BucketInv
<1>2. CASE Is(k, "fixed-window")
  BY <1>0, <1>2, FixedTakes
<1>3. CASE Is(k, "sliding-window-log")
  BY <1>0, <1>3, LogTakes DEF RuleInv, LogInv
<1>4. CASE Is(k, "sliding-window-counter")
  BY <1>0, <1>4, CounterTakes DEF RuleInv, CounterInv
<1> QED
  BY <1>1, <1>2, <1>3, <1>4, Rule

LEMMA TightestExists ==
  ASSUME Inv, NEW list \in Requests
  PROVE  \E i \in DOMAIN list : Tightest(list, now, i)
<1>1. /\ DOMAIN list = 1 .. Len(list) /\ Len(list) \in Nat /\ Len(list) >= 1
      /\ \A i \in DOMAIN list : list[i] \in Keys
  BY RequestKeys DEF Inv
<1> DEFINE S == DOMAIN list
           f == [i \in S |-> -available(list[i], now)]
<1>2. S \in SUBSET Nat /\ IsFiniteSet(S) /\ S # {}
  <2>1. IsFiniteSet(1 .. Len(list))
    BY <1>1, FS_Interval
  <2> QED
    BY <1>1, <2>1
<1>3. ASSUME NEW i \in S PROVE available(list[i], now) \in Int
  BY <1>1, Room DEF AvailableIsRoom
<1>4. f \in [S -> Int]
  BY <1>3
<1>5. PICK i \in S : FirstBest(f, S, i)
  <2> HIDE DEF S, f
  <2> QED
    BY <1>2, <1>4, FirstBestExists
<1>6. ASSUME NEW j \in S
      PROVE  \/ available(list[i], now) < available(list[j], now)
             \/ available(list[i], now) = available(list[j], now) /\ i <= j
  <2> DEFINE a == available(list[i], now)  b == available(list[j], now)
  <2>1. f[j] < f[i] \/ (f[j] = f[i] /\ i <= j)
    BY <1>5 DEF FirstBest
  <2>2. f[j] = -b /\ f[i] = -a
    OBVIOUS
  <2>3. a \in Int /\ b \in Int
    BY <1>3
  <2> HIDE DEF a, b, f
  <2>4. a < b \/ (a = b /\ i <= j)
    BY <2>1, <2>2, <2>3
  <2> QED
    BY <2>4 DEF a, b
<1> QED
  BY <1>6 DEF Tightest

LEMMA RemainingIsExact ==
  ASSUME Inv, Inv'
  PROVE  RemainingExact
<1> SUFFICES ASSUME NEW list \in Requests, attempt(list)
    PROVE  LET left == Decision(list, now, 1).remaining
           IN  /\ \A k \in KeysOf(list): available(k, now)' >= left
               /\ \E k \in KeysOf(list): available(k, now)' = left
               /\ (left > 0) <=> (\A k \in KeysOf(list): allowed(k, now))'
  BY DEF RemainingExact
<1> DEFINE left == Decision(list, now, 1).remaining
           a(k) == available(k, now)
<1>1. \A j \in DOMAIN list : list[j] \in Keys
  BY RequestKeys DEF Inv
<1>2. \A j \in DOMAIN list : allowed(list[j], now)
  BY DEF attempt, Decision
<1>3. PICK i \in DOMAIN list : Tightest(list, now, i) /\ left = a(list[i]) - 1
  <2> DEFINE j == CHOOSE x \in DOMAIN list : Tightest(list, now, x)
  <2>1. left = a(list[j]) - 1
    BY <1>2 DEF Decision
  <2>2. j \in DOMAIN list /\ Tightest(list, now, j)
    BY TightestExists
  <2> HIDE DEF j, left, a
  <2> QED
    BY <2>1, <2>2
<1> HIDE DEF left
<1>5. KeysOf(list) \in SUBSET Keys /\ list[i] \in KeysOf(list)
  BY <1>1, <1>3 DEF KeysOf
<1>6. ASSUME NEW k \in KeysOf(list) PROVE Passes(k)
  <2>1. k \in Keys /\ allowed(k, now)
    BY <1>1, <1>2 DEF KeysOf
  <2> QED
    BY <2>1 DEF attempt, Passes
<1>7. ASSUME NEW k \in KeysOf(list)
      PROVE  a(k)' = a(k) - 1 /\ a(k) \in Int
  BY <1>5, <1>6, RuleTakes, Room DEF AvailableIsRoom
<1>8. ASSUME NEW k \in KeysOf(list) PROVE a(list[i]) <= a(k)
  <2>1. PICK j \in DOMAIN list : k = list[j]
    BY DEF KeysOf
  <2>2. a(list[i]) < a(k) \/ a(list[i]) = a(k)
    BY <1>3, <2>1 DEF Tightest
  <2>3. a(list[i]) \in Int /\ a(k) \in Int
    BY <1>5, <1>7
  <2> QED
    BY <2>2, <2>3
<1>9. ASSUME NEW k \in KeysOf(list) PROVE allowed(k, now)' <=> a(k)' >= 1
  <2>1. AvailableIsRoom'
    BY RoomNext
  <2>2. k \in Keys
    BY <1>5
  <2> QED
    BY <2>1, <2>2 DEF AvailableIsRoom, Keys
<1>10. a(list[i])' = left /\ left \in Int
  BY <1>3, <1>5, <1>7
<1>11. ASSUME NEW k \in KeysOf(list) PROVE a(k)' >= left /\ a(k)' \in Int
  <2>1. a(list[i]) \in Int /\ a(k) \in Int /\ a(k)' = a(k) - 1
    BY <1>5, <1>7
  <2>2. a(list[i]) <= a(k)
    BY <1>8
  <2> HIDE DEF a
  <2> QED
    BY <1>3, <2>1, <2>2
<1>12. (left > 0) <=> (\A k \in KeysOf(list) : allowed(k, now)')
  <2>1. ASSUME left > 0, NEW k \in KeysOf(list) PROVE allowed(k, now)'
    BY <1>9, <1>10, <1>11, <2>1
  <2>2. ASSUME \A k \in KeysOf(list) : allowed(k, now)' PROVE left > 0
    BY <1>5, <1>9, <1>10, <2>2
  <2> QED
    BY <2>1, <2>2
<1>13. (\A k \in KeysOf(list): allowed(k, now))' <=> (\A k \in KeysOf(list) : allowed(k, now)')
  BY DEF KeysOf
<1>14. \E k \in KeysOf(list) : available(k, now)' = left
  BY <1>5, <1>10
<1>15. \A k \in KeysOf(list) : available(k, now)' >= left
  BY <1>11
<1> QED
  BY <1>12, <1>13, <1>14, <1>15 DEF left

(* What the limiter answers is exact, if every bucket has room for a whole   *)
(* token: one with less never lets a request pass, and no wait is long       *)
(* enough.                                                                  *)
THEOREM AnswersAreExact ==
  ASSUME WholeTokens
  PROVE  Spec => AnswersExact
<1>1. Inv /\ Inv' => RetryAfterExact /\ RemainingExact
  BY RetryIsExact, RemainingIsExact
<1> QED
  BY <1>1, Invariance, PTL DEF Spec, AnswersExact

=============================================================================
