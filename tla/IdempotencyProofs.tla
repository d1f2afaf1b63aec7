------------------------- MODULE IdempotencyProofs -------------------------
(* Proofs about Idempotency, for any keys, attempts and durations.          *)
EXTENDS Idempotency, TLAPS

(* A record is a lock of an attempt on its own key, or the response of one  *)
(* whose handler took effect.                                               *)
LockOf(a, k) ==
  /\ record[k].state = "in-flight" /\ record[k].owner = a /\ record[k].resp = NoAttempt
  /\ KeyOf[a] = k /\ record[k].fp = FpOf[a]

ResponseOf(a, k) ==
  /\ record[k].state = "completed" /\ record[k].owner = NoAttempt /\ record[k].resp = a
  /\ a \in ran /\ KeyOf[a] = k /\ record[k].fp = FpOf[a]

RecordsMeant ==
  \A k \in Key : record[k] # NoRecord => \E a \in Attempt : LockOf(a, k) \/ ResponseOf(a, k)

(* Only a handler that took effect sends its response, only one that did not *)
(* gives its lock back.                                                      *)
ScriptsMeant ==
  \A a \in Attempt :
    /\ a \in ran => phase[a] \notin {"new", "running"}
    /\ "complete" \in sent[a] => a \in ran
    /\ "release" \in sent[a] => a \notin ran /\ phase[a] \notin {"new", "running"}

Holds(a) ==
  /\ record[KeyOf[a]] # NoRecord
  /\ record[KeyOf[a]].owner = a \/ record[KeyOf[a]].resp = a

(* From its lock on, an attempt keeps the key until its lock or response expires. *)
KeyKept ==
  \A a \in Attempt : phase[a] = "running" \/ a \in ran => a \in lapsed \/ Holds(a)

Inv == TypeOK /\ RecordsMeant /\ ScriptsMeant /\ KeyKept /\ ReplayIsGenuine

----------------------------------------------------------------------------
(* What the scripts write.                                                  *)

(* A duration rounded up is a positive number of whole milliseconds. *)
LEMMA WholeMs ==
  ASSUME NEW halves \in Nat \ {0}
  PROVE  toWholeMs(halves) % 2 = 0 /\ toWholeMs(halves) \div 2 \in Nat \ {0}
<1> DEFINE q == (halves + 1) \div 2
<1>1. q \in Nat /\ q >= 1
  OBVIOUS
<1>2. (2 * q) % 2 = 0 /\ (2 * q) \div 2 = q
  BY <1>1
<1> QED
  BY <1>1, <1>2 DEF toWholeMs

(* PEXPIRE accepts what toWholeMs returns, and sets nothing but the time to live. *)
LEMMA PexpireWhole ==
  ASSUME NEW r \in Record, NEW halves \in Nat \ {0}
  PROVE  LET s == Pexpire(r, toWholeMs(halves)) IN
         /\ s \in Record /\ s.ttl \in Nat \ {0}
         /\ s.state = r.state /\ s.fp = r.fp /\ s.owner = r.owner /\ s.resp = r.resp
<1>1. Pexpire(r, toWholeMs(halves)) = [r EXCEPT !.ttl = toWholeMs(halves) \div 2]
  BY WholeMs DEF Pexpire
<1>2. toWholeMs(halves) \div 2 \in Nat \ {0}
  BY WholeMs
<1> QED
  BY <1>1, <1>2 DEF Record

Completed(r, a) ==
  Pexpire([r EXCEPT !.state = "completed", !.resp = a, !.owner = NoAttempt], toWholeMs(Ttl))

Extended(r) == Pexpire(r, toWholeMs(LockTtl))

LEMMA LockedFields ==
  ASSUME NEW a \in Attempt
  PROVE  /\ Locked(a) \in Record /\ Locked(a).ttl \in Nat \ {0}
         /\ Locked(a).state = "in-flight" /\ Locked(a).fp = FpOf[a]
         /\ Locked(a).owner = a /\ Locked(a).resp = NoAttempt
<1> DEFINE r == [state |-> "in-flight", fp |-> FpOf[a], owner |-> a, resp |-> NoAttempt, ttl |-> NoTtl]
<1>1. r \in Record
  BY IdempotencyAssumption DEF Record
<1>2. Locked(a) = Pexpire(r, toWholeMs(LockTtl))
  BY DEF Locked
<1> HIDE DEF r
<1>3. /\ Locked(a) \in Record /\ Locked(a).ttl \in Nat \ {0}
      /\ Locked(a).state = r.state /\ Locked(a).fp = r.fp
      /\ Locked(a).owner = r.owner /\ Locked(a).resp = r.resp
  BY <1>1, <1>2, PexpireWhole, IdempotencyAssumption
<1> QED
  BY <1>3 DEF r

LEMMA CompletedFields ==
  ASSUME NEW a \in Attempt, NEW r \in Record
  PROVE  /\ Completed(r, a) \in Record /\ Completed(r, a).ttl \in Nat \ {0}
         /\ Completed(r, a).state = "completed" /\ Completed(r, a).fp = r.fp
         /\ Completed(r, a).owner = NoAttempt /\ Completed(r, a).resp = a
<1> DEFINE s == [r EXCEPT !.state = "completed", !.resp = a, !.owner = NoAttempt]
<1>1. s \in Record /\ s.state = "completed" /\ s.fp = r.fp /\ s.owner = NoAttempt /\ s.resp = a
  BY DEF Record
<1>2. Completed(r, a) = Pexpire(s, toWholeMs(Ttl))
  BY DEF Completed
<1> HIDE DEF s
<1> QED
  BY <1>1, <1>2, PexpireWhole, IdempotencyAssumption

LEMMA ExtendedFields ==
  ASSUME NEW r \in Record
  PROVE  /\ Extended(r) \in Record /\ Extended(r).ttl \in Nat \ {0}
         /\ Extended(r).state = r.state /\ Extended(r).fp = r.fp
         /\ Extended(r).owner = r.owner /\ Extended(r).resp = r.resp
  BY PexpireWhole, IdempotencyAssumption DEF Extended

LEMMA NoRecordIsNone ==
  NoRecord \notin Record
  BY IdempotencyAssumption DEF Record

----------------------------------------------------------------------------
(* The ways a step changes the record of a key.                             *)

Unchanged(k) == record'[k] = record[k]

CountsDown(k) ==
  /\ record[k] # NoRecord /\ record[k].ttl # 1
  /\ record'[k] = [record[k] EXCEPT !.ttl = @ - 1]

Expires(k) ==
  /\ record[k] # NoRecord /\ record[k].ttl = 1 /\ record'[k] = NoRecord
  /\ record[k].owner \in lapsed' /\ record[k].resp \in lapsed'

Locks(k, a) == record[k] = NoRecord /\ record'[k] = Locked(a) /\ KeyOf[a] = k

Executes(k, a, script) ==
  /\ Owns(a) /\ KeyOf[a] = k /\ script \in sent[a] /\ script \notin sent'[a]
  /\ \/ script = "complete" /\ record'[k] = Completed(record[k], a)
     \/ script = "release" /\ record'[k] = NoRecord
     \/ script = "extend" /\ record'[k] = Extended(record[k])

RecordChanges(k) ==
  \/ Unchanged(k) \/ CountsDown(k) \/ Expires(k)
  \/ \E a \in Attempt : Locks(k, a)
  \/ \E a \in Attempt, script \in Script : Executes(k, a, script)

LEMMA RecordStep ==
  ASSUME TypeOK, [Next]_vars, NEW k \in Key
  PROVE  RecordChanges(k)
<1> USE IdempotencyAssumption
<1>1. ASSUME NEW a \in Attempt, Acquired(a) \/ AcquireUnanswered(a)
      PROVE  RecordChanges(k)
  BY <1>1 DEF TypeOK, Acquired, AcquireUnanswered, ACQUIRE, RecordChanges, Unchanged, Locks
<1>2. ASSUME NEW a \in Attempt,
             Mismatch(a) \/ Existing(a) \/ HandlerEnds(a) \/ Heartbeat(a) \/ Crash(a)
      PROVE  RecordChanges(k)
  BY <1>2 DEF Mismatch, Existing, HandlerEnds, HandlerSucceeds, HandlerFails, Heartbeat, Crash,
     RecordChanges, Unchanged
<1>3. ASSUME NEW a \in Attempt, NEW script \in Script, Execute(a, script)
      PROVE  RecordChanges(k)
  <2>1. script \in sent[a] /\ script \notin sent'[a]
    BY <1>3 DEF Execute, TypeOK
  <2>2. CASE script = "complete" /\ COMPLETE(a)
    BY <2>1, <2>2 DEF TypeOK, COMPLETE, Completed, RecordChanges, Unchanged, Executes
  <2>3. CASE script = "release" /\ RELEASE(a)
    BY <2>1, <2>3 DEF TypeOK, RELEASE, RecordChanges, Unchanged, Executes
  <2>4. CASE script = "extend" /\ EXTEND(a)
    BY <2>1, <2>4 DEF TypeOK, EXTEND, Extended, RecordChanges, Unchanged, Executes
  <2> QED
    BY <1>3, <2>2, <2>3, <2>4 DEF Execute
<1>4. CASE Tick
  <2>1. CASE k \in Expiring
    BY <1>4, <2>1 DEF Tick, Expiring, Expires, RecordChanges
  <2>2. CASE k \notin Expiring
    BY <1>4, <2>2 DEF Tick, Expiring, CountsDown, Unchanged, RecordChanges
  <2> QED
    BY <2>1, <2>2
<1>5. CASE UNCHANGED vars
  BY <1>5 DEF vars, RecordChanges, Unchanged
<1> QED
  BY <1>1, <1>2, <1>3, <1>4, <1>5 DEF Next

----------------------------------------------------------------------------
(* Types.                                                                   *)

LEMMA RecordDomain ==
  ASSUME TypeOK, [Next]_vars
  PROVE  record' = [k \in Key |-> record'[k]]
<1> USE IdempotencyAssumption
<1>1. ASSUME NEW a \in Attempt, Acquired(a) \/ AcquireUnanswered(a)
      PROVE  record' = [k \in Key |-> record'[k]]
  BY <1>1 DEF TypeOK, Acquired, AcquireUnanswered, ACQUIRE
<1>2. ASSUME NEW a \in Attempt,
             Mismatch(a) \/ Existing(a) \/ HandlerEnds(a) \/ Heartbeat(a) \/ Crash(a)
      PROVE  record' = [k \in Key |-> record'[k]]
  BY <1>2 DEF TypeOK, Mismatch, Existing, HandlerEnds, HandlerSucceeds, HandlerFails, Heartbeat, Crash
<1>3. ASSUME NEW a \in Attempt, NEW script \in Script, Execute(a, script)
      PROVE  record' = [k \in Key |-> record'[k]]
  BY <1>3 DEF TypeOK, Execute, COMPLETE, RELEASE, EXTEND
<1>4. CASE Tick
  BY <1>4 DEF Tick
<1>5. CASE UNCHANGED vars
  BY <1>5 DEF TypeOK, vars
<1> QED
  BY <1>1, <1>2, <1>3, <1>4, <1>5 DEF Next

LEMMA RecordTyped ==
  ASSUME TypeOK, [Next]_vars, NEW k \in Key
  PROVE  /\ record'[k] \in Record \cup {NoRecord}
         /\ record'[k] # NoRecord => record'[k].ttl \in Nat \ {0}
<1>1. record[k] \in Record \cup {NoRecord} /\ (record[k] # NoRecord => record[k].ttl \in Nat \ {0})
  BY DEF TypeOK
<1>2. CASE Unchanged(k) \/ Expires(k)
  BY <1>1, <1>2 DEF Unchanged, Expires
<1>3. CASE CountsDown(k)
  BY <1>1, <1>3 DEF CountsDown, Record
<1>4. CASE \E a \in Attempt : Locks(k, a)
  BY <1>4, LockedFields DEF Locks
<1>5. CASE \E a \in Attempt, script \in Script : Executes(k, a, script)
  BY <1>1, <1>5, CompletedFields, ExtendedFields, IdempotencyAssumption DEF Executes, Owns
<1> QED
  BY <1>2, <1>3, <1>4, <1>5, RecordStep DEF RecordChanges

LEMMA OthersTyped ==
  ASSUME TypeOK, RecordsMeant, [Next]_vars
  PROVE  /\ phase' \in [Attempt -> Phase] /\ sent' \in [Attempt -> SUBSET Script]
         /\ answer' \in [Attempt -> Answer] /\ ran' \subseteq Attempt
         /\ lapsed' \subseteq Attempt \cup {NoAttempt}
<1> DEFINE Goal == /\ phase' \in [Attempt -> Phase] /\ sent' \in [Attempt -> SUBSET Script]
                   /\ answer' \in [Attempt -> Answer] /\ ran' \subseteq Attempt
                   /\ lapsed' \subseteq Attempt \cup {NoAttempt}
<1>1. ASSUME NEW a \in Attempt, Acquired(a)
      PROVE  Goal
  BY <1>1 DEF TypeOK, Acquired, Phase
<1>2. ASSUME NEW a \in Attempt, AcquireUnanswered(a) \/ Mismatch(a)
      PROVE  Goal
  BY <1>2 DEF TypeOK, AcquireUnanswered, Mismatch, Reply, Phase, Answer
<1>3. ASSUME NEW a \in Attempt, Existing(a)
      PROVE  Goal
  <2>1. record[KeyOf[a]] \in Record
    BY <1>3, IdempotencyAssumption DEF TypeOK, Existing
  <2>2. record[KeyOf[a]].resp \in Attempt \cup {NoAttempt}
    BY <2>1 DEF Record
  <2> QED
    BY <1>3, <2>2 DEF TypeOK, Existing, Reply, Phase, Answer
<1>4. ASSUME NEW a \in Attempt, HandlerEnds(a) \/ Heartbeat(a)
      PROVE  Goal
  BY <1>4 DEF TypeOK, HandlerEnds, HandlerSucceeds, HandlerFails, Heartbeat, Send, Phase, Script
<1>5. ASSUME NEW a \in Attempt, Crash(a)
      PROVE  Goal
  BY <1>5 DEF TypeOK, Crash, Phase
<1>6. ASSUME NEW a \in Attempt, NEW script \in Script, Execute(a, script)
      PROVE  Goal
  <2>1. UNCHANGED <<phase, answer>> \/ Reply(a, "own", a) \/ Reply(a, "error", NoAttempt)
    BY <1>6 DEF Execute, Script
  <2>2. phase' \in [Attempt -> Phase] /\ answer' \in [Attempt -> Answer]
    BY <2>1 DEF TypeOK, Reply, Phase, Answer
  <2>3. sent' \in [Attempt -> SUBSET Script] /\ UNCHANGED <<ran, lapsed>>
    BY <1>6 DEF TypeOK, Execute
  <2> QED
    BY <2>2, <2>3 DEF TypeOK
<1>7. CASE Tick
  <2>1. \A k \in Expiring : /\ record[k].owner \in Attempt \cup {NoAttempt}
                            /\ record[k].resp \in Attempt \cup {NoAttempt}
    BY DEF TypeOK, Expiring, Record
  <2> QED
    BY <1>7, <2>1 DEF TypeOK, Tick
<1>8. CASE UNCHANGED vars
  BY <1>8 DEF TypeOK, vars
<1> QED
  BY <1>1, <1>2, <1>3, <1>4, <1>5, <1>6, <1>7, <1>8 DEF Next

LEMMA TypeStep ==
  ASSUME TypeOK, RecordsMeant, [Next]_vars
  PROVE  TypeOK'
<1>1. record' \in [Key -> Record \cup {NoRecord}]
  BY RecordDomain, RecordTyped
<1> QED
  BY <1>1, RecordTyped, OthersTyped DEF TypeOK

----------------------------------------------------------------------------
(* The invariant.                                                           *)

LEMMA HistoryGrows ==
  ASSUME [Next]_vars
  PROVE  ran \subseteq ran' /\ lapsed \subseteq lapsed'
  BY DEF Next, Acquired, AcquireUnanswered, Mismatch, Existing, HandlerEnds, HandlerSucceeds,
     HandlerFails, Heartbeat, Crash, Execute, Tick, vars

(* The owner and the response of a live record. *)
LEMMA MeantFields ==
  ASSUME RecordsMeant, NEW k \in Key, record[k] # NoRecord
  PROVE  \/ /\ record[k].owner \in Attempt /\ LockOf(record[k].owner, k)
         \/ /\ record[k].resp \in Attempt /\ ResponseOf(record[k].resp, k)
  BY DEF RecordsMeant, LockOf, ResponseOf

LEMMA RecordsMeantStep ==
  ASSUME TypeOK, RecordsMeant, ScriptsMeant, [Next]_vars
  PROVE  RecordsMeant'
<1> SUFFICES ASSUME NEW k \in Key, record'[k] # NoRecord
             PROVE  \E a \in Attempt : LockOf(a, k)' \/ ResponseOf(a, k)'
  BY DEF RecordsMeant
<1>1. record[k] # NoRecord => record[k] \in Record
  BY DEF TypeOK
<1>2. ASSUME record[k] # NoRecord, record'[k].state = record[k].state, record'[k].fp = record[k].fp,
             record'[k].owner = record[k].owner, record'[k].resp = record[k].resp
      PROVE  \E a \in Attempt : LockOf(a, k)' \/ ResponseOf(a, k)'
  <2>1. PICK a \in Attempt : LockOf(a, k) \/ ResponseOf(a, k)
    BY <1>2 DEF RecordsMeant
  <2> QED
    BY <1>2, <2>1, HistoryGrows DEF LockOf, ResponseOf
<1>3. CASE Unchanged(k)
  BY <1>2, <1>3 DEF Unchanged
<1>4. CASE CountsDown(k)
  BY <1>1, <1>2, <1>4 DEF CountsDown, Record
<1>5. CASE Expires(k)
  BY <1>5 DEF Expires
<1>6. CASE \E a \in Attempt : Locks(k, a)
  BY <1>6, LockedFields DEF Locks, LockOf
<1>7. ASSUME NEW a \in Attempt, NEW script \in Script, Executes(k, a, script)
      PROVE  \E b \in Attempt : LockOf(b, k)' \/ ResponseOf(b, k)'
  <2>1. record[k] # NoRecord /\ record[k].owner = a /\ KeyOf[a] = k
    BY <1>7 DEF Executes, Owns
  <2>2. record[k] \in Record /\ LockOf(a, k)
    BY <1>1, <2>1, MeantFields, IdempotencyAssumption DEF LockOf, ResponseOf
  <2>3. CASE script = "complete" /\ record'[k] = Completed(record[k], a)
    <3>1. a \in ran'
      BY <1>7, <2>3, HistoryGrows DEF Executes, ScriptsMeant
    <3> QED
      BY <2>1, <2>2, <2>3, <3>1, CompletedFields DEF LockOf, ResponseOf
  <2>4. CASE record'[k] = Extended(record[k])
    BY <1>2, <2>1, <2>2, <2>4, ExtendedFields
  <2> QED
    BY <1>7, <2>3, <2>4 DEF Executes
<1> QED
  BY <1>3, <1>4, <1>5, <1>6, <1>7, RecordStep DEF RecordChanges

LEMMA ScriptsMeantStep ==
  ASSUME TypeOK, ScriptsMeant, [Next]_vars
  PROVE  ScriptsMeant'
<1>1. ASSUME NEW a \in Attempt, Acquired(a)
      PROVE  ScriptsMeant'
  BY <1>1 DEF TypeOK, ScriptsMeant, Acquired
<1>2. ASSUME NEW a \in Attempt, AcquireUnanswered(a) \/ Mismatch(a) \/ Existing(a)
      PROVE  ScriptsMeant'
  BY <1>2 DEF TypeOK, ScriptsMeant, AcquireUnanswered, Mismatch, Existing, Reply
<1>3. ASSUME NEW a \in Attempt, HandlerEnds(a)
      PROVE  ScriptsMeant'
  BY <1>3 DEF TypeOK, ScriptsMeant, HandlerEnds, HandlerSucceeds, HandlerFails, Send
<1>4. ASSUME NEW a \in Attempt, Heartbeat(a)
      PROVE  ScriptsMeant'
  BY <1>4 DEF TypeOK, ScriptsMeant, Heartbeat, Send
<1>5. ASSUME NEW a \in Attempt, Crash(a)
      PROVE  ScriptsMeant'
  BY <1>5 DEF TypeOK, ScriptsMeant, Crash
<1>6. ASSUME NEW a \in Attempt, NEW script \in Script, Execute(a, script)
      PROVE  ScriptsMeant'
  <2>1. UNCHANGED phase \/ phase' = [phase EXCEPT ![a] = "done"]
    BY <1>6 DEF Execute, Reply, Script
  <2>2. sent' = [sent EXCEPT ![a] = @ \ {script}] /\ ran' = ran
    BY <1>6 DEF Execute
  <2> QED
    BY <2>1, <2>2 DEF TypeOK, ScriptsMeant
<1>7. CASE Tick \/ UNCHANGED vars
  BY <1>7 DEF ScriptsMeant, Tick, vars
<1> QED
  BY <1>1, <1>2, <1>3, <1>4, <1>5, <1>6, <1>7 DEF Next

(* An attempt starts to run with the lock, and takes effect while running. *)
LEMMA KeyUsers ==
  ASSUME TypeOK, [Next]_vars, NEW a \in Attempt, phase'[a] = "running" \/ a \in ran'
  PROVE  phase[a] = "running" \/ a \in ran \/ Acquired(a)
<1>1. ASSUME NEW b \in Attempt, Acquired(b)
      PROVE  phase[a] = "running" \/ a \in ran \/ Acquired(a)
  BY <1>1 DEF TypeOK, Acquired
<1>2. ASSUME NEW b \in Attempt, AcquireUnanswered(b) \/ Mismatch(b) \/ Existing(b)
      PROVE  phase[a] = "running" \/ a \in ran
  BY <1>2 DEF TypeOK, AcquireUnanswered, Mismatch, Existing, Reply
<1>3. ASSUME NEW b \in Attempt, HandlerEnds(b) \/ Heartbeat(b) \/ Crash(b)
      PROVE  phase[a] = "running" \/ a \in ran
  BY <1>3 DEF TypeOK, HandlerEnds, HandlerSucceeds, HandlerFails, Heartbeat, Crash
<1>4. ASSUME NEW b \in Attempt, NEW script \in Script, Execute(b, script)
      PROVE  phase[a] = "running" \/ a \in ran
  <2>1. UNCHANGED phase \/ phase' = [phase EXCEPT ![b] = "done"]
    BY <1>4 DEF Execute, Reply, Script
  <2> QED
    BY <1>4, <2>1 DEF TypeOK, Execute
<1>5. CASE Tick \/ UNCHANGED vars
  BY <1>5 DEF Tick, vars
<1> QED
  BY <1>1, <1>2, <1>3, <1>4, <1>5 DEF Next

LEMMA KeyKeptStep ==
  ASSUME TypeOK, RecordsMeant, ScriptsMeant, KeyKept, [Next]_vars
  PROVE  KeyKept'
<1> USE IdempotencyAssumption
<1> SUFFICES ASSUME NEW a \in Attempt, phase'[a] = "running" \/ a \in ran', a \notin lapsed'
             PROVE  Holds(a)'
  BY DEF KeyKept
<1> DEFINE k == KeyOf[a]
<1>1. CASE Acquired(a)
  <2>1. record'[k] = Locked(a)
    BY <1>1 DEF TypeOK, Acquired, ACQUIRE
  <2> QED
    BY <2>1, LockedFields, NoRecordIsNone DEF Holds
<1>2. CASE phase[a] = "running" \/ a \in ran
  <2>1. Holds(a)
    BY <1>2, HistoryGrows DEF KeyKept
  <2>2. k \in Key /\ record[k] # NoRecord /\ record[k] \in Record
    BY <2>1 DEF Holds, TypeOK
  <2>3. record[k].owner = a \/ record[k].resp = a
    BY <2>1 DEF Holds
  <2>4. CASE Unchanged(k)
    BY <2>2, <2>3, <2>4 DEF Unchanged, Holds
  <2>5. CASE CountsDown(k)
    <3>1. record[k].ttl - 1 \in Nat
      BY <2>2 DEF TypeOK
    <3>2. record'[k] \in Record /\ record'[k].owner = record[k].owner /\ record'[k].resp = record[k].resp
      BY <2>2, <2>5, <3>1 DEF CountsDown, Record
    <3> QED
      BY <2>3, <3>2, NoRecordIsNone DEF Holds
  <2>6. ~Expires(k)
    BY <2>3 DEF Expires
  <2>7. ~\E b \in Attempt : Locks(k, b)
    BY <2>2 DEF Locks
  <2>8. ASSUME NEW b \in Attempt, NEW script \in Script, Executes(k, b, script)
        PROVE  Holds(a)'
    <3>1. LockOf(b, k)
      BY <2>2, <2>8, MeantFields DEF Executes, Owns, LockOf, ResponseOf
    <3>2. b = a
      BY <2>3, <3>1 DEF LockOf
    <3>3. script # "release"
      BY <1>2, <2>8, <3>2 DEF Executes, ScriptsMeant
    <3>4. CASE record'[k] = Completed(record[k], b)
      BY <2>2, <3>2, <3>4, CompletedFields, NoRecordIsNone DEF Holds
    <3>5. CASE record'[k] = Extended(record[k])
      BY <2>2, <2>3, <3>5, ExtendedFields, NoRecordIsNone DEF Holds
    <3> QED
      BY <2>8, <3>3, <3>4, <3>5 DEF Executes
  <2> QED
    BY <2>2, <2>4, <2>5, <2>6, <2>7, <2>8, RecordStep DEF RecordChanges
<1> QED
  BY <1>1, <1>2, KeyUsers

LEMMA ReplayStep ==
  ASSUME TypeOK, RecordsMeant, ReplayIsGenuine, [Next]_vars
  PROVE  ReplayIsGenuine'
<1> SUFFICES ASSUME NEW a \in Attempt, answer'[a].kind = "replay"
             PROVE  /\ answer'[a].from \in ran'
                    /\ KeyOf[answer'[a].from] = KeyOf[a] /\ FpOf[answer'[a].from] = FpOf[a]
  BY DEF ReplayIsGenuine
<1>1. CASE answer'[a] = answer[a]
  BY <1>1, HistoryGrows DEF ReplayIsGenuine
<1>2. CASE Existing(a) /\ answer'[a] # answer[a]
  <2>1. record[KeyOf[a]].state = "completed" /\ answer'[a].from = record[KeyOf[a]].resp
    BY <1>2 DEF TypeOK, Existing, Reply
  <2>2. KeyOf[a] \in Key /\ record[KeyOf[a]] # NoRecord /\ record[KeyOf[a]].fp = FpOf[a]
    BY <1>2, IdempotencyAssumption DEF Existing
  <2>3. ResponseOf(record[KeyOf[a]].resp, KeyOf[a])
    BY <2>1, <2>2, MeantFields DEF LockOf
  <2> QED
    BY <2>1, <2>2, <2>3, HistoryGrows DEF ResponseOf
<1>3. answer'[a] = answer[a] \/ Existing(a)
  <2>1. ASSUME NEW b \in Attempt, AcquireUnanswered(b) \/ Mismatch(b)
        PROVE  answer'[a] = answer[a]
    BY <2>1 DEF TypeOK, AcquireUnanswered, Mismatch, Reply
  <2>2. ASSUME NEW b \in Attempt, Existing(b)
        PROVE  answer'[a] = answer[a] \/ Existing(a)
    BY <2>2 DEF TypeOK, Existing, Reply
  <2>3. ASSUME NEW b \in Attempt,
               Acquired(b) \/ HandlerEnds(b) \/ Heartbeat(b) \/ Crash(b)
        PROVE  answer'[a] = answer[a]
    BY <2>3 DEF Acquired, HandlerEnds, HandlerSucceeds, HandlerFails, Heartbeat, Crash
  <2>4. ASSUME NEW b \in Attempt, NEW script \in Script, Execute(b, script)
        PROVE  answer'[a] = answer[a]
    <3>1. UNCHANGED answer \/ Reply(b, "own", b) \/ Reply(b, "error", NoAttempt)
      BY <2>4 DEF Execute, Script
    <3> QED
      BY <3>1 DEF TypeOK, Reply
  <2>5. CASE Tick \/ UNCHANGED vars
    BY <2>5 DEF Tick, vars
  <2> QED
    BY <2>1, <2>2, <2>3, <2>4, <2>5 DEF Next
<1> QED
  BY <1>1, <1>2, <1>3

LEMMA InvInit ==
  Init => Inv
<1> USE IdempotencyAssumption
<1> SUFFICES ASSUME Init PROVE Inv
  OBVIOUS
<1>1. TypeOK
  BY DEF Init, TypeOK, Phase, Answer
<1>2. RecordsMeant /\ ScriptsMeant /\ KeyKept /\ ReplayIsGenuine
  BY DEF Init, RecordsMeant, ScriptsMeant, KeyKept, ReplayIsGenuine
<1> QED
  BY <1>1, <1>2 DEF Inv

LEMMA InvStep ==
  Inv /\ [Next]_vars => Inv'
  BY TypeStep, RecordsMeantStep, ScriptsMeantStep, KeyKeptStep, ReplayStep DEF Inv

LEMMA Invariance ==
  Spec => []Inv
<1> QED
  BY InvInit, InvStep, PTL DEF Spec

----------------------------------------------------------------------------
(* Every record is well formed and has a time to live. *)
THEOREM TypeCorrect ==
  Spec => []TypeOK
<1>1. Inv => TypeOK
  BY DEF Inv
<1> QED
  BY <1>1, Invariance, PTL

(* Two handlers of one key both take effect only if a lock or a stored      *)
(* response of one of them expired.                                         *)
THEOREM OneEffectPerLifetime ==
  Spec => []OneEffectPerLife
<1>1. Inv => OneEffectPerLife
  <2> SUFFICES ASSUME Inv, NEW a \in ran, NEW b \in ran, KeyOf[a] = KeyOf[b],
                      a \notin lapsed, b \notin lapsed
               PROVE  a = b
    BY DEF OneEffectPerLife
  <2>1. a \in Attempt /\ b \in Attempt
    BY DEF Inv, TypeOK
  <2>2. Holds(a) /\ Holds(b)
    BY <2>1 DEF Inv, KeyKept
  <2>3. KeyOf[a] \in Key /\ record[KeyOf[a]] # NoRecord
    BY <2>1, <2>2, IdempotencyAssumption DEF Holds
  <2> QED
    BY <2>1, <2>2, <2>3, MeantFields, IdempotencyAssumption DEF Inv, Holds, LockOf, ResponseOf
<1> QED
  BY <1>1, Invariance, PTL

(* A replayed response is that of a handler that took effect, for the same *)
(* key and request.                                                        *)
THEOREM ReplaysAreGenuine ==
  Spec => []ReplayIsGenuine
<1>1. Inv => ReplayIsGenuine
  BY DEF Inv
<1> QED
  BY <1>1, Invariance, PTL

(* A live record changes only by its owner's script or its countdown. *)
THEOREM OnlyOwnersWrite ==
  Spec => OnlyOwnerWrites
<1>1. ASSUME TypeOK, [Next]_vars, NEW k \in Key, record[k] # NoRecord
      PROVE  \/ record'[k] = record[k]
             \/ record[k].ttl = 1 /\ record'[k] = NoRecord
             \/ record'[k] = [record[k] EXCEPT !.ttl = @ - 1]
             \/ record[k].owner \in Attempt /\ sent'[record[k].owner] # sent[record[k].owner]
  BY <1>1, RecordStep DEF RecordChanges, Unchanged, CountsDown, Expires, Locks, Executes, Owns
<1>2. TypeOK /\ [Next]_vars =>
        [\A k \in Key : record[k] # NoRecord =>
           \/ record'[k] = record[k]
           \/ record[k].ttl = 1 /\ record'[k] = NoRecord
           \/ record'[k] = [record[k] EXCEPT !.ttl = @ - 1]
           \/ record[k].owner \in Attempt /\ sent'[record[k].owner] # sent[record[k].owner]]_vars
  BY <1>1
<1> QED
  BY <1>2, TypeCorrect, PTL DEF Spec, OnlyOwnerWrites

=============================================================================
