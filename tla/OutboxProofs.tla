---------------------------- MODULE OutboxProofs ----------------------------
(***************************************************************************)
(* Safety of the outbox for any number of messages, keys, producers,       *)
(* relays and operators, any clock skew and any bounds.                    *)
(***************************************************************************)
EXTENDS Outbox, Integers, FiniteSetTheorems, WellFoundedInduction, TLAPS

-----------------------------------------------------------------------------
(* Type correctness *)

LEMMA InitTypeOK == Init => TypeOK
BY ConstantsAssumption DEF Init, TypeOK, ConstantsAssumption

LEMMA CountDownTyped ==
  ASSUME NEW f \in [Msg -> Nat]
  PROVE  CountDown(f) \in [Msg -> Nat] /\ \A m \in Msg : f[m] = 0 => CountDown(f)[m] = 0
BY DEF CountDown

LEMMA NextTypeOK == TypeOK /\ [Next]_vars => TypeOK'
<1> SUFFICES ASSUME TypeOK, [Next]_vars PROVE TypeOK'
  OBVIOUS
<1> USE DEF TypeOK, prodVars, rowVars, claimVars, relayVars, boundVars, histVars
<1>1. ASSUME NEW p \in Producer, NEW S \in SUBSET Msg, BeginAdd(p, S) PROVE TypeOK'
  BY <1>1 DEF BeginAdd
<1>2. ASSUME NEW p \in Producer, NEW l \in Lock, LockKey(p, l) PROVE TypeOK'
  BY <1>2 DEF LockKey, NextLock, Missing
<1>3. ASSUME NEW p \in Producer, Insert(p) PROVE TypeOK'
  <2>1. IsFiniteSet(adding[p])
    BY ConstantsAssumption, FS_Subset DEF ConstantsAssumption
  <2>2. Cardinality(adding[p]) \in Nat
    BY <2>1, FS_CardinalityType
  <2>3. nextSeq' \in Nat
    BY <1>3, <2>2 DEF Insert
  <2>4. seq' \in [Msg -> Nat] /\ delay' \in [Msg -> Nat]
    <3>1. PICK number \in [adding[p] ->
                             nextSeq .. nextSeq + Cardinality(adding[p]) - 1],
               d \in 0 .. MaxDelay :
            /\ seq' = [m \in Msg |-> IF m \in adding[p] THEN number[m] ELSE seq[m]]
            /\ delay' = [m \in Msg |-> IF m \in adding[p] THEN d ELSE delay[m]]
      BY <1>3 DEF Insert
    <3>2. d \in Nat /\ \A m \in adding[p] : number[m] \in Nat
      BY <2>2 DEF ConstantsAssumption
    <3> QED
      BY <3>1, <3>2
  <2> QED
    BY <1>3, <2>3, <2>4 DEF Insert
<1>4. ASSUME NEW p \in Producer, Commit(p) PROVE TypeOK'
  BY <1>4 DEF Commit, EndTransaction
<1>5. ASSUME NEW p \in Producer, Rollback(p) PROVE TypeOK'
  BY <1>5 DEF Rollback, EndTransaction
<1>6. ASSUME NEW r \in Relay, ClaimScan(r) PROVE TypeOK'
  BY <1>6 DEF ClaimScan
<1>7. ASSUME NEW r \in Relay, ClaimLock(r) PROVE TypeOK'
  BY <1>7 DEF ClaimLock, Lockable
<1>8. ASSUME NEW r \in Relay, ClaimCommit(r) PROVE TypeOK'
  <2>1. LeaseTicks + ClockAhead[r] \in Nat /\ r # NoRelay
    BY ConstantsAssumption DEF ConstantsAssumption
  <2>2. \A m \in Msg : leaseOwner'[m] = NoRelay => lease'[m] = 0
    BY <1>8, <2>1 DEF ClaimCommit
  <2> QED
    BY <1>8, <2>1, <2>2 DEF ClaimCommit
<1>9. ASSUME NEW r \in Relay, NEW m \in Msg, Publish(r, m) PROVE TypeOK'
  BY <1>9 DEF Publish, StartWrite, Write, Op
<1>10. ASSUME NEW r \in Relay, NEW m \in Msg, PublishFails(r, m) PROVE TypeOK'
  BY <1>10 DEF PublishFails, StartWrite, RestOfKey, Write, Op
<1>11. ASSUME NEW r \in Relay, LockRow(r) PROVE TypeOK'
  <2>1. write[r] \in Write
    BY <1>11 DEF LockRow
  <2>2. [write[r] EXCEPT !.held = TRUE] \in Write
    BY <2>1 DEF Write
  <2> QED
    BY <1>11, <2>2 DEF LockRow
<1>12. ASSUME NEW r \in Relay, MarkPublished(r) PROVE TypeOK'
  BY <1>12 DEF MarkPublished, Writing, EndWrite, ClearLease, Write
<1>13. ASSUME NEW r \in Relay, Reschedule(r) PROVE TypeOK'
  <2>1. Backoff + ClockAhead[r] \in Nat
    BY ConstantsAssumption DEF ConstantsAssumption
  <2>2. write[r].msg \in Msg
    BY <1>13 DEF Reschedule, Writing, Write
  <2> QED
    BY <1>13, <2>1, <2>2 DEF Reschedule, Writing, EndWrite, ClearLease
<1>14. ASSUME NEW r \in Relay, DeadLetter(r) PROVE TypeOK'
  BY <1>14 DEF DeadLetter, Writing, EndWrite, ClearLease, Write
<1>15. ASSUME NEW r \in Relay, Release(r) PROVE TypeOK'
  BY <1>15 DEF Release, ClearLease
<1>16. ASSUME NEW r \in Relay, Shutdown(r) PROVE TypeOK'
  BY <1>16 DEF Shutdown
<1>17. ASSUME NEW r \in Relay, Crash(r) PROVE TypeOK'
  BY <1>17 DEF Crash
<1>18. ASSUME NEW S \in SUBSET Msg, RequeueDeadLetters(S) PROVE TypeOK'
  BY <1>18 DEF RequeueDeadLetters, ClearLease
<1>19. ASSUME NEW S \in SUBSET Msg, PurgeDeadLetters(S) PROVE TypeOK'
  BY <1>19 DEF PurgeDeadLetters
<1>20. ASSUME Tick PROVE TypeOK'
  <2>1. delay' \in [Msg -> Nat] /\ lease' \in [Msg -> Nat]
    BY <1>20, CountDownTyped DEF Tick
  <2>2. \A m \in Msg : leaseOwner'[m] = NoRelay => lease'[m] = 0
    BY <1>20, CountDownTyped DEF Tick
  <2> QED
    BY <1>20, <2>1, <2>2 DEF Tick
<1>21. CASE UNCHANGED vars
  BY <1>21 DEF vars
<1> HIDE DEF TypeOK, prodVars, rowVars, claimVars, relayVars, boundVars, histVars
<1>22. ASSUME NEW p \in Producer, ProducerNext(p) PROVE TypeOK'
  BY <1>1, <1>2, <1>3, <1>4, <1>5, <1>22 DEF ProducerNext
<1>23. ASSUME NEW r \in Relay, RelayNext(r) PROVE TypeOK'
  BY <1>6, <1>7, <1>8, <1>9, <1>10, <1>11, <1>12, <1>13, <1>14, <1>15, <1>23
     DEF RelayNext
<1> QED
  BY <1>16, <1>17, <1>18, <1>19, <1>20, <1>21, <1>22, <1>23 DEF Next

(* Every variable keeps its type, whatever the constants are.                *)
THEOREM TypeCorrect == Spec => []TypeOK
BY InitTypeOK, NextTypeOK, PTL DEF Spec

-----------------------------------------------------------------------------
(* Numbering *)

seqVars == <<adding, inserted, keyLock, used, nextSeq, seq, committed, before>>

(* Only producers touch the sequence numbers and what is visible.            *)
LEMMA OthersLeaveSeq ==
  ASSUME [Next]_vars
  PROVE  \/ UNCHANGED seqVars
         \/ \E p \in Producer : ProducerNext(p)
<1> USE DEF prodVars, rowVars, claimVars, relayVars, boundVars, histVars, seqVars
<1>1. ASSUME NEW r \in Relay, RelayNext(r) \/ Shutdown(r) \/ Crash(r)
      PROVE  UNCHANGED seqVars
  BY <1>1 DEF RelayNext, ClaimScan, ClaimLock, ClaimCommit, Publish, PublishFails,
              LockRow, MarkPublished, Reschedule, DeadLetter, EndWrite, Release,
              Shutdown, Crash
<1>2. ASSUME NEW S \in SUBSET Msg, RequeueDeadLetters(S) \/ PurgeDeadLetters(S)
      PROVE  UNCHANGED seqVars
  BY <1>2 DEF RequeueDeadLetters, PurgeDeadLetters
<1>3. CASE Tick
  BY <1>3 DEF Tick
<1>4. CASE UNCHANGED vars
  BY <1>4 DEF vars
<1> QED
  BY <1>1, <1>2, <1>3, <1>4 DEF Next

LEMMA InitSeqInv == Init => SeqInv
BY DEF Init, SeqInv, Numbered

LEMMA SeqInvFrame == SeqInv /\ UNCHANGED seqVars => SeqInv'
BY DEF SeqInv, Numbered, seqVars

(* An insert numbers its rows above every row of the table.                  *)
LEMMA InsertSeqInv ==
  ASSUME TypeOK, SeqInv, NEW p \in Producer, Insert(p)
  PROVE  SeqInv'
<1> DEFINE n == Cardinality(adding[p])
<1>1. n \in Nat
  BY ConstantsAssumption, FS_Subset, FS_CardinalityType
     DEF TypeOK, ConstantsAssumption
<1>2. PICK number \in [adding[p] -> nextSeq .. nextSeq + n - 1] :
        /\ \A a, b \in adding[p] : number[a] = number[b] => a = b
        /\ seq' = [m \in Msg |-> IF m \in adding[p] THEN number[m] ELSE seq[m]]
  BY DEF Insert
<1>3. /\ nextSeq' = nextSeq + n
      /\ inserted' = [inserted EXCEPT ![p] = inserted[p] \cup adding[p]]
      /\ adding' = [adding EXCEPT ![p] = {}]
      /\ UNCHANGED <<keyLock, used, committed, before>>
  BY DEF Insert, histVars
<1> DEFINE new == adding[p]
<1> HIDE DEF n
<1>4. \A m \in new : seq'[m] = number[m] /\ seq'[m] >= nextSeq /\ seq'[m] < nextSeq'
  <2>1. nextSeq \in Int /\ new \subseteq Msg
    BY DEF TypeOK
  <2>2. \A m \in new : number[m] \in nextSeq .. nextSeq + n - 1
    BY <1>2
  <2> HIDE DEF new
  <2>3. \A m \in new : seq'[m] = number[m]
    BY <1>2, <2>1 DEF new
  <2> QED
    BY <1>1, <1>3, <2>1, <2>2, <2>3
<1>5. \A m \in Numbered : m \in Msg /\ m \notin new /\ seq'[m] = seq[m] /\ seq[m] < nextSeq
  BY <1>2 DEF TypeOK, SeqInv, Numbered
<1>6. Numbered' = Numbered \cup new
  BY <1>3 DEF Numbered, TypeOK
<1>7. \A m \in new : KeyOf[m] # NoKey => keyLock[LockOf[KeyOf[m]]] = p
  BY DEF Insert, Missing, keyLocks, TypeOK
<1>8. \A m \in Numbered' : seq'[m] < nextSeq'
  BY <1>1, <1>3, <1>4, <1>5, <1>6 DEF TypeOK
<1>9. \A a, b \in Numbered' : seq'[a] = seq'[b] => a = b
  <2> SUFFICES ASSUME NEW a \in Numbered', NEW b \in Numbered', seq'[a] = seq'[b]
               PROVE  a = b
    OBVIOUS
  <2>1. CASE a \in new /\ b \in new
    BY <2>1, <1>2, <1>4
  <2>2. CASE a \in Numbered /\ b \in Numbered
    BY <2>2, <1>5 DEF SeqInv
  <2>3. CASE a \in new /\ b \in Numbered
    BY <2>3, <1>4, <1>5 DEF TypeOK
  <2>4. CASE a \in Numbered /\ b \in new
    BY <2>4, <1>4, <1>5 DEF TypeOK
  <2> QED
    BY <2>1, <2>2, <2>3, <2>4, <1>6
<1>10. committed \subseteq Numbered
  BY DEF Numbered
<1>11. \A m \in committed' :
         before'[m] \subseteq {o \in committed' : SameKey(o, m) /\ seq'[o] < seq'[m]}
  BY <1>3, <1>5, <1>10 DEF SeqInv
<1>12. ASSUME NEW q \in Producer
       PROVE  /\ (adding[q] \cup inserted[q])' \subseteq (used \ committed)'
              /\ (adding[q] \cap inserted[q])' = {}
              /\ \A t \in Producer \ {q} :
                   ((adding[q] \cup inserted[q]) \cap (adding[t] \cup inserted[t]))' = {}
  BY <1>3 DEF SeqInv, TypeOK
<1>13. ASSUME NEW q \in Producer, NEW m \in inserted'[q]
       PROVE  /\ KeyOf[m] # NoKey => keyLock'[LockOf[KeyOf[m]]] = q
              /\ \A o \in committed' : SameKey(o, m) => seq'[o] < seq'[m]
  <2>1. CASE q = p /\ m \in new
    BY <2>1, <1>3, <1>4, <1>5, <1>7, <1>10 DEF TypeOK
  <2>2. CASE ~(q = p /\ m \in new)
    <3>1. m \in inserted[q] /\ m \in Numbered
      BY <2>2, <1>3 DEF TypeOK, Numbered
    <3> QED
      BY <3>1, <1>3, <1>5, <1>10 DEF SeqInv
  <2> QED
    BY <2>1, <2>2
<1> QED
  BY <1>3, <1>8, <1>9, <1>11, <1>12, <1>13 DEF SeqInv

(* A commit shows rows whose keys no other open transaction has locked.      *)
LEMMA CommitSeqInv ==
  ASSUME TypeOK, SeqInv, NEW p \in Producer, Commit(p)
  PROVE  SeqInv'
<1> DEFINE new == inserted[p]
<1>1. /\ committed' = committed \cup new
      /\ before' = [m \in Msg |->
           IF m \in new
           THEN {o \in committed : SameKey(o, m)}
                  \cup {o \in new : SameKey(o, m) /\ seq[o] < seq[m]}
           ELSE before[m]]
      /\ adding' = [adding EXCEPT ![p] = {}]
      /\ inserted' = [inserted EXCEPT ![p] = {}]
      /\ keyLock' = [l \in Lock |-> IF keyLock[l] = p THEN NoProducer ELSE keyLock[l]]
      /\ UNCHANGED <<used, nextSeq, seq>>
  BY DEF Commit, EndTransaction
<1>2. Numbered' = Numbered
  BY <1>1 DEF Numbered, TypeOK
<1>3. new \subseteq Msg /\ new \cap committed = {} /\ new \subseteq used
  BY DEF SeqInv, TypeOK
<1>4. \A q \in Producer \ {p} :
        adding'[q] = adding[q] /\ inserted'[q] = inserted[q]
  BY <1>1 DEF TypeOK
<1>5. adding'[p] = {} /\ inserted'[p] = {}
  BY <1>1 DEF TypeOK
<1>6. \A q \in Producer :
        /\ (adding[q] \cup inserted[q])' \subseteq (used \ committed)'
        /\ (adding[q] \cap inserted[q])' = {}
        /\ \A t \in Producer \ {q} :
             ((adding[q] \cup inserted[q]) \cap (adding[t] \cup inserted[t]))' = {}
  BY <1>1, <1>4, <1>5 DEF SeqInv
<1>7. ASSUME NEW q \in Producer, NEW m \in inserted'[q]
      PROVE  /\ KeyOf[m] # NoKey => keyLock'[LockOf[KeyOf[m]]] = q
             /\ \A o \in committed' : SameKey(o, m) => seq'[o] < seq'[m]
  <2>1. q # p /\ m \in inserted[q] /\ m \in Msg
    BY <1>4, <1>5 DEF TypeOK
  <2>2. KeyOf[m] # NoKey => /\ LockOf[KeyOf[m]] \in Lock
                            /\ keyLock[LockOf[KeyOf[m]]] = q
    BY <2>1, ConstantsAssumption DEF SeqInv, Lock, ConstantsAssumption
  <2>3. \A o \in new : ~SameKey(o, m)
    BY <2>1, <2>2 DEF SeqInv, SameKey
  <2> QED
    BY <1>1, <2>1, <2>2, <2>3 DEF SeqInv
<1>8. ASSUME NEW m \in committed'
      PROVE  before'[m] \subseteq {o \in committed' : SameKey(o, m) /\ seq'[o] < seq'[m]}
  <2>1. CASE m \in new
    BY <2>1, <1>1, <1>3 DEF SeqInv
  <2>2. CASE m \in committed
    BY <2>2, <1>1, <1>3 DEF SeqInv, TypeOK
  <2> QED
    BY <2>1, <2>2, <1>1
<1>9. committed' \subseteq used'
  BY <1>1, <1>3 DEF SeqInv
<1>10. /\ \A m \in Numbered' : seq'[m] < nextSeq'
       /\ \A a, b \in Numbered' : seq'[a] = seq'[b] => a = b
  BY <1>1, <1>2 DEF SeqInv
<1> QED
  BY <1>6, <1>7, <1>8, <1>9, <1>10 DEF SeqInv

LEMMA NextSeqInv == TypeOK /\ SeqInv /\ [Next]_vars => SeqInv'
<1> SUFFICES ASSUME TypeOK, SeqInv, [Next]_vars PROVE SeqInv'
  OBVIOUS
<1>1. CASE UNCHANGED seqVars
  BY <1>1, SeqInvFrame
<1>2. ASSUME NEW p \in Producer, NEW S \in SUBSET Msg, BeginAdd(p, S)
      PROVE  SeqInv'
  <2>1. /\ adding' = [adding EXCEPT ![p] = S]
        /\ adding[p] = {} /\ S \cap used = {} /\ used' = used \cup S
        /\ UNCHANGED <<inserted, keyLock, nextSeq, seq, committed, before>>
    BY <1>2 DEF BeginAdd, rowVars, histVars
  <2>2. Numbered' = Numbered
    BY <2>1 DEF Numbered
  <2> QED
    BY <2>1, <2>2 DEF SeqInv, TypeOK
<1>3. ASSUME NEW p \in Producer, NEW l \in Lock, LockKey(p, l)
      PROVE  SeqInv'
  <2>1. /\ keyLock[l] = NoProducer
        /\ keyLock' = [keyLock EXCEPT ![l] = p]
        /\ UNCHANGED <<adding, inserted, used, nextSeq, seq, committed, before>>
    BY <1>3 DEF LockKey, rowVars, histVars
  <2>2. Numbered' = Numbered
    BY <2>1 DEF Numbered
  <2> QED
    BY <2>1, <2>2, ConstantsAssumption DEF SeqInv, TypeOK, ConstantsAssumption
<1>4. ASSUME NEW p \in Producer, Rollback(p)
      PROVE  SeqInv'
  <2>1. /\ adding' = [adding EXCEPT ![p] = {}]
        /\ inserted' = [inserted EXCEPT ![p] = {}]
        /\ keyLock' = [l \in Lock |-> IF keyLock[l] = p THEN NoProducer ELSE keyLock[l]]
        /\ UNCHANGED <<used, nextSeq, seq, committed, before>>
    BY <1>4 DEF Rollback, EndTransaction, rowVars, histVars
  <2>2. Numbered' \subseteq Numbered
    BY <2>1 DEF Numbered, TypeOK
  <2>3. \A q \in Producer : \A m \in inserted'[q] :
          /\ q # p /\ m \in inserted[q] /\ m \in Msg
          /\ KeyOf[m] # NoKey => LockOf[KeyOf[m]] \in Lock
    BY <2>1, ConstantsAssumption DEF TypeOK, Lock, ConstantsAssumption
  <2> QED
    BY <2>1, <2>2, <2>3 DEF SeqInv, TypeOK
<1> QED
  BY <1>1, <1>2, <1>3, <1>4, InsertSeqInv, CommitSeqInv, OthersLeaveSeq
     DEF ProducerNext

(* Rows are numbered in the order they become visible, per key, for any      *)
(* number of producers and any hash of keys to locks (collisions included).  *)
THEOREM NumberedInCommitOrder == Spec => []SeqFollowsCommit
<1>1. SeqInv => SeqFollowsCommit
  BY DEF SeqInv, SeqFollowsCommit
<1> QED
  BY <1>1, TypeCorrect, InitSeqInv, NextSeqInv, PTL DEF Spec

-----------------------------------------------------------------------------
(* Rows, leases and row locks *)

LEMMA InitRowInv == Init => RowInv
BY ConstantsAssumption DEF Init, RowInv, Idle, ConstantsAssumption

LEMMA NextRowInv == TypeOK /\ SeqInv /\ RowInv /\ [Next]_vars => RowInv'
<1> SUFFICES ASSUME TypeOK, SeqInv, RowInv, [Next]_vars PROVE RowInv'
  OBVIOUS
<1> USE DEF TypeOK, RowInv, Idle, LeasedBy,
            prodVars, rowVars, claimVars, relayVars, boundVars, histVars
<1>1. ASSUME NEW p \in Producer, NEW S \in SUBSET Msg, BeginAdd(p, S) PROVE RowInv'
  BY <1>1 DEF BeginAdd
<1>2. ASSUME NEW p \in Producer, NEW l \in Lock, LockKey(p, l) PROVE RowInv'
  BY <1>2 DEF LockKey
<1>3. ASSUME NEW p \in Producer, Insert(p) PROVE RowInv'
  BY <1>3 DEF Insert
<1>4. ASSUME NEW p \in Producer, Commit(p) PROVE RowInv'
  BY <1>4 DEF Commit, SeqInv
<1>5. ASSUME NEW p \in Producer, Rollback(p) PROVE RowInv'
  BY <1>5 DEF Rollback
<1>6. ASSUME NEW r \in Relay, ClaimScan(r) PROVE RowInv'
  BY <1>6, ConstantsAssumption DEF ClaimScan, Claimable, ConstantsAssumption
<1>7. ASSUME NEW r \in Relay, ClaimLock(r) PROVE RowInv'
  <2>1. /\ claimer = r /\ due' \subseteq Lockable(r) /\ scan' = {}
        /\ claimer' = IF due' = {} THEN NoRelay ELSE r
    BY <1>7 DEF ClaimLock
  <2>2. /\ due' \subseteq rows
        /\ \A q \in Relay : write[q] # NoWrite /\ write[q].held
                             => write[q].msg \notin due'
    BY <2>1 DEF Lockable, RowLocked
  <2>3. UNCHANGED <<prodVars, rowVars, relayVars, boundVars, histVars>>
    BY <1>7 DEF ClaimLock
  <2> QED
    BY <2>1, <2>2, <2>3, ConstantsAssumption
<1>8. ASSUME NEW r \in Relay, ClaimCommit(r) PROVE RowInv'
  BY <1>8, ConstantsAssumption DEF ClaimCommit, Blocked
<1>9. ASSUME NEW r \in Relay, NEW m \in Msg, Publish(r, m) PROVE RowInv'
  BY <1>9 DEF Publish, StartWrite, Oldest, Write, Op
<1>10. ASSUME NEW r \in Relay, NEW m \in Msg, PublishFails(r, m) PROVE RowInv'
  BY <1>10 DEF PublishFails, StartWrite, Oldest, RestOfKey, Write, Op
<1>11. ASSUME NEW r \in Relay, LockRow(r) PROVE RowInv'
  BY <1>11 DEF LockRow, RowLocked, Write
<1>12. ASSUME NEW r \in Relay, MarkPublished(r) PROVE RowInv'
  BY <1>12 DEF MarkPublished, Writing, EndWrite, ClearLease, Write
<1>13. ASSUME NEW r \in Relay, Reschedule(r) PROVE RowInv'
  BY <1>13 DEF Reschedule, Writing, EndWrite, ClearLease, Write
<1>14. ASSUME NEW r \in Relay, DeadLetter(r) PROVE RowInv'
  BY <1>14 DEF DeadLetter, Writing, EndWrite, ClearLease, Write
<1>15. ASSUME NEW r \in Relay, Release(r) PROVE RowInv'
  BY <1>15 DEF Release, ClearLease, RowLocked
<1>16. ASSUME NEW r \in Relay, Shutdown(r) PROVE RowInv'
  BY <1>16 DEF Shutdown
<1>17. ASSUME NEW r \in Relay, Crash(r) PROVE RowInv'
  BY <1>17, ConstantsAssumption DEF Crash
<1>18. ASSUME NEW S \in SUBSET Msg, RequeueDeadLetters(S) PROVE RowInv'
  BY <1>18 DEF RequeueDeadLetters, ClearLease
<1>19. ASSUME NEW S \in SUBSET Msg, PurgeDeadLetters(S) PROVE RowInv'
  BY <1>19 DEF PurgeDeadLetters
<1>20. ASSUME Tick PROVE RowInv'
  BY <1>20 DEF Tick
<1>21. CASE UNCHANGED vars
  BY <1>21 DEF vars
<1> HIDE DEF TypeOK, RowInv, Idle, LeasedBy,
             prodVars, rowVars, claimVars, relayVars, boundVars, histVars
<1>22. ASSUME NEW p \in Producer, ProducerNext(p) PROVE RowInv'
  BY <1>1, <1>2, <1>3, <1>4, <1>5, <1>22 DEF ProducerNext
<1>23. ASSUME NEW r \in Relay, RelayNext(r) PROVE RowInv'
  BY <1>6, <1>7, <1>8, <1>9, <1>10, <1>11, <1>12, <1>13, <1>14, <1>15, <1>23
     DEF RelayNext
<1> QED
  BY <1>16, <1>17, <1>18, <1>19, <1>20, <1>21, <1>22, <1>23 DEF Next

-----------------------------------------------------------------------------
(* Order *)

(* A finite set has an element with the least number.  The elements below    *)
(* each element form a finite set, and a smallest of these sets is that of   *)
(* the element sought.                                                       *)
LEMMA LeastNumber ==
  ASSUME NEW G, IsFiniteSet(G), G # {}, NEW f \in [G -> Int]
  PROVE  \E x \in G : \A y \in G : f[x] <= f[y]
<1> DEFINE Below(x) == {y \in G : f[y] <= f[x]}
           T == {Below(x) : x \in G}
           R == StrictSubsetOrdering(G)
<1>1. T \subseteq SUBSET G /\ T # {}
  <2>1. \A x \in G : Below(x) \in T /\ Below(x) \subseteq G
    OBVIOUS
  <2>2. T \subseteq SUBSET G
    OBVIOUS
  <2> HIDE DEF T, Below
  <2> QED
    BY <2>1, <2>2
<1>2. IsWellFoundedOn(R, SUBSET G)
  BY FS_StrictSubsetOrderingWellFounded, FS_FiniteSubsetsOfFinite
<1>3. PICK B \in T : \A C \in T : ~(<<C, B>> \in R)
  <2> HIDE DEF T, R
  <2> QED
    BY <1>1, <1>2, WFMin
<1>4. PICK x \in G : B = Below(x)
  OBVIOUS
<1>5. ASSUME NEW y \in G PROVE f[x] <= f[y]
  <2> SUFFICES ASSUME f[y] < f[x] PROVE FALSE
    OBVIOUS
  <2>1. Below(y) \in T /\ Below(y) \subseteq Below(x) /\ x \notin Below(y) /\ x \in Below(x)
    OBVIOUS
  <2>2. <<Below(y), B>> \in R
    BY <2>1, <1>4 DEF StrictSubsetOrdering
  <2> QED
    BY <2>1, <2>2, <1>3
<1> QED
  BY <1>5

LEMMA LeastSeq ==
  ASSUME TypeOK, NEW G \in SUBSET Msg, G # {}
  PROVE  \E x \in G : \A y \in G : seq[x] <= seq[y]
<1> DEFINE f == [x \in G |-> seq[x]]
<1>1. IsFiniteSet(G) /\ f \in [G -> Int]
  BY FS_Subset, ConstantsAssumption DEF ConstantsAssumption, TypeOK
<1>2. PICK x \in G : \A y \in G : f[x] <= f[y]
  <2> HIDE DEF f
  <2> QED BY <1>1, LeastNumber
<1> QED
  BY <1>2

LEMMA GreatestSeq ==
  ASSUME TypeOK, NEW G \in SUBSET Msg, G # {}
  PROVE  \E x \in G : \A y \in G : seq[y] <= seq[x]
<1> DEFINE f == [x \in G |-> -seq[x]]
<1>1. IsFiniteSet(G) /\ f \in [G -> Int]
  BY FS_Subset, ConstantsAssumption DEF ConstantsAssumption, TypeOK
<1>2. PICK x \in G : \A y \in G : f[x] <= f[y]
  <2> HIDE DEF f
  <2> QED BY <1>1, LeastNumber
<1> QED
  BY <1>2 DEF TypeOK

(* If a row has an older row in its key, it has a predecessor no older.      *)
LEMMA PredecessorExists ==
  ASSUME TypeOK, NEW m \in Msg, NEW o \in rows, SameKey(o, m), seq[o] < seq[m]
  PROVE  \E p \in rows : Predecessor(p, m) /\ seq[o] <= seq[p]
<1> DEFINE Older == {q \in rows : SameKey(q, m) /\ seq[q] < seq[m]}
<1>1. PICK p \in Older : \A q \in Older : seq[q] <= seq[p]
  BY GreatestSeq DEF TypeOK
<1> QED
  BY <1>1 DEF Predecessor

(* The last look: with a row it keeps, a claim keeps every older row of the  *)
(* key.  Otherwise take the oldest row kept that is younger than one not     *)
(* kept: its predecessor is not the claimer's, or was claimed and kept.      *)
LEMMA ClaimKeepsOlder ==
  ASSUME TypeOK, SeqInv, RowInv, OwnRowsTogether,
         NEW r \in Relay, claimer = r,
         NEW m \in due \ Blocked(r), NEW o \in rows,
         SameKey(o, m), seq[o] < seq[m]
  PROVE  o \in due \ Blocked(r)
<1> SUFFICES ASSUME o \notin due \ Blocked(r) PROVE FALSE
  OBVIOUS
<1> DEFINE G == {x \in due \ Blocked(r) : SameKey(o, x) /\ seq[o] < seq[x]}
<1>1. PICK x \in G : \A y \in G : seq[x] <= seq[y]
  BY LeastSeq DEF TypeOK
<1>2. PICK p \in rows : Predecessor(p, x) /\ seq[o] <= seq[p]
  BY PredecessorExists DEF RowInv, TypeOK
<1>3. p \in due
  <2>1. ~BehindOther(r, x)
    BY DEF Blocked, TypeOK
  <2>2. SeenOwner(r, p) = r
    BY <1>2, <2>1 DEF BehindOther
  <2> QED
    BY <1>2, <2>2 DEF SeenOwner, OwnRowsTogether, Predecessor
<1>4. p \notin Blocked(r)
  <2> SUFFICES ASSUME p \in Blocked(r) PROVE FALSE
    OBVIOUS
  <2>1. PICK b \in due : /\ b = p \/ SameKey(b, p)
                         /\ seq[b] <= seq[p]
                         /\ BehindOther(r, b)
    BY DEF Blocked
  <2>2. SameKey(b, x) /\ seq[b] <= seq[x]
    BY <1>2, <2>1 DEF Predecessor, SameKey, TypeOK
  <2> QED
    BY <2>1, <2>2 DEF Blocked
<1>5. CASE seq[o] < seq[p]
  <2>1. p \in G
    BY <1>2, <1>3, <1>4, <1>5 DEF Predecessor, SameKey
  <2>2. seq[p] < seq[x]
    BY <1>2 DEF Predecessor
  <2> QED
    BY <1>1, <2>1, <2>2 DEF TypeOK
<1>6. CASE seq[o] = seq[p]
  <2>1. o = p
    BY <1>6 DEF SeqInv, RowInv, Numbered
  <2> QED
    BY <2>1, <1>3, <1>4
<1> QED
  BY <1>2, <1>5, <1>6 DEF TypeOK

(* FOR UPDATE ... LIMIT takes the first rows: whatever is lockable and older *)
(* than a row taken is taken.                                                *)
LEMMA LimitTakesOldest ==
  ASSUME TypeOK, NEW r \in Relay, NEW a \in Lockable(r), NEW b \in Lockable(r),
         seq[a] < seq[b],
         Cardinality({o \in Lockable(r) : seq[o] < seq[b]}) < Limit
  PROVE  Cardinality({o \in Lockable(r) : seq[o] < seq[a]}) < Limit
<1> DEFINE A == {o \in Lockable(r) : seq[o] < seq[a]}
           B == {o \in Lockable(r) : seq[o] < seq[b]}
<1>1. A \subseteq B
  BY DEF TypeOK, Lockable
<1>2. IsFiniteSet(B)
  BY FS_Subset, ConstantsAssumption DEF ConstantsAssumption, TypeOK, Lockable
<1>3. Cardinality(A) <= Cardinality(B) /\ Cardinality(A) \in Nat /\ Cardinality(B) \in Nat
  BY <1>1, <1>2, FS_Subset, FS_CardinalityType
<1> QED
  BY <1>3, ConstantsAssumption DEF ConstantsAssumption

ownVars == <<rows, scan, due, claimer, seq, leaseOwner, delay, lease>>

LEMMA NextOwnRows ==
  ASSUME TypeOK, SeqInv, RowInv, OwnRowsTogether, [Next]_vars
  PROVE  OwnRowsTogether'
<1> USE DEF prodVars, rowVars, claimVars, relayVars, boundVars, histVars
<1>1. CASE UNCHANGED ownVars
  BY <1>1 DEF OwnRowsTogether, Available, Leased, ownVars
<1>2. ASSUME NEW p \in Producer, Insert(p) PROVE OwnRowsTogether'
  <2>1. \A m \in rows \cup scan \cup due :
          m \in Msg /\ seq'[m] = seq[m] /\ delay'[m] = delay[m]
    BY <1>2 DEF Insert, TypeOK, SeqInv, RowInv
  <2>2. UNCHANGED <<rows, scan, due, claimer, leaseOwner, lease>>
    BY <1>2 DEF Insert
  <2> QED
    BY <2>1, <2>2 DEF OwnRowsTogether, Available, Leased
<1>3. ASSUME NEW p \in Producer, Commit(p) PROVE OwnRowsTogether'
  <2>1. \A m \in rows' \ rows : leaseOwner[m] \notin Relay
    BY <1>3, ConstantsAssumption
       DEF Commit, TypeOK, SeqInv, RowInv, ConstantsAssumption
  <2>2. UNCHANGED <<scan, due, claimer, seq, leaseOwner, delay, lease>>
    BY <1>3 DEF Commit
  <2> QED
    BY <2>1, <2>2 DEF OwnRowsTogether, Available, Leased
<1>4. ASSUME NEW r \in Relay, ClaimScan(r) PROVE OwnRowsTogether'
  <2>1. /\ scan' = {m \in Msg : Claimable(r, m)} /\ claimer' = r
        /\ due' = {} /\ UNCHANGED <<rows, seq, leaseOwner, delay, lease>>
    BY <1>4 DEF ClaimScan, RowInv
  <2>2. ASSUME NEW m \in scan', NEW p \in rows, SameKey(p, m), seq[p] < seq[m]
        PROVE  p \in scan' /\ Available(r, p) /\ ~Leased(r, p)
    <3>1. Available(r, p) /\ ~Leased(r, p)
      BY <2>1, <2>2 DEF Claimable
    <3>2. \A q \in rows : SameKey(q, p) /\ seq[q] < seq[p]
                            => Available(r, q) /\ ~Leased(r, q)
      BY <2>1, <2>2 DEF Claimable, SameKey, TypeOK
    <3> QED
      BY <2>1, <3>1, <3>2 DEF Claimable, TypeOK
  <2> QED
    BY <2>1, <2>2 DEF OwnRowsTogether, Available, Leased
<1>5. ASSUME NEW r \in Relay, ClaimLock(r) PROVE OwnRowsTogether'
  <2>1. /\ due' = {m \in Lockable(r) :
                     Cardinality({o \in Lockable(r) : seq[o] < seq[m]}) < Limit}
        /\ scan' = {} /\ scan # {} /\ claimer = r
        /\ UNCHANGED <<rows, seq, leaseOwner, delay, lease>>
        /\ due' # {} => claimer' = r
    BY <1>5 DEF ClaimLock
  <2>2. due = {}
    BY <2>1 DEF RowInv
  <2>3. ASSUME NEW m \in due', NEW p \in rows,
               SameKey(p, m), seq[p] < seq[m], leaseOwner[p] = r
        PROVE  p \in due'
    <3>1. p \in scan /\ Available(r, p) /\ ~Leased(r, p)
      BY <2>1, <2>3 DEF Lockable, OwnRowsTogether
    <3>2. ~RowLocked(p)
      BY <2>1, <2>2, <2>3 DEF RowLocked, RowInv, LeasedBy, Idle
    <3>3. p \in Lockable(r)
      BY <3>1, <3>2 DEF Lockable
    <3> QED
      BY <2>1, <2>3, <3>3, LimitTakesOldest
  <2> QED
    BY <2>1, <2>3 DEF OwnRowsTogether
<1>6. ASSUME NEW r \in Relay, ClaimCommit(r) PROVE OwnRowsTogether'
  BY <1>6, ConstantsAssumption DEF ClaimCommit, OwnRowsTogether, ConstantsAssumption
<1>7. ASSUME NEW r \in Relay, MarkPublished(r) \/ Reschedule(r) \/ DeadLetter(r)
      PROVE  OwnRowsTogether'
  <2> DEFINE w == write[r].msg
  <2>1. /\ rows' \subseteq rows
        /\ \A m \in Msg \ {w} : /\ leaseOwner'[m] = leaseOwner[m]
                                /\ delay'[m] = delay[m] /\ lease'[m] = lease[m]
        /\ w \in Msg => leaseOwner'[w] = NoRelay
        /\ UNCHANGED <<scan, due, claimer, seq>>
    BY <1>7 DEF MarkPublished, Reschedule, DeadLetter, EndWrite, ClearLease, TypeOK
  <2> QED
    BY <2>1, ConstantsAssumption
       DEF OwnRowsTogether, Available, Leased, TypeOK, ConstantsAssumption
<1>8. ASSUME NEW r \in Relay, Release(r) PROVE OwnRowsTogether'
  BY <1>8, ConstantsAssumption
     DEF Release, ClearLease, OwnRowsTogether, Available, Leased, TypeOK,
         ConstantsAssumption
<1>9. ASSUME NEW r \in Relay, Crash(r) PROVE OwnRowsTogether'
  BY <1>9 DEF Crash, OwnRowsTogether, Available, Leased
<1>10. ASSUME NEW S \in SUBSET Msg, RequeueDeadLetters(S) PROVE OwnRowsTogether'
  BY <1>10, ConstantsAssumption
     DEF RequeueDeadLetters, ClearLease, OwnRowsTogether, Available, Leased, TypeOK,
         ConstantsAssumption
<1>11. CASE Tick
  <2>1. \A m \in Msg : /\ delay'[m] <= delay[m] /\ delay'[m] \in Nat
                      /\ lease'[m] <= lease[m] /\ lease'[m] \in Nat
    <3>1. delay' = CountDown(delay) /\ lease' = CountDown(lease)
      BY <1>11 DEF Tick
    <3>2. ASSUME NEW f \in [Msg -> Nat], NEW m \in Msg
          PROVE  CountDown(f)[m] <= f[m] /\ CountDown(f)[m] \in Nat
      BY DEF CountDown
    <3> QED
      BY <3>1, <3>2 DEF TypeOK
  <2>2. UNCHANGED <<rows, scan, due, claimer, seq, leaseOwner>>
    BY <1>11 DEF Tick
  <2>3. ASSUME NEW m \in Msg, NEW r \in Relay
        PROVE  /\ Available(r, m) => Available(r, m)'
               /\ ~Leased(r, m) => ~Leased(r, m)'
    <3>1. /\ delay[m] \in Nat /\ lease[m] \in Nat /\ ClockAhead[r] \in Nat
      BY ConstantsAssumption DEF TypeOK, ConstantsAssumption
    <3> QED
      BY <2>1, <3>1 DEF Available, Leased
  <2> QED
    BY <2>2, <2>3 DEF OwnRowsTogether, TypeOK
<1>12. ASSUME NEW p \in Producer, ProducerNext(p) PROVE OwnRowsTogether'
  <2>1. CASE \E S \in SUBSET Msg : BeginAdd(p, S)
    BY <1>1, <2>1 DEF BeginAdd, ownVars
  <2>2. CASE \E l \in Lock : LockKey(p, l)
    BY <1>1, <2>2 DEF LockKey, ownVars
  <2>3. CASE Rollback(p)
    BY <1>1, <2>3 DEF Rollback, ownVars
  <2> QED
    BY <1>2, <1>3, <1>12, <2>1, <2>2, <2>3 DEF ProducerNext
<1>13. ASSUME NEW r \in Relay, RelayNext(r) PROVE OwnRowsTogether'
  <2>1. CASE \E m \in Msg : Publish(r, m) \/ PublishFails(r, m)
    BY <1>1, <2>1 DEF Publish, PublishFails, ownVars
  <2>2. CASE LockRow(r)
    BY <1>1, <2>2 DEF LockRow, ownVars
  <2> QED
    BY <1>4, <1>5, <1>6, <1>7, <1>8, <1>13, <2>1, <2>2 DEF RelayNext
<1>14. ASSUME NEW r \in Relay, Shutdown(r) PROVE OwnRowsTogether'
  BY <1>1, <1>14 DEF Shutdown, ownVars
<1>15. ASSUME NEW S \in SUBSET Msg, PurgeDeadLetters(S) PROVE OwnRowsTogether'
  BY <1>1, <1>15 DEF PurgeDeadLetters, ownVars
<1>16. CASE UNCHANGED vars
  BY <1>1, <1>16 DEF vars, ownVars
<1> QED
  BY <1>9, <1>10, <1>11, <1>12, <1>13, <1>14, <1>15, <1>16 DEF Next

(* What a visible message waits for is in its key and before it; of those    *)
(* rows gone from the table, each was delivered or set aside.                *)
LEMMA AheadOf ==
  ASSUME SeqInv, RowInv, NEW m \in committed, NEW o \in before[m]
  PROVE  /\ o \in committed /\ SameKey(o, m) /\ seq[o] < seq[m]
         /\ o \in rows \cup delivered \cup parked
BY DEF SeqInv, RowInv

orderVars == <<before, batch, write, delivered, parked>>

(* The steps that touch what the order depends on.                           *)
LEMMA OthersLeaveOrder ==
  ASSUME [Next]_vars
  PROVE  \/ UNCHANGED orderVars
         \/ \E p \in Producer : Commit(p)
         \/ \E r \in Relay :
              \/ ClaimCommit(r)
              \/ \E m \in Msg : Publish(r, m) \/ PublishFails(r, m)
              \/ LockRow(r) \/ MarkPublished(r) \/ Reschedule(r) \/ DeadLetter(r)
              \/ Shutdown(r) \/ Crash(r)
<1> USE DEF prodVars, rowVars, claimVars, relayVars, boundVars, histVars, orderVars
<1>1. ASSUME NEW p \in Producer, ProducerNext(p), ~Commit(p)
      PROVE  UNCHANGED orderVars
  BY <1>1 DEF ProducerNext, BeginAdd, LockKey, Insert, Rollback
<1>2. ASSUME NEW r \in Relay, ClaimScan(r) \/ ClaimLock(r) \/ Release(r)
      PROVE  UNCHANGED orderVars
  BY <1>2 DEF ClaimScan, ClaimLock, Release
<1>3. ASSUME NEW S \in SUBSET Msg, RequeueDeadLetters(S) \/ PurgeDeadLetters(S)
      PROVE  UNCHANGED orderVars
  BY <1>3 DEF RequeueDeadLetters, PurgeDeadLetters
<1>4. CASE Tick
  BY <1>4 DEF Tick
<1>5. CASE UNCHANGED vars
  BY <1>5 DEF vars
<1> HIDE DEF prodVars, rowVars, claimVars, relayVars, boundVars, histVars, orderVars
<1> QED
  BY <1>1, <1>2, <1>3, <1>4, <1>5 DEF Next, RelayNext

QueueOrder == BatchInOrder /\ WriteInOrder /\ SettledInOrder

(* A message that is oldest in its batch had its turn.                       *)
LEMMA OldestHadItsTurn ==
  ASSUME TypeOK, SeqInv, RowInv, BatchInOrder,
         NEW r \in Relay, NEW m \in Msg, Oldest(r, m)
  PROVE  before[m] \subseteq delivered \cup parked
<1> SUFFICES ASSUME NEW o \in before[m], o \in batch[r] PROVE FALSE
  BY DEF BatchInOrder, Oldest
<1>1. m \in committed
  BY DEF Oldest, RowInv
<1>2. SameKey(o, m) /\ seq[o] < seq[m]
  BY <1>1, AheadOf
<1>3. o \in Msg /\ seq[o] \in Nat /\ seq[m] \in Nat
  BY DEF TypeOK
<1> QED
  BY <1>2, <1>3 DEF Oldest, RestOfKey

LEMMA NextQueueOrder ==
  ASSUME TypeOK, SeqInv, RowInv, OwnRowsTogether, QueueOrder, [Next]_vars
  PROVE  QueueOrder'
<1> USE DEF prodVars, rowVars, claimVars, relayVars, boundVars, histVars,
            BatchInOrder, WriteInOrder, SettledInOrder, QueueOrder
<1>1. CASE UNCHANGED orderVars
  BY <1>1 DEF orderVars
<1>2. ASSUME NEW p \in Producer, Commit(p) PROVE QueueOrder'
  <2>1. \A m \in committed : before'[m] = before[m]
    BY <1>2 DEF Commit, SeqInv, TypeOK
  <2>2. UNCHANGED <<batch, write, delivered, parked>>
    BY <1>2 DEF Commit
  <2> QED
    BY <2>1, <2>2 DEF RowInv
<1>3. ASSUME NEW r \in Relay, ClaimCommit(r) PROVE QueueOrder'
  <2>1. /\ batch' = [batch EXCEPT ![r] = due \ Blocked(r)] /\ claimer = r
        /\ UNCHANGED <<before, write, delivered, parked>>
    BY <1>3 DEF ClaimCommit
  <2>2. ASSUME NEW m \in due \ Blocked(r), NEW o \in before[m]
        PROVE  o \in delivered \cup parked \cup (due \ Blocked(r))
    <3>1. m \in committed
      BY DEF RowInv
    <3>2. SameKey(o, m) /\ seq[o] < seq[m] /\ o \in rows \cup delivered \cup parked
      BY <3>1, AheadOf
    <3> QED
      BY <2>1, <3>2, ClaimKeepsOlder
  <2> QED
    BY <2>1, <2>2 DEF TypeOK
<1>4. ASSUME NEW r \in Relay, NEW m \in Msg, Publish(r, m) PROVE QueueOrder'
  <2>1. before[m] \subseteq delivered \cup parked
    BY <1>4, OldestHadItsTurn DEF Publish
  <2>2. /\ delivered' = delivered \cup {m}
        /\ batch' = [batch EXCEPT ![r] = @ \ {m}]
        /\ write' = [write EXCEPT ![r] = [msg |-> m, op |-> "markPublished",
                                          held |-> FALSE]]
        /\ UNCHANGED <<before, parked>>
    BY <1>4 DEF Publish, StartWrite
  <2> QED
    BY <2>1, <2>2 DEF TypeOK
<1>5. ASSUME NEW r \in Relay, NEW m \in Msg, PublishFails(r, m) PROVE QueueOrder'
  <2>1. before[m] \subseteq delivered \cup parked
    BY <1>5, OldestHadItsTurn DEF PublishFails
  <2>2. /\ delivered \subseteq delivered' /\ delivered' \subseteq delivered \cup {m}
        /\ batch' = [batch EXCEPT ![r] = @ \ (RestOfKey(r, m) \cup {m})]
        /\ \A q \in Relay : write'[q] = write[q] \/ write'[q].msg = m
        /\ UNCHANGED <<before, parked>>
    BY <1>5 DEF PublishFails, StartWrite, TypeOK
  <2>3. ASSUME NEW x \in batch'[r], NEW o \in before[x]
        PROVE  o \in delivered \cup parked \cup batch'[r]
    <3>1. x \in batch[r] /\ x # m /\ ~SameKey(x, m)
      BY <2>2 DEF TypeOK, RestOfKey
    <3>2. SameKey(o, x) /\ m \in batch[r]
      BY <1>5, <3>1, AheadOf DEF RowInv, PublishFails, Oldest
    <3>3. o # m /\ ~SameKey(o, m)
      BY <3>1, <3>2 DEF SameKey
    <3> QED
      BY <2>2, <3>1, <3>3 DEF TypeOK, RestOfKey
  <2>4. \A q \in Relay \ {r} : batch'[q] = batch[q]
    BY <2>2
  <2> QED
    BY <2>1, <2>2, <2>3, <2>4
<1>6. ASSUME NEW r \in Relay, LockRow(r) PROVE QueueOrder'
  <2>1. UNCHANGED <<before, batch, delivered, parked>>
    BY <1>6 DEF LockRow
  <2>2. \A q \in Relay : write'[q] # NoWrite =>
                           write[q] # NoWrite /\ write'[q].msg = write[q].msg
    BY <1>6 DEF LockRow, TypeOK, Write
  <2> QED
    BY <2>1, <2>2
<1>7. ASSUME NEW r \in Relay, MarkPublished(r) \/ Reschedule(r) PROVE QueueOrder'
  <2>1. UNCHANGED <<before, batch, delivered, parked>>
    BY <1>7 DEF MarkPublished, Reschedule, EndWrite
  <2>2. write' = [write EXCEPT ![r] = NoWrite]
    BY <1>7 DEF MarkPublished, Reschedule, EndWrite
  <2> QED
    BY <2>1, <2>2 DEF TypeOK
<1>8. ASSUME NEW r \in Relay, DeadLetter(r) PROVE QueueOrder'
  <2>1. /\ UNCHANGED <<before, batch, delivered>>
        /\ parked' = parked \cup {write[r].msg} /\ write[r] # NoWrite
    BY <1>8 DEF DeadLetter, EndWrite, Writing
  <2>2. write' = [write EXCEPT ![r] = NoWrite]
    BY <1>8 DEF DeadLetter, EndWrite
  <2> QED
    BY <2>1, <2>2 DEF TypeOK
<1>9. ASSUME NEW r \in Relay, Shutdown(r) \/ Crash(r) PROVE QueueOrder'
  <2>1. /\ batch' = [batch EXCEPT ![r] = {}]
        /\ write' = write \/ write' = [write EXCEPT ![r] = NoWrite]
        /\ UNCHANGED <<before, delivered, parked>>
    BY <1>9 DEF Shutdown, Crash
  <2> QED
    BY <2>1 DEF TypeOK
<1> HIDE DEF QueueOrder
<1> QED
  BY <1>1, <1>2, <1>3, <1>4, <1>5, <1>6, <1>7, <1>8, <1>9, OthersLeaveOrder

LEMMA InitOrder == Init => OwnRowsTogether /\ QueueOrder
BY DEF Init, OwnRowsTogether, QueueOrder, BatchInOrder, WriteInOrder, SettledInOrder

Inv == TypeOK /\ SeqInv /\ RowInv /\ OwnRowsTogether /\ QueueOrder

LEMMA Invariance == Spec => []Inv
<1>1. Init => Inv
  BY InitTypeOK, InitSeqInv, InitRowInv, InitOrder DEF Inv
<1>2. Inv /\ [Next]_vars => Inv'
  BY NextTypeOK, NextSeqInv, NextRowInv, NextOwnRows, NextQueueOrder DEF Inv
<1> QED
  BY <1>1, <1>2, PTL DEF Spec

(* No committed message disappears: for any number of crashes, shutdowns,    *)
(* lost leases, retries and requeues, one the broker has not received is     *)
(* waiting, is a dead letter, or was purged by an operator.                  *)
THEOREM NothingLost == Spec => []NoMessageLost
<1>1. Inv => NoMessageLost
  BY DEF Inv, RowInv, NoMessageLost
<1> QED
  BY <1>1, Invariance, PTL

(* The order of a key survives any interleaving of producers, relays and     *)
(* operators, any skew of the relays' clocks and any lease that runs out     *)
(* under a slow publisher.                                                   *)
THEOREM KeyOrderKept == Spec => []PublishedInOrder
<1>1. Inv => PublishedInOrder
  BY DEF Inv, QueueOrder, SettledInOrder, PublishedInOrder
<1> QED
  BY <1>1, Invariance, PTL

-----------------------------------------------------------------------------
(* Leases, with synchronised clocks *)

Synchronised == \A r \in Relay : ClockAhead[r] = 0

LEMMA InitLeaseInv == Init => LeaseInv
BY DEF Init, LeaseInv, AtWork

leaseVars == <<rows, seq, due, leaseOwner, lease, batch, giveBack, write, parked>>

(* What is at work was visible before.                                       *)
LEMMA AtWorkVisible ==
  ASSUME RowInv, NEW r \in Relay, NEW m, AtWork(r, m)
  PROVE  m \in committed
BY DEF RowInv, AtWork

(* The rows a commit adds are numbered above every row at work.              *)
LEMMA CommitLeaseInv ==
  ASSUME TypeOK, SeqInv, RowInv, LeaseInv, NEW p \in Producer, Commit(p)
  PROVE  LeaseInv'
<1>1. /\ rows' = rows \cup inserted[p]
      /\ UNCHANGED <<seq, due, leaseOwner, lease, batch, giveBack, write, parked>>
  BY DEF Commit, claimVars, relayVars
<1>2. ASSUME NEW r \in Relay, NEW a \in rows', NEW b \in rows',
             SameKey(a, b), seq[a] < seq[b],
             AtWork(r, b), leaseOwner[b] = r, lease[b] > 0
      PROVE  \/ leaseOwner[a] = r /\ lease[a] >= lease[b]
             \/ a \in parked
  <2>1. b \in committed
    BY <1>2, AtWorkVisible
  <2>2. b \notin inserted[p]
    BY <2>1 DEF SeqInv
  <2>3. a \notin inserted[p]
    <3> SUFFICES ASSUME a \in inserted[p] PROVE FALSE
      OBVIOUS
    <3>1. SameKey(b, a)
      BY <1>2 DEF SameKey
    <3>2. seq[b] < seq[a]
      BY <2>1, <3>1 DEF SeqInv
    <3>3. seq[a] \in Nat /\ seq[b] \in Nat
      BY <2>1 DEF TypeOK
    <3> QED
      BY <1>2, <3>2, <3>3
  <2> QED
    BY <1>1, <1>2, <2>2, <2>3 DEF LeaseInv
<1>3. \A r \in Relay, m \in Msg : AtWork(r, m)' <=> AtWork(r, m)
  BY <1>1 DEF AtWork
<1>4. rows' \subseteq Msg
  BY <1>1 DEF TypeOK
<1>5. \A a, b \in rows' : (seq[a] < seq[b])' <=> seq[a] < seq[b]
  BY <1>1
<1> QED
  BY <1>1, <1>2, <1>3, <1>4, <1>5 DEF LeaseInv

(* A claim leases the rows it keeps for one and the same time, and keeps     *)
(* with a row every older one of its key.                                    *)
LEMMA ClaimLeaseInv ==
  ASSUME TypeOK, SeqInv, RowInv, OwnRowsTogether, LeaseInv,
         NEW r \in Relay, ClaimCommit(r)
  PROVE  LeaseInv'
<1> DEFINE kept == due \ Blocked(r)
           span == LeaseTicks + ClockAhead[r]
<1>1. /\ claimer = r
      /\ \A m \in Msg : m \in kept => leaseOwner'[m] = r /\ lease'[m] = span
      /\ \A m \in Msg : m \in due \ kept => leaseOwner'[m] = NoRelay /\ lease'[m] = 0
      /\ \A m \in Msg \ due : leaseOwner'[m] = leaseOwner[m] /\ lease'[m] = lease[m]
      /\ batch' = [batch EXCEPT ![r] = kept]
      /\ due' = {}
      /\ UNCHANGED <<rows, seq, write, giveBack, parked>>
  BY DEF ClaimCommit, Blocked, histVars
<1>2. giveBack[r] = {} /\ write[r] = NoWrite /\ batch[r] = {}
  BY <1>1 DEF RowInv, Idle
<1>3. span \in Nat /\ span > 0
  BY ConstantsAssumption DEF ConstantsAssumption
<1> HIDE DEF kept, span
<1>4. \A q \in Relay : batch'[q] = IF q = r THEN kept ELSE batch[q]
  BY <1>1 DEF TypeOK
<1>5. kept \subseteq due /\ due \subseteq rows /\ rows \subseteq Msg
  BY DEF kept, RowInv, TypeOK
<1>6. ASSUME NEW q \in Relay, NEW a \in rows, NEW b \in rows,
             SameKey(a, b), seq[a] < seq[b],
             AtWork(q, b)', leaseOwner'[b] = q, lease'[b] > 0
      PROVE  \/ leaseOwner'[a] = q /\ lease'[a] >= lease'[b]
             \/ a \in parked
  <2>1. CASE b \in kept
    <3>1. q = r
      BY <1>1, <1>5, <1>6, <2>1
    <3>2. a \in kept
      BY <1>1, <1>6, <2>1, ClaimKeepsOlder DEF kept
    <3> QED
      BY <1>1, <1>3, <1>5, <2>1, <3>1, <3>2
  <2>2. CASE b \in due \ kept
    BY <1>1, <1>5, <1>6, <2>2
  <2>3. CASE b \notin due
    <3>1. b \in Msg /\ a \in Msg
      BY <1>5
    <3>2. leaseOwner[b] = q /\ lease[b] > 0 /\ lease'[b] = lease[b]
      BY <1>1, <1>6, <2>3, <3>1
    <3>3. AtWork(q, b)
      BY <1>1, <1>2, <1>4, <1>5, <1>6, <2>3 DEF AtWork
    <3>4. a \notin parked => leaseOwner[a] = q /\ lease[a] >= lease[b]
      BY <1>6, <3>2, <3>3 DEF LeaseInv
    <3>5. CASE a \in due
      <4>1. lease[a] = 0
        BY <3>5 DEF LeaseInv
      <4>2. lease[b] \in Nat
        BY <3>1 DEF TypeOK
      <4> QED
        BY <3>2, <3>4, <4>1, <4>2
    <3>6. CASE a \notin due
      BY <1>1, <3>1, <3>2, <3>4, <3>6
    <3> QED
      BY <3>5, <3>6
  <2> QED
    BY <2>1, <2>2, <2>3
<1>7. ASSUME NEW q \in Relay, NEW b \in batch'[q]
      PROVE  /\ \A a \in giveBack[q] : ~SameKey(a, b)
             /\ write[q] # NoWrite /\ SameKey(write[q].msg, b)
                  => write[q].op = "markPublished"
  BY <1>2, <1>4, <1>7 DEF LeaseInv
<1> QED
  BY <1>1, <1>6, <1>7 DEF LeaseInv

(* A relay that fails a message gives its whole key back.                    *)
LEMMA PublishLeaseInv ==
  ASSUME TypeOK, RowInv, LeaseInv,
         NEW r \in Relay, NEW m \in Msg, Publish(r, m) \/ PublishFails(r, m)
  PROVE  LeaseInv'
<1>1. /\ m \in batch[r] /\ write[r] = NoWrite
      /\ UNCHANGED <<rows, seq, due, leaseOwner, lease, parked>>
      /\ \A q \in Relay \ {r} : /\ batch'[q] = batch[q] /\ giveBack'[q] = giveBack[q]
                               /\ write'[q] = write[q]
      /\ write'[r].msg = m
      /\ batch'[r] \subseteq batch[r]
  BY DEF Publish, PublishFails, Oldest, StartWrite, rowVars, claimVars, TypeOK
<1>2. \/ write'[r].op = "markPublished" /\ giveBack'[r] = giveBack[r]
      \/ /\ \A x \in batch'[r] : ~SameKey(x, m)
         /\ giveBack'[r] = giveBack[r] \cup RestOfKey(r, m)
  BY DEF Publish, PublishFails, RestOfKey, StartWrite, TypeOK
<1>3. \A q \in Relay, x \in Msg : AtWork(q, x)' => AtWork(q, x)
  <2> SUFFICES ASSUME NEW q \in Relay, NEW x \in Msg, AtWork(q, x)' PROVE AtWork(q, x)
    OBVIOUS
  <2>1. CASE q = r
    BY <1>1, <2>1 DEF AtWork
  <2>2. CASE q # r
    BY <1>1, <2>2 DEF AtWork
  <2> QED
    BY <2>1, <2>2
<1>4. ASSUME NEW q \in Relay, NEW b \in batch'[q]
      PROVE  /\ \A a \in giveBack'[q] : ~SameKey(a, b)
             /\ write'[q] # NoWrite /\ SameKey(write'[q].msg, b)
                  => write'[q].op = "markPublished"
  <2>1. CASE q # r
    BY <1>1, <1>4, <2>1 DEF LeaseInv
  <2>2. CASE q = r
    <3>1. \A a \in giveBack[r] : ~SameKey(a, b)
      BY <1>1, <1>4, <2>2 DEF LeaseInv
    <3> QED
      BY <1>1, <1>2, <1>4, <2>2, <3>1 DEF RestOfKey, SameKey
  <2> QED
    BY <2>1, <2>2
<1>5. rows \subseteq Msg
  BY DEF TypeOK
<1> QED
  BY <1>1, <1>3, <1>4, <1>5 DEF LeaseInv

(* A write of one relay ends the lease of the message written alone, and the *)
(* relay keeps no younger message of that key unless the row is gone.        *)
LEMMA WriteLeaseInv ==
  ASSUME TypeOK, RowInv, LeaseInv,
         NEW r \in Relay, MarkPublished(r) \/ Reschedule(r) \/ DeadLetter(r)
  PROVE  LeaseInv'
<1> DEFINE w == write[r].msg
<1>1. /\ write[r] # NoWrite /\ write[r].held /\ w \in Msg
      /\ leaseOwner[w] = r /\ w \notin due
      /\ write' = [write EXCEPT ![r] = NoWrite]
      /\ \A m \in Msg \ {w} : leaseOwner'[m] = leaseOwner[m] /\ lease'[m] = lease[m]
      /\ leaseOwner'[w] = NoRelay /\ lease'[w] = 0
      /\ UNCHANGED <<seq, due, batch, giveBack>>
  BY DEF MarkPublished, Reschedule, DeadLetter, Writing, EndWrite, ClearLease,
         claimVars, TypeOK, RowInv, LeasedBy, Write
<1>2. \/ rows' = rows \ {w} /\ parked \subseteq parked'
      \/ rows' = rows /\ parked' = parked /\ write[r].op = "reschedule"
  BY DEF MarkPublished, Reschedule, DeadLetter, Writing, EndWrite
<1> HIDE DEF w
<1>3. NoRelay \notin Relay
  BY ConstantsAssumption DEF ConstantsAssumption
<1>4. ASSUME NEW q \in Relay, NEW a \in rows', NEW b \in rows',
             SameKey(a, b), seq[a] < seq[b],
             AtWork(q, b)', leaseOwner'[b] = q, lease'[b] > 0
      PROVE  \/ leaseOwner'[a] = q /\ lease'[a] >= lease'[b]
             \/ a \in parked'
  <2>1. a \in rows /\ b \in rows /\ a \in Msg /\ b \in Msg
    BY <1>2 DEF TypeOK
  <2>2. b # w /\ leaseOwner[b] = q /\ lease[b] > 0 /\ lease'[b] = lease[b]
    BY <1>1, <1>3, <1>4, <2>1
  <2>3. AtWork(q, b)
    BY <1>1, <1>4 DEF AtWork, TypeOK
  <2>4. a \notin parked => leaseOwner[a] = q /\ lease[a] >= lease[b]
    BY <1>4, <2>1, <2>2, <2>3 DEF LeaseInv
  <2>5. CASE a = w /\ a \notin parked
    <3>1. q = r
      BY <1>1, <2>4, <2>5
    <3>2. b \in batch[r]
      BY <1>1, <1>4, <3>1 DEF AtWork, TypeOK
    <3>3. write[r].op = "markPublished"
      BY <1>1, <1>4, <2>5, <3>2 DEF LeaseInv, w
    <3> QED
      BY <1>2, <1>4, <2>5, <3>3
  <2>6. CASE a # w
    BY <1>1, <1>2, <2>1, <2>2, <2>4, <2>6
  <2>7. CASE a \in parked
    BY <1>2, <2>7
  <2> QED
    BY <2>5, <2>6, <2>7
<1>5. ASSUME NEW q \in Relay, NEW b \in batch'[q]
      PROVE  /\ \A a \in giveBack'[q] : ~SameKey(a, b)
             /\ write'[q] # NoWrite /\ SameKey(write'[q].msg, b)
                  => write'[q].op = "markPublished"
  BY <1>1, <1>5 DEF LeaseInv, TypeOK
<1>6. \A m \in due' : lease'[m] = 0
  BY <1>1 DEF LeaseInv, TypeOK
<1> QED
  BY <1>1, <1>4, <1>5, <1>6 DEF LeaseInv

LEMMA NextLeaseInv ==
  ASSUME Synchronised, TypeOK, SeqInv, RowInv, OwnRowsTogether, LeaseInv, [Next]_vars
  PROVE  LeaseInv'
<1> USE DEF prodVars, rowVars, claimVars, relayVars, boundVars, histVars
<1>1. CASE UNCHANGED leaseVars
  BY <1>1 DEF LeaseInv, AtWork, leaseVars
<1>2. ASSUME NEW p \in Producer, Insert(p) PROVE LeaseInv'
  <2>1. \A m \in rows : seq'[m] = seq[m]
    BY <1>2 DEF Insert, TypeOK, SeqInv, RowInv
  <2>2. UNCHANGED <<rows, due, leaseOwner, lease, batch, giveBack, write, parked>>
    BY <1>2 DEF Insert
  <2> QED
    BY <2>1, <2>2 DEF LeaseInv, AtWork
<1>3. ASSUME NEW r \in Relay, ClaimLock(r) PROVE LeaseInv'
  <2>1. due' \subseteq Lockable(r)
    BY <1>3 DEF ClaimLock
  <2>2. \A m \in Lockable(r) : lease[m] = 0
    BY DEF Lockable, Leased, Synchronised, TypeOK
  <2>3. UNCHANGED <<rows, seq, leaseOwner, lease, batch, giveBack, write, parked>>
    BY <1>3 DEF ClaimLock
  <2> QED
    BY <2>1, <2>2, <2>3 DEF LeaseInv, AtWork
<1>4. ASSUME NEW r \in Relay, LockRow(r) PROVE LeaseInv'
  <2>1. /\ UNCHANGED <<rows, seq, due, leaseOwner, lease, batch, giveBack, parked>>
        /\ \A q \in Relay : write'[q] # NoWrite =>
             /\ write[q] # NoWrite
             /\ write'[q].msg = write[q].msg /\ write'[q].op = write[q].op
    BY <1>4 DEF LockRow, TypeOK, Write
  <2>2. \A q \in Relay, m \in Msg : AtWork(q, m)' => AtWork(q, m)
    BY <2>1 DEF AtWork
  <2>3. rows \subseteq Msg
    BY DEF TypeOK
  <2> QED
    BY <2>1, <2>2, <2>3 DEF LeaseInv
<1>5. ASSUME NEW r \in Relay, Release(r) PROVE LeaseInv'
  <2> DEFINE mine == {m \in giveBack[r] : LeasedBy(r, m)}
  <2>1. /\ write[r] = NoWrite
        /\ \A m \in mine : ~RowLocked(m)
        /\ leaseOwner' = [m \in Msg |-> IF m \in mine THEN NoRelay ELSE leaseOwner[m]]
        /\ lease' = [m \in Msg |-> IF m \in mine THEN 0 ELSE lease[m]]
        /\ giveBack' = [giveBack EXCEPT ![r] = {}]
        /\ UNCHANGED <<rows, seq, due, batch, write, parked>>
    BY <1>5 DEF Release, ClearLease
  <2>2. NoRelay \notin Relay
    BY ConstantsAssumption DEF ConstantsAssumption
  <2>3. \A m \in mine : m \in giveBack[r] /\ leaseOwner[m] = r
    BY DEF LeasedBy
  <2> HIDE DEF mine
  <2>4. ASSUME NEW q \in Relay, NEW a \in rows, NEW b \in rows,
               SameKey(a, b), seq[a] < seq[b],
               AtWork(q, b), leaseOwner'[b] = q, lease'[b] > 0
        PROVE  \/ leaseOwner'[a] = q /\ lease'[a] >= lease'[b]
               \/ a \in parked
    <3>1. a \in Msg /\ b \in Msg
      BY DEF TypeOK
    <3>2. b \notin mine /\ leaseOwner[b] = q /\ lease[b] > 0 /\ lease'[b] = lease[b]
      BY <2>1, <2>2, <2>4, <3>1
    <3>3. a \notin parked => leaseOwner[a] = q /\ lease[a] >= lease[b]
      BY <2>4, <3>2 DEF LeaseInv
    <3>4. CASE a \in mine /\ a \notin parked
      <4>1. q = r /\ b \in batch[r]
        BY <2>1, <2>3, <2>4, <3>3, <3>4 DEF AtWork
      <4> QED
        BY <2>3, <2>4, <3>4, <4>1 DEF LeaseInv
    <3>5. CASE a \notin mine
      BY <2>1, <3>1, <3>2, <3>3, <3>5
    <3> QED
      BY <3>4, <3>5
  <2>5. \A q \in Relay, m \in Msg : AtWork(q, m)' <=> AtWork(q, m)
    BY <2>1 DEF AtWork
  <2>6. \A q \in Relay : giveBack'[q] \subseteq giveBack[q]
    BY <2>1 DEF TypeOK
  <2>7. \A m \in due : lease'[m] = 0
    BY <2>1 DEF LeaseInv, TypeOK
  <2>8. rows \subseteq Msg
    BY DEF TypeOK
  <2>9. \A q \in Relay : \A b \in batch'[q] :
          /\ \A a \in giveBack'[q] : ~SameKey(a, b)
          /\ write'[q] # NoWrite /\ SameKey(write'[q].msg, b)
               => write'[q].op = "markPublished"
    BY <2>1, <2>6 DEF LeaseInv
  <2> QED
    BY <2>1, <2>4, <2>5, <2>7, <2>8, <2>9 DEF LeaseInv
<1>6. ASSUME NEW r \in Relay, Shutdown(r) \/ Crash(r) PROVE LeaseInv'
  <2>1. /\ UNCHANGED <<rows, seq, leaseOwner, lease, parked>>
        /\ due' \subseteq due
        /\ batch' = [batch EXCEPT ![r] = {}]
        /\ \A q \in Relay \ {r} : giveBack'[q] = giveBack[q] /\ write'[q] = write[q]
        /\ write'[r] \in {NoWrite, write[r]}
    BY <1>6 DEF Shutdown, Crash, TypeOK
  <2>2. \A q \in Relay, m \in Msg : AtWork(q, m)' => AtWork(q, m)
    <3> SUFFICES ASSUME NEW q \in Relay, NEW m \in Msg, AtWork(q, m)'
                 PROVE  AtWork(q, m)
      OBVIOUS
    <3>1. CASE q = r
      BY <2>1, <3>1 DEF AtWork, TypeOK
    <3>2. CASE q # r
      BY <2>1, <3>2 DEF AtWork, TypeOK
    <3> QED
      BY <3>1, <3>2
  <2>3. ASSUME NEW q \in Relay, NEW b \in batch'[q]
        PROVE  /\ \A a \in giveBack'[q] : ~SameKey(a, b)
               /\ write'[q] # NoWrite /\ SameKey(write'[q].msg, b)
                    => write'[q].op = "markPublished"
    <3>1. q # r /\ batch'[q] = batch[q]
      BY <2>1, <2>3 DEF TypeOK
    <3> QED
      BY <2>1, <2>3, <3>1 DEF LeaseInv
  <2>4. rows \subseteq Msg
    BY DEF TypeOK
  <2> QED
    BY <2>1, <2>2, <2>3, <2>4 DEF LeaseInv
<1>7. ASSUME NEW S \in SUBSET Msg, RequeueDeadLetters(S) PROVE LeaseInv'
  <2>1. /\ rows' = rows \cup S
        /\ \A m \in Msg : m \in S => leaseOwner'[m] = NoRelay /\ lease'[m] = 0
        /\ \A m \in Msg \ S : leaseOwner'[m] = leaseOwner[m] /\ lease'[m] = lease[m]
        /\ UNCHANGED <<seq, due, batch, giveBack, write, parked>>
    BY <1>7 DEF RequeueDeadLetters, ClearLease
  <2>2. S \subseteq parked /\ S \cap due = {}
    BY <1>7 DEF RequeueDeadLetters, RowInv
  <2>3. ASSUME NEW q \in Relay, NEW a \in rows', NEW b \in rows',
               SameKey(a, b), seq[a] < seq[b],
               AtWork(q, b), leaseOwner'[b] = q, lease'[b] > 0
        PROVE  \/ leaseOwner'[a] = q /\ lease'[a] >= lease'[b]
               \/ a \in parked
    <3>1. a \in Msg /\ b \in Msg
      BY <2>1 DEF TypeOK
    <3>2. b \notin S /\ b \in rows
      BY <2>1, <2>3, <3>1
    <3>3. CASE a \in S
      BY <2>2, <3>3
    <3>4. CASE a \notin S
      BY <2>1, <2>3, <3>1, <3>2, <3>4 DEF LeaseInv
    <3> QED
      BY <3>3, <3>4
  <2>4. \A q \in Relay, m \in Msg : AtWork(q, m)' <=> AtWork(q, m)
    BY <2>1 DEF AtWork
  <2>5. \A m \in due : lease'[m] = 0
    BY <2>1, <2>2 DEF LeaseInv, TypeOK
  <2>6. rows' \subseteq Msg
    BY <2>1 DEF TypeOK
  <2>7. \A q \in Relay : \A b \in batch'[q] :
          /\ \A a \in giveBack'[q] : ~SameKey(a, b)
          /\ write'[q] # NoWrite /\ SameKey(write'[q].msg, b)
               => write'[q].op = "markPublished"
    BY <2>1 DEF LeaseInv
  <2> QED
    BY <2>1, <2>3, <2>4, <2>5, <2>6, <2>7 DEF LeaseInv
<1>8. CASE Tick
  <2>1. /\ lease' = CountDown(lease)
        /\ UNCHANGED <<rows, seq, due, leaseOwner, batch, giveBack, write, parked>>
    BY <1>8 DEF Tick
  <2>2. ASSUME NEW x \in Nat, NEW y \in Nat
        PROVE  x >= y => (IF x = 0 THEN 0 ELSE x - 1) >= (IF y = 0 THEN 0 ELSE y - 1)
    OBVIOUS
  <2>3. ASSUME NEW a \in Msg, NEW b \in Msg
        PROVE  /\ lease[a] >= lease[b] => lease'[a] >= lease'[b]
               /\ lease'[a] > 0 => lease[a] > 0
               /\ lease[a] = 0 => lease'[a] = 0
    <3>1. lease[a] \in Nat /\ lease[b] \in Nat
      BY DEF TypeOK
    <3>2. /\ lease'[a] = IF lease[a] = 0 THEN 0 ELSE lease[a] - 1
          /\ lease'[b] = IF lease[b] = 0 THEN 0 ELSE lease[b] - 1
      BY <2>1 DEF CountDown
    <3> QED
      BY <2>2, <3>1, <3>2
  <2>4. rows \subseteq Msg /\ due \subseteq Msg
    BY DEF TypeOK
  <2>5. \A q \in Relay, m \in Msg : AtWork(q, m)' <=> AtWork(q, m)
    BY <2>1 DEF AtWork
  <2> QED
    BY <2>1, <2>3, <2>4, <2>5 DEF LeaseInv
<1>9. ASSUME NEW p \in Producer, ProducerNext(p) PROVE LeaseInv'
  <2>1. CASE \E S \in SUBSET Msg : BeginAdd(p, S)
    BY <1>1, <2>1 DEF BeginAdd, leaseVars
  <2>2. CASE \E l \in Lock : LockKey(p, l)
    BY <1>1, <2>2 DEF LockKey, leaseVars
  <2>3. CASE Rollback(p)
    BY <1>1, <2>3 DEF Rollback, leaseVars
  <2> QED
    BY <1>2, <1>9, <2>1, <2>2, <2>3, CommitLeaseInv DEF ProducerNext
<1>10. ASSUME NEW r \in Relay, RelayNext(r) PROVE LeaseInv'
  <2>1. CASE ClaimScan(r)
    BY <1>1, <2>1 DEF ClaimScan, leaseVars
  <2> QED
    BY <1>3, <1>4, <1>5, <1>10, <2>1, ClaimLeaseInv, PublishLeaseInv, WriteLeaseInv
       DEF RelayNext
<1>11. ASSUME NEW S \in SUBSET Msg, PurgeDeadLetters(S) PROVE LeaseInv'
  BY <1>1, <1>11 DEF PurgeDeadLetters, leaseVars
<1>12. CASE UNCHANGED vars
  BY <1>1, <1>12 DEF vars, leaseVars
<1> QED
  BY <1>6, <1>7, <1>8, <1>9, <1>10, <1>11, <1>12 DEF Next

LEMMA LeaseInvariance == ASSUME Synchronised PROVE Spec => []LeaseInv
<1>1. Init => LeaseInv
  BY InitLeaseInv
<1>2. Inv /\ LeaseInv /\ [Next]_vars => LeaseInv'
  BY NextLeaseInv DEF Inv
<1> QED
  BY <1>1, <1>2, Invariance, PTL DEF Spec

(* When the clocks agree, a relay at work under a live lease has its key to  *)
(* itself, for any number of relays and messages, any lease and back-off and *)
(* any crashes; only a requeued dead letter may be claimed ahead of it.      *)
THEOREM KeyHeldByOneRelay == ASSUME Synchronised PROVE Spec => []OneRelayPerKey
<1>1. TypeOK /\ LeaseInv => OneRelayPerKey
  <2> SUFFICES ASSUME TypeOK, LeaseInv,
                      NEW r \in Relay, NEW a \in rows, NEW b \in rows,
                      SameKey(a, b), seq[a] < seq[b],
                      AtWork(r, b), leaseOwner[b] = r, lease[b] > 0, a \notin parked
               PROVE  leaseOwner[a] = r /\ lease[a] > 0
    BY DEF OneRelayPerKey
  <2>1. leaseOwner[a] = r /\ lease[a] >= lease[b]
    BY DEF LeaseInv
  <2>2. lease[a] \in Nat /\ lease[b] \in Nat
    BY DEF TypeOK
  <2> QED
    BY <2>1, <2>2
<1> QED
  BY <1>1, TypeCorrect, LeaseInvariance, PTL

(* The lease of a row that has one left ends by its holder's hand only.      *)
LEMMA LeaseEndedByHolder ==
  ASSUME Inv, LeaseInv, [Next]_vars,
         NEW m \in rows, NEW r \in Relay, leaseOwner[m] = r, lease[m] > 0,
         m \notin rows' \/ leaseOwner'[m] # r
  PROVE  \/ write[r] # NoWrite /\ write[r].msg = m /\ write[r].held
         \/ m \in giveBack[r]
<1> USE DEF prodVars, rowVars, claimVars, relayVars, boundVars, histVars
<1>1. m \in Msg /\ m \notin due /\ m \notin deadLetters
  <2>1. rows \subseteq Msg /\ rows \cap deadLetters = {}
    BY DEF Inv, TypeOK, RowInv
  <2>2. m \notin due
    BY DEF LeaseInv
  <2> QED
    BY <2>1, <2>2
<1>2. ~(rows \subseteq rows' /\ UNCHANGED leaseOwner)
  OBVIOUS
<1>3. ASSUME NEW p \in Producer, ProducerNext(p) PROVE FALSE
  BY <1>2, <1>3 DEF ProducerNext, BeginAdd, LockKey, Insert, Commit, Rollback
<1>4. ASSUME NEW q \in Relay,
             \/ ClaimScan(q) \/ ClaimLock(q) \/ LockRow(q) \/ Shutdown(q) \/ Crash(q)
             \/ \E x \in Msg : Publish(q, x) \/ PublishFails(q, x)
      PROVE  FALSE
  BY <1>2, <1>4 DEF ClaimScan, ClaimLock, LockRow, Shutdown, Crash, Publish,
                    PublishFails
<1>5. ASSUME NEW q \in Relay, ClaimCommit(q) PROVE FALSE
  BY <1>1, <1>5 DEF ClaimCommit, Blocked
<1>6. ASSUME NEW q \in Relay, MarkPublished(q) \/ Reschedule(q) \/ DeadLetter(q)
      PROVE  write[r] # NoWrite /\ write[r].msg = m /\ write[r].held
  <2>1. /\ write[q] # NoWrite /\ write[q].held /\ leaseOwner[write[q].msg] = q
        /\ rows \ {write[q].msg} \subseteq rows'
        /\ \A x \in Msg \ {write[q].msg} : leaseOwner'[x] = leaseOwner[x]
    BY <1>6 DEF MarkPublished, Reschedule, DeadLetter, Writing, EndWrite, ClearLease,
                Inv, RowInv, LeasedBy
  <2>2. m = write[q].msg
    BY <1>1, <2>1
  <2> QED
    BY <2>1, <2>2
<1>7. ASSUME NEW q \in Relay, Release(q) PROVE m \in giveBack[r]
  BY <1>1, <1>7 DEF Release, ClearLease, LeasedBy
<1>8. ASSUME NEW S \in SUBSET Msg, RequeueDeadLetters(S) PROVE FALSE
  BY <1>1, <1>8 DEF RequeueDeadLetters, ClearLease
<1>9. ASSUME NEW S \in SUBSET Msg, PurgeDeadLetters(S) PROVE FALSE
  BY <1>2, <1>9 DEF PurgeDeadLetters
<1>10. CASE Tick
  BY <1>2, <1>10 DEF Tick
<1>11. CASE UNCHANGED vars
  BY <1>2, <1>11 DEF vars
<1> HIDE DEF prodVars, rowVars, claimVars, relayVars, boundVars, histVars
<1>12. ASSUME NEW q \in Relay, RelayNext(q)
       PROVE  \/ write[r] # NoWrite /\ write[r].msg = m /\ write[r].held
              \/ m \in giveBack[r]
  BY <1>4, <1>5, <1>6, <1>7, <1>12 DEF RelayNext
<1> QED
  BY <1>3, <1>4, <1>8, <1>9, <1>10, <1>11, <1>12 DEF Next

(* When the clocks agree, a live lease is never taken over: it ends by a     *)
(* fenced write of its holder or by its holder's release.                    *)
THEOREM LiveLeaseKept == ASSUME Synchronised PROVE Spec => LeaseRespected
<1>1. Inv /\ LeaseInv /\ [Next]_vars
        => \A m \in rows, r \in Relay :
             /\ leaseOwner[m] = r /\ lease[m] > 0
             /\ m \notin rows' \/ leaseOwner'[m] # r
             => \/ write[r] # NoWrite /\ write[r].msg = m /\ write[r].held
                \/ m \in giveBack[r]
  BY LeaseEndedByHolder
<1> QED
  BY <1>1, Invariance, LeaseInvariance, PTL DEF Spec, LeaseRespected

-----------------------------------------------------------------------------
(* Implementation of the abstract queue *)

(* A step of the outbox is a step of the queue or leaves the queue alone.    *)
LEMMA StepImplementsQueue ==
  ASSUME Inv, Inv', [Next]_vars
  PROVE  [Queue!QueueNext]_(Queue!queueVars)
<1> USE DEF prodVars, rowVars, claimVars, relayVars, boundVars, histVars,
            Queue!queueVars
<1>1. CASE UNCHANGED <<committed, before, delivered, parked>>
  BY <1>1
<1>2. ASSUME NEW p \in Producer, Commit(p) PROVE Queue!QueueNext
  <2> DEFINE S == inserted[p]
             earlier == {pair \in S \X S : seq[pair[1]] < seq[pair[2]]}
  <2>1. S \in SUBSET Msg /\ S # {} /\ S \subseteq Msg \ committed
    BY <1>2 DEF Commit, Inv, TypeOK, SeqInv
  <2>2. \A a, b \in S :
          /\ seq[a] \in Nat /\ seq[b] \in Nat
          /\ seq[a] = seq[b] => a = b
    <3>1. S \subseteq Numbered /\ S \subseteq Msg
      BY <2>1 DEF Numbered
    <3>2. \A a, b \in Numbered : seq[a] = seq[b] => a = b
      BY DEF Inv, SeqInv
    <3>3. \A a \in Msg : seq[a] \in Nat
      BY DEF Inv, TypeOK
    <3> HIDE DEF S
    <3> QED
      BY <3>1, <3>2, <3>3
  <2>3. /\ earlier \in SUBSET (S \X S)
        /\ \A a, b \in S : <<a, b>> \in earlier <=> seq[a] < seq[b]
    OBVIOUS
  <2>4. before' = [m \in Msg |->
          IF m \in S
          THEN {o \in committed : Queue!InOneKey(o, m)}
                 \cup {o \in S : Queue!InOneKey(o, m) /\ <<o, m>> \in earlier}
          ELSE before[m]]
    BY <1>2 DEF Commit, SameKey, Queue!InOneKey
  <2>5. committed' = committed \cup S /\ UNCHANGED <<delivered, parked>>
    BY <1>2 DEF Commit
  <2> HIDE DEF S, earlier
  <2>6. Queue!Arranges(earlier, S)
    <3>1. ASSUME NEW a \in S, NEW b \in S
          PROVE  /\ a # b => (<<a, b>> \in earlier <=> <<b, a>> \notin earlier)
                 /\ <<a, a>> \notin earlier
      BY <2>2, <2>3
    <3>2. ASSUME NEW a \in S, NEW b \in S, NEW c \in S,
                 <<a, b>> \in earlier, <<b, c>> \in earlier
          PROVE  <<a, c>> \in earlier
      BY <2>2, <2>3, <3>2
    <3> QED
      BY <3>1, <3>2 DEF Queue!Arranges
  <2>7. Queue!Append(S)
    BY <2>1, <2>3, <2>4, <2>5, <2>6 DEF Queue!Append
  <2> QED
    BY <2>1, <2>7 DEF Queue!QueueNext
<1>3. ASSUME NEW r \in Relay, NEW m \in Msg, Publish(r, m) \/ PublishFails(r, m)
      PROVE  Queue!QueueNext \/ UNCHANGED Queue!queueVars
  <2>1. m \in committed /\ before[m] \subseteq delivered \cup parked
    BY <1>3, OldestHadItsTurn DEF Inv, QueueOrder, Publish, PublishFails, Oldest, RowInv
  <2>2. /\ delivered' = delivered \cup {m} \/ UNCHANGED delivered
        /\ UNCHANGED <<committed, before, parked>>
    BY <1>3 DEF Publish, PublishFails
  <2> QED
    BY <2>1, <2>2 DEF Queue!QueueNext, Queue!Receive, Queue!InTurn, Queue!Settled
<1>4. ASSUME NEW r \in Relay, DeadLetter(r) PROVE Queue!QueueNext
  <2> DEFINE m == write[r].msg
  <2>1. m \in committed /\ before[m] \subseteq delivered \cup parked
    BY <1>4 DEF Inv, QueueOrder, WriteInOrder, DeadLetter, Writing, RowInv
  <2>2. parked' = parked \cup {m} /\ UNCHANGED <<committed, before, delivered>>
    BY <1>4 DEF DeadLetter, EndWrite
  <2>3. m \in Msg
    BY <2>1 DEF Inv, TypeOK
  <2> HIDE DEF m
  <2> QED
    BY <2>1, <2>2, <2>3 DEF Queue!QueueNext, Queue!SetAside, Queue!InTurn, Queue!Settled
<1>5. ASSUME NEW p \in Producer, ProducerNext(p), ~Commit(p)
      PROVE  UNCHANGED <<committed, before, delivered, parked>>
  BY <1>5 DEF ProducerNext, BeginAdd, LockKey, Insert, Rollback
<1>6. ASSUME NEW r \in Relay,
             \/ ClaimScan(r) \/ ClaimLock(r) \/ ClaimCommit(r) \/ LockRow(r)
             \/ MarkPublished(r) \/ Reschedule(r) \/ Release(r)
             \/ Shutdown(r) \/ Crash(r)
      PROVE  UNCHANGED <<committed, before, delivered, parked>>
  BY <1>6 DEF ClaimScan, ClaimLock, ClaimCommit, LockRow, MarkPublished, Reschedule,
              EndWrite, Release, Shutdown, Crash
<1>7. ASSUME NEW S \in SUBSET Msg, RequeueDeadLetters(S) \/ PurgeDeadLetters(S)
      PROVE  UNCHANGED <<committed, before, delivered, parked>>
  BY <1>7 DEF RequeueDeadLetters, PurgeDeadLetters
<1>8. CASE Tick
  BY <1>8 DEF Tick
<1>9. CASE UNCHANGED vars
  BY <1>9 DEF vars
<1> HIDE DEF prodVars, rowVars, claimVars, relayVars, boundVars, histVars,
             Queue!queueVars
<1>10. ASSUME NEW p \in Producer, ProducerNext(p)
       PROVE  [Queue!QueueNext]_(Queue!queueVars)
  BY <1>1, <1>2, <1>5, <1>10
<1>11. ASSUME NEW r \in Relay, RelayNext(r) \/ Shutdown(r) \/ Crash(r)
       PROVE  [Queue!QueueNext]_(Queue!queueVars)
  BY <1>1, <1>3, <1>4, <1>6, <1>11 DEF RelayNext
<1> QED
  BY <1>1, <1>7, <1>8, <1>9, <1>10, <1>11 DEF Next

(* The outbox, with its transactions, locks, leases, clocks and crashes, is  *)
(* a queue per key: messages become visible in order and take their turns.   *)
THEOREM OutboxIsKeyedQueue == Spec => ImplementsQueue
<1>1. Init => Queue!QueueInit
  BY DEF Init, Queue!QueueInit
<1> QED
  BY <1>1, Invariance, StepImplementsQueue, PTL
     DEF Spec, ImplementsQueue, Queue!QueueSpec

-----------------------------------------------------------------------------
(* One add() in a transaction never deadlocks *)

\* A transaction wants and holds key locks for its one add() only, and each that
\* it holds is below every one it still wants.
LocksAscend ==
  \A p \in Producer :
    /\ adding[p] # {} => adds[p] = 1
    /\ \A l \in Lock : keyLock[l] = p => adds[p] = 1 /\ \A o \in Missing(p) : l < o

\* In any group of transactions, however long the chain in which they wait for
\* one another, one waits for none of the group.
NoWaitCycle ==
  \A C \in SUBSET Producer :
    C # {} /\ IsFiniteSet(C) => \E p \in C : \A q \in C : ~WaitsFor(p, q)

lockVars == <<adding, adds, keyLock>>

LEMMA LocksAreNumbers == TypeOK => \A p \in Producer : Missing(p) \subseteq Lock /\ Lock \subseteq Nat
BY ConstantsAssumption DEF ConstantsAssumption, TypeOK, Missing, keyLocks, Lock

LEMMA LocksAscendFrame == LocksAscend /\ UNCHANGED lockVars => LocksAscend'
BY DEF LocksAscend, lockVars, Missing, keyLocks

(* A transaction takes its lowest missing lock, so what is left to take is   *)
(* above all it holds; its end frees everything, and no second add() starts. *)
LEMMA ProducerLocksAscend ==
  ASSUME MaxAdds <= 1, TypeOK, LocksAscend, NEW p \in Producer, ProducerNext(p)
  PROVE  LocksAscend'
<1>0. ASSUME NEW q \in Producer, adding'[q] # {}
      PROVE  adds'[q] = 1
  <2>1. /\ adds \in [Producer -> Nat] /\ adding \in [Producer -> SUBSET Msg]
        /\ MaxAdds \in Nat
    BY ConstantsAssumption DEF TypeOK, ConstantsAssumption
  <2>2. adding[q] # {} => adds[q] = 1
    BY DEF LocksAscend
  <2>3. ASSUME NEW S \in SUBSET Msg, BeginAdd(p, S)
        PROVE  adds'[q] = 1
    BY <1>0, <2>1, <2>2, <2>3 DEF BeginAdd
  <2>4. CASE Insert(p) \/ \E k \in Lock : LockKey(p, k)
    BY <1>0, <2>1, <2>2, <2>4 DEF Insert, LockKey
  <2>5. CASE Commit(p) \/ Rollback(p)
    BY <1>0, <2>1, <2>2, <2>5 DEF Commit, Rollback, EndTransaction
  <2> QED
    BY <2>3, <2>4, <2>5 DEF ProducerNext
<1> SUFFICES ASSUME NEW q \in Producer, NEW l \in Lock, keyLock'[l] = q
             PROVE  adds'[q] = 1 /\ \A o \in Missing(q)' : l < o
  BY <1>0 DEF LocksAscend
<1>1. Missing(q) \subseteq Lock /\ Lock \subseteq Nat
  BY LocksAreNumbers
<1>t. /\ adds \in [Producer -> Nat] /\ adding \in [Producer -> SUBSET Msg]
      /\ keyLock \in [Lock -> Producer \cup {NoProducer}]
      /\ NoProducer \notin Producer /\ MaxAdds \in Nat
  BY ConstantsAssumption DEF TypeOK, ConstantsAssumption
<1>2. ASSUME NEW S \in SUBSET Msg, BeginAdd(p, S)
      PROVE  adds'[q] = 1 /\ \A o \in Missing(q)' : l < o
  <2>1. keyLock' = keyLock /\ adds[p] = 0
    BY <1>2, <1>t DEF BeginAdd
  <2>2. q # p
    BY <2>1 DEF LocksAscend
  <2>3. adds'[q] = adds[q] /\ Missing(q)' = Missing(q)
    BY <1>2, <1>t, <2>1, <2>2 DEF BeginAdd, Missing, keyLocks
  <2> QED
    BY <2>1, <2>3 DEF LocksAscend
<1>3. ASSUME NEW k \in Lock, LockKey(p, k)
      PROVE  adds'[q] = 1 /\ \A o \in Missing(q)' : l < o
  <2>1. /\ adds' = adds /\ adding' = adding
        /\ keyLock' = [keyLock EXCEPT ![k] = p]
        /\ keyLock[k] = NoProducer /\ p # NoProducer
        /\ k \in Missing(p) /\ \A o \in Missing(p) : k <= o
    BY <1>3, <1>t DEF LockKey, NextLock
  <2>2. keyLocks(adding[q])' = keyLocks(adding[q])
    BY <2>1 DEF keyLocks
  <2>3. Missing(q)' = IF q = p THEN Missing(q) \ {k} ELSE Missing(q)
    <3>1. \A o \in Lock : (keyLock'[o] = q) <=> (keyLock[o] = q \/ (o = k /\ q = p))
      BY <2>1, <1>t
    <3>2. keyLocks(adding[q]) \subseteq Lock
      BY ConstantsAssumption, <1>t DEF ConstantsAssumption, keyLocks, Lock
    <3> QED
      BY <2>2, <3>1, <3>2 DEF Missing
  <2>4. CASE keyLock[l] = q
    BY <2>1, <2>3, <2>4 DEF LocksAscend
  <2>5. CASE keyLock[l] # q
    <3>1. l = k /\ q = p
      BY <2>1, <2>5, <1>t
    <3>2. adds[p] = 1
      BY <2>1 DEF LocksAscend, Missing, keyLocks
    <3> QED
      <4>1. \A o \in Missing(p) : l <= o /\ o \in Nat
        BY <2>1, <3>1, <1>1
      <4>2. Missing(q)' = Missing(p) \ {l} /\ l \in Nat
        BY <2>3, <3>1, <1>1
      <4> QED
        <5>1. ASSUME NEW o \in Missing(q)' PROVE l < o
          BY <5>1, <4>1, <4>2
        <5>2. adds'[q] = 1
          BY <2>1, <3>1, <3>2
        <5> QED
          BY <5>1, <5>2
  <2> QED
    BY <2>4, <2>5
<1>4. CASE Insert(p)
  <2>1. adds' = adds /\ keyLock' = keyLock /\ adding' = [adding EXCEPT ![p] = {}]
    BY <1>4 DEF Insert
  <2>2. Missing(q)' \subseteq Missing(q)
    BY <2>1 DEF Missing, keyLocks, TypeOK
  <2> QED
    BY <2>1, <2>2 DEF LocksAscend
<1>5. CASE Commit(p) \/ Rollback(p)
  <2>1. /\ adding' = [adding EXCEPT ![p] = {}]
        /\ adds' = [adds EXCEPT ![p] = 0]
        /\ keyLock' = [k \in Lock |-> IF keyLock[k] = p THEN NoProducer ELSE keyLock[k]]
    BY <1>5 DEF Commit, Rollback, EndTransaction
  <2>2. q # p /\ keyLock[l] = q
    BY <2>1, <1>t
  <2>3. adds'[q] = adds[q] /\ Missing(q)' = Missing(q)
    <3>1. keyLocks(adding[q])' = keyLocks(adding[q]) /\ keyLocks(adding[q]) \subseteq Lock
      BY <2>1, <2>2, <1>t, ConstantsAssumption DEF ConstantsAssumption, keyLocks, Lock
    <3>2. \A o \in Lock : (keyLock'[o] = q) <=> (keyLock[o] = q)
      BY <2>1, <2>2, <1>t
    <3> QED
      BY <2>1, <2>2, <1>t, <3>1, <3>2 DEF Missing
  <2> QED
    BY <2>2, <2>3 DEF LocksAscend
<1> QED
  BY <1>2, <1>3, <1>4, <1>5 DEF ProducerNext

LEMMA NextLocksAscend ==
  ASSUME MaxAdds <= 1, TypeOK, LocksAscend, [Next]_vars
  PROVE  LocksAscend'
<1> USE DEF prodVars, rowVars, claimVars, relayVars, boundVars, histVars, lockVars
<1>1. ASSUME NEW r \in Relay, RelayNext(r) \/ Shutdown(r) \/ Crash(r)
      PROVE  UNCHANGED lockVars
  BY <1>1 DEF RelayNext, ClaimScan, ClaimLock, ClaimCommit, Publish, PublishFails,
              LockRow, MarkPublished, Reschedule, DeadLetter, EndWrite, Release,
              Shutdown, Crash
<1>2. ASSUME NEW S \in SUBSET Msg, RequeueDeadLetters(S) \/ PurgeDeadLetters(S)
      PROVE  UNCHANGED lockVars
  BY <1>2 DEF RequeueDeadLetters, PurgeDeadLetters
<1>3. Tick \/ UNCHANGED vars => UNCHANGED lockVars
  BY DEF Tick, vars
<1> QED
  BY <1>1, <1>2, <1>3, LocksAscendFrame, ProducerLocksAscend DEF Next

(* Of a group in which each waits for another, take one that waits for the   *)
(* highest lock: its holder wants a higher one.                              *)
LEMMA AscendingBreaksCycles == TypeOK /\ LocksAscend => NoWaitCycle
<1> SUFFICES ASSUME TypeOK, LocksAscend, NEW C \in SUBSET Producer, C # {}, IsFiniteSet(C),
                    \A p \in C : \E q \in C : WaitsFor(p, q)
             PROVE  FALSE
  BY DEF NoWaitCycle
<1>1. PICK want \in [C -> Lock] : \A p \in C : NextLock(p, want[p])
  <2> DEFINE w == [p \in C |-> CHOOSE l \in Lock : NextLock(p, l)]
  <2>1. \A p \in C : \E l \in Lock : NextLock(p, l)
    BY DEF WaitsFor
  <2>2. \A p \in C : w[p] \in Lock /\ NextLock(p, w[p])
    BY <2>1
  <2>3. w \in [C -> Lock]
    BY <2>2
  <2> QED BY <2>2, <2>3
<1> DEFINE f == [p \in C |-> 0 - want[p]]
<1>2. Lock \subseteq Nat /\ \A p \in C : Missing(p) \subseteq Nat
  BY LocksAreNumbers
<1>3. f \in [C -> Int]
  <2> SUFFICES ASSUME NEW p \in C PROVE 0 - want[p] \in Int
    OBVIOUS
  <2>1. want[p] \in Nat
    BY <1>1, <1>2
  <2> QED
    BY <2>1
<1>4. PICK p \in C : \A q \in C : f[p] <= f[q]
  <2> HIDE DEF f
  <2> QED BY <1>3, LeastNumber
<1>5. \A q \in C : want[q] <= want[p]
  <2>1. \A q \in C : want[q] \in Int /\ want[p] \in Int /\ 0 - want[p] <= 0 - want[q]
    <3> SUFFICES ASSUME NEW q \in C
                 PROVE  want[q] \in Int /\ want[p] \in Int /\ 0 - want[p] <= 0 - want[q]
      OBVIOUS
    <3>1. want[q] \in Nat /\ want[p] \in Nat
      BY <1>1, <1>2
    <3>2. f[p] <= f[q]
      BY <1>4
    <3> QED
      BY <3>1, <3>2
  <2> QED
    BY <2>1
<1>6. PICK q \in C, l \in Lock : NextLock(p, l) /\ keyLock[l] = q
  BY DEF WaitsFor
<1> HIDE DEF f
<1>7. l = want[p]
  BY <1>1, <1>2, <1>6 DEF NextLock
<1>8. want[q] \in Missing(q) /\ l < want[q]
  BY <1>1, <1>6 DEF NextLock, LocksAscend
<1> QED
  BY <1>1, <1>2, <1>5, <1>7, <1>8

LEMMA LocksAscendAlways == ASSUME MaxAdds <= 1 PROVE Spec => []LocksAscend
<1>1. Init => LocksAscend
  BY ConstantsAssumption DEF ConstantsAssumption, Init, LocksAscend
<1>2. TypeOK /\ LocksAscend /\ [Next]_vars => LocksAscend'
  BY NextLocksAscend
<1> QED
  BY <1>1, <1>2, TypeCorrect, PTL DEF Spec

(* "Sorted, so two transactions locking the same keys can't deadlock" (the   *)
(* comment in add()) is right where a transaction adds once, for any number  *)
(* of transactions and keys: then no group of them waits in a circle.  With  *)
(* a second add() it fails (NoLockCycle, which this excludes).               *)
THEOREM OneAddNeverDeadlocks ==
  ASSUME MaxAdds <= 1
  PROVE  Spec => [](NoWaitCycle /\ NoLockCycle)
<1>1. TypeOK /\ LocksAscend => NoWaitCycle
  BY AscendingBreaksCycles
<1>2. NoWaitCycle => NoLockCycle
  <2> SUFFICES ASSUME NoWaitCycle, NEW p \in Producer, NEW q \in Producer
               PROVE  ~(WaitsFor(p, q) /\ WaitsFor(q, p))
    BY DEF NoLockCycle
  <2>1. IsFiniteSet({p, q})
    <3>1. IsFiniteSet({p})
      BY FS_Singleton
    <3>2. {p, q} = {p} \cup {q}
      OBVIOUS
    <3> QED
      BY <3>1, <3>2, FS_AddElement
  <2>2. \E x \in {p, q} : \A y \in {p, q} : ~WaitsFor(x, y)
    BY <2>1 DEF NoWaitCycle
  <2> QED
    BY <2>2
<1> QED
  BY <1>1, <1>2, TypeCorrect, LocksAscendAlways, PTL

=============================================================================
