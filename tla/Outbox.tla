------------------------------- MODULE Outbox -------------------------------
(***************************************************************************)
(* The transactional outbox of infrastructure/messaging/outbox: producers  *)
(* add messages inside their own database transaction, relays lease due    *)
(* messages and publish them, operators requeue or purge dead letters.     *)
(*                                                                         *)
(* An action is one SQL statement, or one transaction whose intermediate   *)
(* states no other session can tell apart.  Instants are kept relative to  *)
(* the present: lease[m] is what is left of lease_until and delay[m] what  *)
(* is left of available_at, both counted down by Tick.                     *)
(*                                                                         *)
(* The relay itself (the @nestjs/outbox package) is not in the repository: *)
(* Publish, Release, Shutdown and Crash model it from the calls the store  *)
(* receives.                                                               *)
(***************************************************************************)
EXTENDS Naturals, FiniteSets

CONSTANTS
  Msg,          \* message identifiers
  Key,          \* ordering keys
  NoKey,        \* the key of a message that needs no order
  KeyOf,        \* [Msg -> Key \cup {NoKey}]
  LockOf,       \* [Key -> Nat], the advisory lock number a key hashes to
  Producer,     \* transactions that add messages
  NoProducer,
  Relay,        \* lease owners
  NoRelay,
  NoWrite,
  ClockAhead,   \* [Relay -> Nat], how far a relay's clock runs ahead
  LeaseTicks,   \* leaseMs
  Backoff,      \* how long a rescheduled message waits
  MaxDelay,     \* longest delay a producer asks for
  Limit,        \* most rows one claim takes
  MaxAttempts,  \* attempts before a message becomes a dead letter
  MaxAdds,      \* bound: add() calls in one transaction
  MaxRestarts,  \* bound: relay crashes and shutdowns
  MaxRequeues,  \* bound: operator requeues
  Prompt        \* TRUE: relays finish a batch within its lease

ASSUME ConstantsAssumption ==
  /\ KeyOf \in [Msg -> Key \cup {NoKey}]
  /\ NoKey \notin Key
  /\ LockOf \in [Key -> Nat]
  /\ NoProducer \notin Producer
  /\ NoRelay \notin Relay
  /\ NoWrite \notin [msg : Msg, op : {"markPublished", "reschedule", "deadLetter"},
                   held : BOOLEAN]
  /\ ClockAhead \in [Relay -> Nat]
  /\ LeaseTicks \in Nat \ {0}
  /\ Backoff \in Nat
  /\ MaxDelay \in Nat
  /\ Limit \in Nat \ {0}
  /\ MaxAttempts \in Nat \ {0}
  /\ MaxAdds \in Nat
  /\ MaxRestarts \in Nat
  /\ MaxRequeues \in Nat
  /\ Prompt \in BOOLEAN
  /\ IsFiniteSet(Msg)

VARIABLES
  \* producers
  adding,       \* [Producer -> SUBSET Msg]: the argument of an add() under way
  inserted,     \* [Producer -> SUBSET Msg]: rows inserted, not committed
  adds,         \* [Producer -> Nat]: add() calls of this transaction
  keyLock,      \* [Lock -> Producer \cup {NoProducer}]: pg_advisory_xact_lock
  used,         \* messages some transaction ever tried to add
  nextSeq,      \* the identity column's generator
  \* outbox_messages and outbox_dead_letters, as committed
  rows, deadLetters,
  seq, delay, attempts, leaseOwner, lease,
  \* the claim transaction under way (claims take turns)
  claimer,      \* holder of CLAIM_LOCK
  scan,         \* rows its first statement found claimable
  due,          \* rows it locked and leased, not committed
  \* relays
  batch,        \* [Relay -> SUBSET Msg]: claimed, still to publish
  write,        \* [Relay -> Write]: the store write under way
  giveBack,     \* [Relay -> SUBSET Msg]: claimed, to be released
  restarts, requeues,
  \* history, read by the properties only
  before,       \* [Msg -> SUBSET Msg]: same-key messages visible before it
  committed,    \* messages that were ever visible
  delivered,    \* messages the broker received at least once
  parked,       \* messages that were dead letters at least once
  purged        \* messages an operator discarded

prodVars == <<adding, inserted, adds, keyLock, used, nextSeq>>
rowVars  == <<rows, deadLetters, seq, delay, attempts, leaseOwner, lease>>
claimVars == <<claimer, scan, due>>
relayVars == <<batch, write, giveBack>>
boundVars == <<restarts, requeues>>
histVars == <<before, committed, delivered, parked, purged>>
vars == <<prodVars, rowVars, claimVars, relayVars, boundVars, histVars>>

Lock == {LockOf[k] : k \in Key}
Op   == {"markPublished", "reschedule", "deadLetter"}
Write == [msg : Msg, op : Op, held : BOOLEAN]

-----------------------------------------------------------------------------
(* Rows *)

SameKey(a, b) == KeyOf[a] # NoKey /\ KeyOf[a] = KeyOf[b]

\* available_at <= now and lease_until > now, on relay r's clock.
Available(r, m) == delay[m] <= ClockAhead[r]
\* Mutants of Leased: the lease's instant is not compared with the clock.
LeaseIgnored(r, m) == FALSE
LeaseForEver(r, m) == leaseOwner[m] # NoRelay

Leased(r, m)    == lease[m] > ClockAhead[r]

\* Due, unleased, and no older message with the same key is delayed or leased.
Claimable(r, m) ==
  /\ m \in rows
  /\ Available(r, m)
  /\ ~Leased(r, m)
  /\ \A older \in rows :
       SameKey(older, m) /\ seq[older] < seq[m]
         => Available(r, older) /\ ~Leased(r, older)

\* A row some uncommitted statement has locked.
RowLocked(m) == m \in due \/ \E r \in Relay : write[r] # NoWrite
                                             /\ write[r].msg = m
                                             /\ write[r].held

\* Mutant of ClearLease: lease_until is not set.
ClearOwner(S) ==
  /\ leaseOwner' = [m \in Msg |-> IF m \in S THEN NoRelay ELSE leaseOwner[m]]
  /\ UNCHANGED lease

\* The columns of the rows in S after "lease_owner = NULL, lease_until = NULL".
ClearLease(S) ==
  /\ leaseOwner' = [m \in Msg |-> IF m \in S THEN NoRelay ELSE leaseOwner[m]]
  /\ lease' = [m \in Msg |-> IF m \in S THEN 0 ELSE lease[m]]

-----------------------------------------------------------------------------
(* Producers: DrizzleOutboxStore.add inside the caller's transaction *)

\* Mutant of keyLocks: rows are inserted without waiting for their key.
NoLocks(S) == {}

\* One lock per key, collisions and repetitions removed.
keyLocks(S) == {LockOf[KeyOf[m]] : m \in {x \in S : KeyOf[x] # NoKey}}

Missing(p) == {l \in keyLocks(adding[p]) : keyLock[l] # p}

\* The locks are taken in ascending order: the next one is the least missing.
NextLock(p, l) == l \in Missing(p) /\ \A o \in Missing(p) : l <= o

BeginAdd(p, S) ==
  /\ adding[p] = {} /\ adds[p] < MaxAdds
  /\ S # {} /\ S \cap used = {}
  /\ adding' = [adding EXCEPT ![p] = S]
  /\ adds' = [adds EXCEPT ![p] = @ + 1]
  /\ used' = used \cup S
  /\ UNCHANGED <<inserted, keyLock, nextSeq, rowVars, claimVars, relayVars,
                 boundVars, histVars>>

\* pg_advisory_xact_lock: waits until the lock is free.
LockKey(p, l) ==
  /\ NextLock(p, l)
  /\ keyLock[l] = NoProducer
  /\ keyLock' = [keyLock EXCEPT ![l] = p]
  /\ UNCHANGED <<adding, inserted, adds, used, nextSeq, rowVars, claimVars,
                 relayVars, boundVars, histVars>>

\* INSERT: the rows take the next sequence numbers, in the caller's order.
Insert(p) ==
  /\ adding[p] # {} /\ Missing(p) = {}
  /\ \E number \in [adding[p] -> nextSeq .. nextSeq + Cardinality(adding[p]) - 1],
        d \in 0 .. MaxDelay :
       /\ \A a, b \in adding[p] : number[a] = number[b] => a = b
       /\ seq' = [m \in Msg |-> IF m \in adding[p] THEN number[m] ELSE seq[m]]
       /\ delay' = [m \in Msg |-> IF m \in adding[p] THEN d ELSE delay[m]]
  /\ nextSeq' = nextSeq + Cardinality(adding[p])
  /\ inserted' = [inserted EXCEPT ![p] = @ \cup adding[p]]
  /\ adding' = [adding EXCEPT ![p] = {}]
  /\ UNCHANGED <<adds, keyLock, used, rows, deadLetters, attempts, leaseOwner,
                 lease, claimVars, relayVars, boundVars, histVars>>

\* The end of p's transaction, which frees its advisory locks.
EndTransaction(p) ==
  /\ adding' = [adding EXCEPT ![p] = {}]
  /\ inserted' = [inserted EXCEPT ![p] = {}]
  /\ adds' = [adds EXCEPT ![p] = 0]
  /\ keyLock' = [l \in Lock |-> IF keyLock[l] = p THEN NoProducer ELSE keyLock[l]]
  /\ UNCHANGED <<used, nextSeq>>

Commit(p) ==
  /\ inserted[p] # {} /\ adding[p] = {}
  /\ rows' = rows \cup inserted[p]
  /\ committed' = committed \cup inserted[p]
  /\ before' = [m \in Msg |->
       IF m \in inserted[p]
       THEN {o \in committed : SameKey(o, m)}
              \cup {o \in inserted[p] : SameKey(o, m) /\ seq[o] < seq[m]}
       ELSE before[m]]
  /\ EndTransaction(p)
  /\ UNCHANGED <<deadLetters, seq, delay, attempts, leaseOwner, lease, claimVars,
                 relayVars, boundVars, delivered, parked, purged>>

\* An error in the caller's transaction, or the server breaking a deadlock.
Rollback(p) ==
  /\ adding[p] \cup inserted[p] # {}
  /\ EndTransaction(p)
  /\ UNCHANGED <<rowVars, claimVars, relayVars, boundVars, histVars>>

-----------------------------------------------------------------------------
(* DrizzleOutboxStore.claim, a READ COMMITTED transaction of three statements *)

Idle(r) == batch[r] = {} /\ write[r] = NoWrite /\ giveBack[r] = {}

\* Takes CLAIM_LOCK; the snapshot of the SELECT.
ClaimScan(r) ==
  /\ claimer = NoRelay /\ Idle(r)
  /\ scan' = {m \in Msg : Claimable(r, m)}
  /\ scan' # {}
  /\ claimer' = r
  /\ UNCHANGED <<due, prodVars, rowVars, relayVars, boundVars, histVars>>

\* FOR UPDATE SKIP LOCKED re-reads each row of the snapshot as it now is (but
\* not its older siblings), passes over the locked ones and stops at Limit; the
\* UPDATE then leases what it locked.
Lockable(r) == {m \in scan \cap rows : /\ Available(r, m)
                                       /\ ~Leased(r, m)
                                       /\ ~RowLocked(m)}

ClaimLock(r) ==
  /\ claimer = r /\ scan # {}
  /\ due' = {m \in Lockable(r) :
               Cardinality({o \in Lockable(r) : seq[o] < seq[m]}) < Limit}
  /\ claimer' = IF due' = {} THEN NoRelay ELSE r
  /\ scan' = {}
  /\ UNCHANGED <<prodVars, rowVars, relayVars, boundVars, histVars>>

\* p is the newest row before m in m's key.
Predecessor(p, m) ==
  /\ p \in rows /\ SameKey(p, m) /\ seq[p] < seq[m]
  /\ \A q \in rows : SameKey(q, m) /\ seq[q] < seq[m] => seq[q] <= seq[p]

\* The lease the transaction sees on p: its own update, or the committed one.
SeenOwner(r, p) == IF p \in due THEN r ELSE leaseOwner[p]

\* Mutant of BehindOther: <> in the place of IS DISTINCT FROM.
BehindOtherLease(r, m) ==
  \E p \in rows : Predecessor(p, m) /\ SeenOwner(r, p) \notin {r, NoRelay}

BehindOther(r, m) == \E p \in rows : Predecessor(p, m) /\ SeenOwner(r, p) # r

\* Mutant of Blocked: no last look.
NothingBlocked(r) == {}

\* The rows the last look gives back: the blocked one and the rest of its key.
Blocked(r) == {m \in due : \E b \in due : /\ b = m \/ SameKey(b, m)
                                          /\ seq[b] <= seq[m]
                                          /\ BehindOther(r, b)}

ClaimCommit(r) ==
  /\ claimer = r /\ due # {}
  /\ leaseOwner' = [m \in Msg |-> IF m \in Blocked(r) THEN NoRelay
                                  ELSE IF m \in due THEN r ELSE leaseOwner[m]]
  /\ lease' = [m \in Msg |-> IF m \in Blocked(r) THEN 0
                             ELSE IF m \in due THEN LeaseTicks + ClockAhead[r]
                             ELSE lease[m]]
  /\ batch' = [batch EXCEPT ![r] = due \ Blocked(r)]
  /\ claimer' = NoRelay
  /\ due' = {}
  /\ UNCHANGED <<scan, prodVars, rows, deadLetters, seq, delay, attempts, write,
                 giveBack, boundVars, histVars>>

-----------------------------------------------------------------------------
(* Relays *)

RestOfKey(r, m) == {o \in batch[r] : o # m /\ SameKey(o, m)}

\* A message is handed to the broker in seq order within its key.
Oldest(r, m) == m \in batch[r] /\ \A o \in RestOfKey(r, m) : seq[m] < seq[o]

StartWrite(r, m, op) ==
  write' = [write EXCEPT ![r] = [msg |-> m, op |-> op, held |-> FALSE]]

Publish(r, m) ==
  /\ write[r] = NoWrite /\ Oldest(r, m)
  /\ delivered' = delivered \cup {m}
  /\ batch' = [batch EXCEPT ![r] = @ \ {m}]
  /\ StartWrite(r, m, "markPublished")
  /\ UNCHANGED <<giveBack, prodVars, rowVars, claimVars, boundVars, before,
                 committed, parked, purged>>

\* Rejected by the broker, or unanswered when the publish timeout ran out (the
\* broker may have it all the same).  The rest of the key waits for a retry.
PublishFails(r, m) ==
  /\ write[r] = NoWrite /\ Oldest(r, m)
  /\ \/ UNCHANGED delivered
     \/ delivered' = delivered \cup {m}
  /\ batch' = [batch EXCEPT ![r] = @ \ (RestOfKey(r, m) \cup {m})]
  /\ giveBack' = [giveBack EXCEPT ![r] = @ \cup RestOfKey(r, m)]
  /\ StartWrite(r, m, IF attempts[m] + 1 < MaxAttempts THEN "reschedule"
                                                       ELSE "deadLetter")
  /\ UNCHANGED <<prodVars, rowVars, claimVars, boundVars, before, committed,
                 parked, purged>>

\* Mutant of LeasedBy: the write names the row only.
Unfenced(r, m) == m \in rows

\* leasedBy(id, owner): every relay write is fenced by the lease.  The statement
\* waits for a locked row, then reads it as it has become.
LeasedBy(r, m) == m \in rows /\ leaseOwner[m] = r

LockRow(r) ==
  /\ write[r] # NoWrite /\ ~write[r].held
  /\ ~RowLocked(write[r].msg)
  /\ write' = [write EXCEPT ![r] = IF LeasedBy(r, write[r].msg)
                                   THEN [@ EXCEPT !.held = TRUE]
                                   ELSE NoWrite]
  /\ UNCHANGED <<batch, giveBack, prodVars, rowVars, claimVars, boundVars, histVars>>

Writing(r, op) == write[r] # NoWrite /\ write[r].held /\ write[r].op = op

EndWrite(r) ==
  /\ write' = [write EXCEPT ![r] = NoWrite]
  /\ ClearLease({write[r].msg})
  /\ UNCHANGED <<batch, giveBack, prodVars, seq, claimVars, boundVars, before,
                 committed, delivered, purged>>

\* DELETE, fenced.
MarkPublished(r) ==
  /\ Writing(r, "markPublished")
  /\ rows' = rows \ {write[r].msg}
  /\ EndWrite(r)
  /\ UNCHANGED <<deadLetters, delay, attempts, parked>>

\* UPDATE of attempts and available_at that frees the lease, fenced.
Reschedule(r) ==
  /\ Writing(r, "reschedule")
  /\ attempts' = [attempts EXCEPT ![write[r].msg] = @ + 1]
  /\ delay' = [delay EXCEPT ![write[r].msg] = Backoff + ClockAhead[r]]
  /\ EndWrite(r)
  /\ UNCHANGED <<rows, deadLetters, parked>>

\* Mutant of DeadLetter: the row is deleted and kept nowhere.
DropLetter(r) ==
  /\ Writing(r, "deadLetter")
  /\ rows' = rows \ {write[r].msg}
  /\ parked' = parked \cup {write[r].msg}
  /\ EndWrite(r)
  /\ UNCHANGED <<deadLetters, delay, attempts>>

\* DELETE, fenced, and upsert into the dead letters, in one transaction.
DeadLetter(r) ==
  /\ Writing(r, "deadLetter")
  /\ rows' = rows \ {write[r].msg}
  /\ deadLetters' = deadLetters \cup {write[r].msg}
  /\ parked' = parked \cup {write[r].msg}
  /\ EndWrite(r)
  /\ UNCHANGED <<delay, attempts>>

\* UPDATE that frees the leases r still holds on what it gives back.
Release(r) ==
  /\ giveBack[r] # {} /\ write[r] = NoWrite
  /\ LET mine == {m \in giveBack[r] : LeasedBy(r, m)}
     IN  /\ \A m \in mine : ~RowLocked(m)
         /\ ClearLease(mine)
  /\ giveBack' = [giveBack EXCEPT ![r] = {}]
  /\ UNCHANGED <<batch, write, prodVars, rows, deadLetters, seq, delay, attempts,
                 claimVars, boundVars, histVars>>

\* The process stops: what it did not publish yet is released.
Shutdown(r) ==
  /\ restarts < MaxRestarts /\ batch[r] # {} /\ write[r] = NoWrite
  /\ giveBack' = [giveBack EXCEPT ![r] = @ \cup batch[r]]
  /\ batch' = [batch EXCEPT ![r] = {}]
  /\ restarts' = restarts + 1
  /\ UNCHANGED <<write, prodVars, rowVars, claimVars, requeues, histVars>>

\* The process dies: the server rolls back its transaction, its leases stay.
Crash(r) ==
  /\ restarts < MaxRestarts /\ (~Idle(r) \/ claimer = r)
  /\ batch' = [batch EXCEPT ![r] = {}]
  /\ write' = [write EXCEPT ![r] = NoWrite]
  /\ giveBack' = [giveBack EXCEPT ![r] = {}]
  /\ IF claimer = r
     THEN claimer' = NoRelay /\ scan' = {} /\ due' = {}
     ELSE UNCHANGED claimVars
  /\ restarts' = restarts + 1
  /\ UNCHANGED <<prodVars, rowVars, requeues, histVars>>

-----------------------------------------------------------------------------
(* Operators and time *)

\* Back into outbox_messages with the original seq; neither the key locks nor
\* CLAIM_LOCK is taken.
RequeueDeadLetters(S) ==
  /\ requeues < MaxRequeues
  /\ S # {} /\ S \subseteq deadLetters
  /\ deadLetters' = deadLetters \ S
  /\ rows' = rows \cup S
  /\ attempts' = [m \in Msg |-> IF m \in S THEN 0 ELSE attempts[m]]
  /\ delay' = [m \in Msg |-> IF m \in S THEN 0 ELSE delay[m]]
  /\ ClearLease(S)
  /\ requeues' = requeues + 1
  /\ UNCHANGED <<prodVars, seq, claimVars, relayVars, restarts, histVars>>

PurgeDeadLetters(S) ==
  /\ S # {} /\ S \subseteq deadLetters
  /\ deadLetters' = deadLetters \ S
  /\ purged' = purged \cup S
  /\ UNCHANGED <<prodVars, rows, seq, delay, attempts, leaseOwner, lease,
                 claimVars, relayVars, boundVars, before, committed, delivered,
                 parked>>

Busy(r, m) == \/ m \in batch[r] \cup giveBack[r]
              \/ write[r] # NoWrite /\ write[r].msg = m

\* An instant comes closer, until it is past.
CountDown(f) == [m \in Msg |-> IF f[m] = 0 THEN 0 ELSE f[m] - 1]

\* When Prompt, time does not take a lease from a relay still at work on it.
Tick ==
  /\ \E m \in rows : lease[m] > 0 \/ delay[m] > 0
  /\ Prompt => \A r \in Relay, m \in Msg :
                 Busy(r, m) /\ LeasedBy(r, m) => lease[m] > 1 + ClockAhead[r]
  /\ delay' = CountDown(delay)
  /\ lease' = CountDown(lease)
  /\ UNCHANGED <<prodVars, rows, deadLetters, seq, attempts, leaseOwner, claimVars,
                 relayVars, boundVars, histVars>>

-----------------------------------------------------------------------------

Init ==
  /\ adding = [p \in Producer |-> {}]
  /\ inserted = [p \in Producer |-> {}]
  /\ adds = [p \in Producer |-> 0]
  /\ keyLock = [l \in Lock |-> NoProducer]
  /\ used = {}
  /\ nextSeq = 1
  /\ rows = {} /\ deadLetters = {}
  /\ seq = [m \in Msg |-> 0]
  /\ delay = [m \in Msg |-> 0]
  /\ attempts = [m \in Msg |-> 0]
  /\ leaseOwner = [m \in Msg |-> NoRelay]
  /\ lease = [m \in Msg |-> 0]
  /\ claimer = NoRelay /\ scan = {} /\ due = {}
  /\ batch = [r \in Relay |-> {}]
  /\ write = [r \in Relay |-> NoWrite]
  /\ giveBack = [r \in Relay |-> {}]
  /\ restarts = 0 /\ requeues = 0
  /\ before = [m \in Msg |-> {}]
  /\ committed = {} /\ delivered = {} /\ parked = {} /\ purged = {}

ProducerNext(p) ==
  \/ \E S \in SUBSET Msg : BeginAdd(p, S)
  \/ \E l \in Lock : LockKey(p, l)
  \/ Insert(p)
  \/ Commit(p)
  \/ Rollback(p)

RelayNext(r) ==
  \/ ClaimScan(r) \/ ClaimLock(r) \/ ClaimCommit(r)
  \/ \E m \in Msg : Publish(r, m) \/ PublishFails(r, m)
  \/ LockRow(r)
  \/ MarkPublished(r) \/ Reschedule(r) \/ DeadLetter(r)
  \/ Release(r)

Next ==
  \/ \E p \in Producer : ProducerNext(p)
  \/ \E r \in Relay : RelayNext(r) \/ Shutdown(r) \/ Crash(r)
  \/ \E S \in SUBSET Msg : RequeueDeadLetters(S) \/ PurgeDeadLetters(S)
  \/ Tick

Spec == Init /\ [][Next]_vars
-----------------------------------------------------------------------------
(* Properties *)

(* The columns, locks and claims hold values of their type, and the two      *)
(* columns of a lease go together whatever statement wrote them last: a row  *)
(* without an owner keeps no lease that would hide it from claims.           *)
TypeOK ==
  /\ adding \in [Producer -> SUBSET Msg]
  /\ inserted \in [Producer -> SUBSET Msg]
  /\ adds \in [Producer -> Nat]
  /\ keyLock \in [Lock -> Producer \cup {NoProducer}]
  /\ used \subseteq Msg
  /\ nextSeq \in Nat
  /\ rows \subseteq Msg /\ deadLetters \subseteq Msg
  /\ seq \in [Msg -> Nat]
  /\ delay \in [Msg -> Nat]
  /\ attempts \in [Msg -> Nat]
  /\ leaseOwner \in [Msg -> Relay \cup {NoRelay}]
  /\ lease \in [Msg -> Nat]
  /\ \A m \in Msg : leaseOwner[m] = NoRelay => lease[m] = 0
  /\ claimer \in Relay \cup {NoRelay}
  /\ scan \subseteq Msg /\ due \subseteq Msg
  /\ batch \in [Relay -> SUBSET Msg]
  /\ write \in [Relay -> Write \cup {NoWrite}]
  /\ giveBack \in [Relay -> SUBSET Msg]
  /\ restarts \in Nat /\ requeues \in Nat
  /\ before \in [Msg -> SUBSET Msg]
  /\ committed \subseteq Msg /\ delivered \subseteq Msg
  /\ parked \subseteq Msg /\ purged \subseteq Msg

(* "Rows are numbered in the order they become visible": a message has a     *)
(* higher seq than every message of its key that was visible before it, a    *)
(* requeued one included.  This is what the advisory key locks of add() are  *)
(* for; without them a slow transaction commits a lower number late.         *)
SeqFollowsCommit ==
  \A m \in committed : \A o \in before[m] : seq[o] < seq[m]

(* The promise of keys: the broker receives a message for the first time     *)
(* only after every earlier message of its key was received, or was given    *)
(* up as a dead letter.  It holds across crashes, expired leases, late       *)
(* publishes, skewed clocks and requeues, and rests on claimable(), the last *)
(* look of claim() and the fence of every relay write.                       *)
PublishedInOrder ==
  \A m \in delivered : before[m] \subseteq delivered \cup parked

(* The outbox implements the abstract queue: messages become visible behind  *)
(* their key, and each is received or set aside in its turn.                 *)
Queue == INSTANCE KeyedQueue
           WITH visible <- committed, ahead <- before,
                received <- delivered, setAside <- parked

ImplementsQueue == Queue!QueueSpec

(* At least once: a committed message the broker never received is still     *)
(* waiting, or is a dead letter, or an operator purged it.                   *)
NoMessageLost ==
  committed \ delivered \subseteq rows \cup deadLetters \cup purged

\* r will hand m to the broker, or waits for the store to record the outcome.
AtWork(r, m) == \/ m \in batch[r]
                \/ write[r] # NoWrite /\ write[r].msg = m

(* With synchronised clocks a relay at work on a message under a live lease  *)
(* is alone in its key: it holds a live lease on every older row of the key  *)
(* too, so no other relay can publish ahead of it.  Only a dead letter that  *)
(* was requeued in front of a message already claimed escapes.               *)
OneRelayPerKey ==
  \A r \in Relay, a, b \in rows :
    /\ SameKey(a, b) /\ seq[a] < seq[b]
    /\ AtWork(r, b) /\ leaseOwner[b] = r /\ lease[b] > 0
    => \/ leaseOwner[a] = r /\ lease[a] > 0
       \/ a \in parked

(* With synchronised clocks a live lease is ended by its holder only: by one *)
(* of its fenced writes, or by its release().                                *)
LeaseRespected ==
  [][\A m \in rows, r \in Relay :
       /\ leaseOwner[m] = r /\ lease[m] > 0
       /\ m \notin rows' \/ leaseOwner'[m] # r
       => \/ write[r] # NoWrite /\ write[r].msg = m /\ write[r].held
          \/ m \in giveBack[r]]_vars

(* keyLocks(): "two transactions locking the same keys can't deadlock".  No  *)
(* two transactions each wait for a lock the other holds.                    *)
WaitsFor(p, q) == \E l \in Lock : NextLock(p, l) /\ keyLock[l] = q

NoLockCycle ==
  \A p, q \in Producer : p # q => ~(WaitsFor(p, q) /\ WaitsFor(q, p))

(* Every visible message leaves the table: published, or set aside.  Assumes *)
(* that relays keep polling and finish within their leases (Prompt), and     *)
(* that crashes and requeues are finite in number (the bounds).              *)
Fairness ==
  /\ \A r \in Relay : WF_vars(RelayNext(r))
  /\ WF_vars(Tick)

FairSpec == Spec /\ Fairness

Drains == \A m \in Msg : m \in rows ~> m \notin rows

-----------------------------------------------------------------------------
(* The inductive invariants behind SeqFollowsCommit, NoMessageLost and       *)
(* PublishedInOrder (proved in OutboxProofs).                                *)

Numbered == committed \cup UNION {inserted[p] : p \in Producer}

\* Producers work on messages of their own; a row inserted holds its key's lock
\* and is numbered above everything of that key that is visible.
SeqInv ==
  /\ committed \subseteq used
  /\ \A p \in Producer :
       /\ adding[p] \cup inserted[p] \subseteq used \ committed
       /\ adding[p] \cap inserted[p] = {}
       /\ \A q \in Producer \ {p} :
            (adding[p] \cup inserted[p]) \cap (adding[q] \cup inserted[q]) = {}
       /\ \A m \in inserted[p] :
            /\ KeyOf[m] # NoKey => keyLock[LockOf[KeyOf[m]]] = p
            /\ \A o \in committed : SameKey(o, m) => seq[o] < seq[m]
  /\ \A m \in Numbered : seq[m] < nextSeq
  /\ \A a, b \in Numbered : seq[a] = seq[b] => a = b
  /\ \A m \in committed :
       before[m] \subseteq {o \in committed : SameKey(o, m) /\ seq[o] < seq[m]}

\* Where a visible message is, and who may hold or lock its row.
RowInv ==
  /\ rows \cup deadLetters \cup delivered \cup parked \subseteq committed
  /\ rows \cap deadLetters = {}
  /\ deadLetters \cup purged \subseteq parked
  /\ committed \subseteq rows \cup deadLetters \cup delivered \cup purged
  /\ due \subseteq rows /\ scan \subseteq committed
  /\ \A m \in Msg : leaseOwner[m] # NoRelay => m \in rows
  /\ \A r \in Relay :
       /\ batch[r] \subseteq committed
       /\ claimer = r => Idle(r)
       /\ write[r] # NoWrite =>
            /\ write[r].msg \in committed
            /\ write[r].op = "markPublished" => write[r].msg \in delivered
            /\ write[r].held => /\ LeasedBy(r, write[r].msg)
                               /\ write[r].msg \notin due
  /\ scan = {} \/ due = {}
  /\ claimer = NoRelay => scan = {} /\ due = {}

\* An older row of the key that still names the claimer as its lease owner is
\* claimed with the younger one.
OwnRowsTogether ==
  \A m \in scan \cup due, p \in rows :
    /\ SameKey(p, m) /\ seq[p] < seq[m]
    /\ leaseOwner[p] = claimer /\ claimer \in Relay
    => /\ m \in scan => /\ p \in scan
                       /\ Available(claimer, p) /\ ~Leased(claimer, p)
       /\ m \in due => p \in due

\* What a relay is about to publish waits only for messages of the same batch.
BatchInOrder ==
  \A r \in Relay : \A m \in batch[r] :
    before[m] \subseteq delivered \cup parked \cup batch[r]

\* A message being set aside had its turn.
WriteInOrder ==
  \A r \in Relay : write[r] # NoWrite =>
    before[write[r].msg] \subseteq delivered \cup parked

SettledInOrder == \A m \in delivered \cup parked : before[m] \subseteq delivered \cup parked

OrderInv == OwnRowsTogether /\ BatchInOrder /\ WriteInOrder /\ SettledInOrder

\* The inductive form of OneRelayPerKey: a row being claimed has no lease left,
\* a relay that gives a message back or sets one aside keeps nothing of its key,
\* and the lease on an older row outlasts the one on a row at work.
LeaseInv ==
  /\ \A m \in due : lease[m] = 0
  /\ \A r \in Relay : \A b \in batch[r] :
       /\ \A a \in giveBack[r] : ~SameKey(a, b)
       /\ write[r] # NoWrite /\ SameKey(write[r].msg, b)
            => write[r].op = "markPublished"
  /\ \A r \in Relay, a, b \in rows :
       /\ SameKey(a, b) /\ seq[a] < seq[b]
       /\ AtWork(r, b) /\ leaseOwner[b] = r /\ lease[b] > 0
       => \/ leaseOwner[a] = r /\ lease[a] >= lease[b]
          \/ a \in parked
=============================================================================
