---------------------------- MODULE Idempotency ----------------------------
(***************************************************************************)
(* The Redis store of infrastructure/idempotency: one record per key, a    *)
(* lock while a handler runs and its stored response afterwards.  Each of  *)
(* the four operations is one Lua script, so one action.                   *)
(*                                                                         *)
(* The interceptor that calls the store (the @nestjs/idempotency package)  *)
(* is not in the repository: what it does with each reply is modelled from *)
(* the comments of the store.  A script it sent may reach Redis late, after *)
(* the process that sent it died, or never.                                *)
(*                                                                         *)
(* Durations are given in half milliseconds, because callers may pass      *)
(* fractions; Redis counts whole milliseconds, one per Tick.               *)
(***************************************************************************)
EXTENDS Integers

CONSTANTS
  Key,          \* record keys
  Attempt,      \* requests, each with a lock-owner id of its own
  NoAttempt,
  NoRecord,
  KeyOf,        \* [Attempt -> Key]
  FpOf,         \* [Attempt -> fingerprint of the request]
  Fp,           \* fingerprints
  LockTtl,      \* lockTtl, in half milliseconds
  Ttl,          \* ttl of a completed record, in half milliseconds
  NoTtl         \* the time to live of a hash without one

ASSUME IdempotencyAssumption ==
  /\ KeyOf \in [Attempt -> Key]
  /\ FpOf \in [Attempt -> Fp]
  /\ NoAttempt \notin Attempt
  /\ LockTtl \in Nat \ {0}
  /\ Ttl \in Nat \ {0}
  /\ NoTtl \notin Nat
  /\ NoRecord \notin [state : {"in-flight", "completed"}, fp : Fp,
                      owner : Attempt \cup {NoAttempt},
                      resp : Attempt \cup {NoAttempt}, ttl : Nat \cup {NoTtl}]

VARIABLES
  record,       \* [Key -> Record \cup {NoRecord}]: the hashes
  phase,        \* [Attempt -> Phase]: where the interceptor is
  sent,         \* [Attempt -> SUBSET Script]: sent to Redis, not executed
  answer,       \* [Attempt -> what the client got]
  \* history, read by the properties only
  ran,          \* attempts whose handler took effect
  lapsed        \* attempts whose lock or stored response expired

vars == <<record, phase, sent, answer, ran, lapsed>>

Script == {"complete", "release", "extend"}
Phase  == {"new", "running", "finished", "failed", "done", "crashed"}
Record == [state : {"in-flight", "completed"}, fp : Fp,
           owner : Attempt \cup {NoAttempt}, resp : Attempt \cup {NoAttempt},
           ttl : Nat \cup {NoTtl}]
Answer == [kind : {"none", "own", "replay", "in-flight", "mismatch", "error"},
           from : Attempt \cup {NoAttempt}]

-----------------------------------------------------------------------------
(* The scripts *)

\* Mutant of toWholeMs: the duration is passed on as it is.
Unrounded(halves) == halves

\* Rounds a duration up to whole milliseconds.
toWholeMs(halves) == 2 * ((halves + 1) \div 2)

\* PEXPIRE refuses a fraction, and what the script wrote before it stays.
Pexpire(r, halves) ==
  IF halves % 2 = 0 THEN [r EXCEPT !.ttl = halves \div 2] ELSE r

Owns(a) == record[KeyOf[a]] # NoRecord /\ record[KeyOf[a]].owner = a

\* Mutant of Locked: a lock without a time to live.
LockedForEver(a) == [state |-> "in-flight", fp |-> FpOf[a], owner |-> a,
                     resp |-> NoAttempt, ttl |-> NoTtl]

Locked(a) == Pexpire([state |-> "in-flight", fp |-> FpOf[a], owner |-> a,
                      resp |-> NoAttempt, ttl |-> NoTtl], toWholeMs(LockTtl))

ACQUIRE(a) ==
  record' = IF record[KeyOf[a]] = NoRecord
            THEN [record EXCEPT ![KeyOf[a]] = Locked(a)] ELSE record

\* Mutants of COMPLETE, RELEASE and EXTEND: the owner is not checked.
CompleteAny(a) ==
  record' = IF record[KeyOf[a]] = NoRecord THEN record
            ELSE [record EXCEPT ![KeyOf[a]] =
                    Pexpire([@ EXCEPT !.state = "completed", !.resp = a,
                                      !.owner = NoAttempt], toWholeMs(Ttl))]

ReleaseAny(a) == record' = [record EXCEPT ![KeyOf[a]] = NoRecord]

ExtendAny(a) ==
  record' = IF record[KeyOf[a]] = NoRecord THEN record
            ELSE [record EXCEPT ![KeyOf[a]] = Pexpire(@, toWholeMs(LockTtl))]

COMPLETE(a) ==
  record' = IF ~Owns(a) THEN record
            ELSE [record EXCEPT ![KeyOf[a]] =
                    Pexpire([@ EXCEPT !.state = "completed", !.resp = a,
                                      !.owner = NoAttempt], toWholeMs(Ttl))]

RELEASE(a) ==
  record' = IF Owns(a) THEN [record EXCEPT ![KeyOf[a]] = NoRecord] ELSE record

EXTEND(a) ==
  record' = IF ~Owns(a) THEN record
            ELSE [record EXCEPT ![KeyOf[a]] = Pexpire(@, toWholeMs(LockTtl))]

-----------------------------------------------------------------------------
(* The interceptor *)

Reply(a, kind, from) ==
  /\ answer' = [answer EXCEPT ![a] = [kind |-> kind, from |-> from]]
  /\ phase' = [phase EXCEPT ![a] = "done"]

\* The lock is free: run the handler.
Acquired(a) ==
  /\ phase[a] = "new" /\ record[KeyOf[a]] = NoRecord
  /\ ACQUIRE(a)
  /\ phase' = [phase EXCEPT ![a] = "running"]
  /\ UNCHANGED <<sent, answer, ran, lapsed>>

\* The reply is lost on its way back: an error for the client, and a lock.
AcquireUnanswered(a) ==
  /\ phase[a] = "new"
  /\ ACQUIRE(a)
  /\ Reply(a, "error", NoAttempt)
  /\ UNCHANGED <<sent, ran, lapsed>>

\* 422: the key was used for another request.
Mismatch(a) ==
  /\ phase[a] = "new"
  /\ record[KeyOf[a]] # NoRecord /\ record[KeyOf[a]].fp # FpOf[a]
  /\ Reply(a, "mismatch", NoAttempt)
  /\ UNCHANGED <<record, sent, ran, lapsed>>

\* 409 while another attempt runs, otherwise its response again.
Existing(a) ==
  /\ phase[a] = "new"
  /\ record[KeyOf[a]] # NoRecord /\ record[KeyOf[a]].fp = FpOf[a]
  /\ IF record[KeyOf[a]].state = "completed"
     THEN Reply(a, "replay", record[KeyOf[a]].resp)
     ELSE Reply(a, "in-flight", NoAttempt)
  /\ UNCHANGED <<record, sent, ran, lapsed>>

Send(a, script) == sent' = [sent EXCEPT ![a] = @ \cup {script}]

HandlerSucceeds(a) ==
  /\ phase[a] = "running"
  /\ phase' = [phase EXCEPT ![a] = "finished"]
  /\ ran' = ran \cup {a}
  /\ Send(a, "complete")
  /\ UNCHANGED <<record, answer, lapsed>>

\* A failure that must be retryable.
HandlerFails(a) ==
  /\ phase[a] = "running"
  /\ phase' = [phase EXCEPT ![a] = "failed"]
  /\ Send(a, "release")
  /\ UNCHANGED <<record, answer, ran, lapsed>>

Heartbeat(a) ==
  /\ phase[a] = "running" /\ "extend" \notin sent[a]
  /\ Send(a, "extend")
  /\ UNCHANGED <<record, phase, answer, ran, lapsed>>

\* Redis executes a script sent to it; the interceptor answers its client
\* whether or not the lock was still its own.
Execute(a, script) ==
  /\ script \in sent[a]
  /\ sent' = [sent EXCEPT ![a] = @ \ {script}]
  /\ \/ script = "complete" /\ COMPLETE(a)
     \/ script = "release" /\ RELEASE(a)
     \/ script = "extend" /\ EXTEND(a)
  /\ CASE script = "complete" /\ phase[a] = "finished" -> Reply(a, "own", a)
       [] script = "release" /\ phase[a] = "failed" -> Reply(a, "error", NoAttempt)
       [] OTHER -> UNCHANGED <<phase, answer>>
  /\ UNCHANGED <<ran, lapsed>>

\* The instance dies; some of what it sent may still arrive.
Crash(a) ==
  /\ phase[a] \in {"running", "finished", "failed"}
  /\ phase' = [phase EXCEPT ![a] = "crashed"]
  /\ \E S \in SUBSET sent[a] : sent' = [sent EXCEPT ![a] = S]
  /\ UNCHANGED <<record, answer, ran, lapsed>>

\* A millisecond of Redis's clock; hashes at the end of their life vanish.
Expiring == {k \in Key : record[k] # NoRecord /\ record[k].ttl = 1}

Tick ==
  /\ \E k \in Key : record[k] # NoRecord
  /\ record' = [k \in Key |->
       IF k \in Expiring THEN NoRecord
       ELSE IF record[k] = NoRecord \/ record[k].ttl = NoTtl THEN record[k]
       ELSE [record[k] EXCEPT !.ttl = @ - 1]]
  /\ lapsed' = lapsed \cup ({record[k].owner : k \in Expiring}
                              \cup {record[k].resp : k \in Expiring})
  /\ UNCHANGED <<phase, sent, answer, ran>>

-----------------------------------------------------------------------------

Init ==
  /\ record = [k \in Key |-> NoRecord]
  /\ phase = [a \in Attempt |-> "new"]
  /\ sent = [a \in Attempt |-> {}]
  /\ answer = [a \in Attempt |-> [kind |-> "none", from |-> NoAttempt]]
  /\ ran = {} /\ lapsed = {}

HandlerEnds(a) == HandlerSucceeds(a) \/ HandlerFails(a)

Next ==
  \/ \E a \in Attempt :
       \/ Acquired(a) \/ AcquireUnanswered(a) \/ Mismatch(a) \/ Existing(a)
       \/ HandlerEnds(a) \/ Heartbeat(a) \/ Crash(a)
       \/ \E script \in Script : Execute(a, script)
  \/ Tick

Spec == Init /\ [][Next]_vars

\* Handlers end, Redis executes what reaches it, and its clock runs.
Fairness ==
  /\ \A a \in Attempt : WF_vars(HandlerEnds(a))
  /\ \A a \in Attempt, script \in Script : WF_vars(Execute(a, script))
  /\ WF_vars(Tick)

FairSpec == Spec /\ Fairness

-----------------------------------------------------------------------------
(* Properties *)

(* Records are well formed, and every record has a time to live: "a rejected *)
(* PEXPIRE after HSET would leave a lock that never expires".                *)
TypeOK ==
  /\ record \in [Key -> Record \cup {NoRecord}]
  /\ phase \in [Attempt -> Phase]
  /\ sent \in [Attempt -> SUBSET Script]
  /\ answer \in [Attempt -> Answer]
  /\ ran \subseteq Attempt
  /\ lapsed \subseteq Attempt \cup {NoAttempt}
  /\ \A k \in Key : record[k] # NoRecord => record[k].ttl \in Nat \ {0}

(* Two handlers of one key both take effect only when a lock ran out under   *)
(* its handler, or a stored response reached the end of its life: never by   *)
(* a retry, a late script, a lost reply or a crash alone.                    *)
OneEffectPerLife ==
  \A a, b \in ran : a # b /\ KeyOf[a] = KeyOf[b] => a \in lapsed \/ b \in lapsed

(* A replayed response is the outcome of a handler that took effect, for the *)
(* same key and the same request.                                            *)
ReplayIsGenuine ==
  \A a \in Attempt : answer[a].kind = "replay" =>
    /\ answer[a].from \in ran
    /\ KeyOf[answer[a].from] = KeyOf[a] /\ FpOf[answer[a].from] = FpOf[a]

(* "Check the owner, then write": a live record changes only by the hand of  *)
(* the attempt that owns it, and a completed one only by its countdown.      *)
OnlyOwnerWrites ==
  [][\A k \in Key : record[k] # NoRecord =>
       \/ record'[k] = record[k]
       \/ record[k].ttl = 1 /\ record'[k] = NoRecord
       \/ record'[k] = [record[k] EXCEPT !.ttl = @ - 1]
       \/ record[k].owner \in Attempt /\ sent'[record[k].owner] # sent[record[k].owner]]_vars

(* "A crashed instance frees the key by itself": no lock is held for ever.   *)
LocksEnd ==
  \A k \in Key :
    (record[k] # NoRecord /\ record[k].state = "in-flight")
      ~> (record[k] = NoRecord \/ record[k].state = "completed")
=============================================================================
