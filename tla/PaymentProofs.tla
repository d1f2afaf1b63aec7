--------------------------- MODULE PaymentProofs ---------------------------
(* Proofs about Payment, for any callers, amounts, balances and bounds.     *)
EXTENDS Payment, TLAPS

(* Calls that hold the payment's lock until they return, by the status they *)
(* read under it.                                                           *)
Settling  == {"walletTx", "moveJob", "createTicket", "chargeTx", "expireTx"}
Verifying == {"ticketStatus", "verifyTicket", "outcome", "cancelStatus", "cancelTicket", "recallTx"}
Refunding == {"refundStatus", "reverseTicket", "refundTx"}
Critical  == Settling \cup Verifying \cup Refunding

Pcs == {"idle", "job", "dropJob"} \cup Critical

Todo == [amount : 0 .. Amount, attempt : 0 .. MaxSettles,
         status : {"none", "full", "partial", "verified", "verified-before",
                   "canceled", "expired", "reversed", "failed"}]

(* The worker holds an active job, which has a try left. *)
JobHeld ==
  /\ job.state \in {"delayed", "active"} => job.attempts < JobAttempts
  /\ proc[Worker].pc \in {"idle", "job", "ticketStatus", "verifyTicket", "outcome", "expireTx"}
  /\ proc[Worker].pc # "idle" => job.state = "active"
  /\ \A p \in Caller : proc[p].pc \notin {"job", "expireTx"}

Types == TypeOK /\ JobHeld

Open == {"pending", "processing"}

----------------------------------------------------------------------------
(* Types.                                                                   *)

LEMMA CallFields ==
  ASSUME NEW c
  PROVE  c \in Call <=> c = [pc |-> c.pc, seen |-> c.seen, todo |-> c.todo]
                        /\ c.pc \in Pcs /\ c.seen \in Payment /\ c.todo \in Todo
  BY DEF Call, Todo, Pcs, Critical, Settling, Verifying, Refunding

LEMMA IdleIsCall ==
  Idle \in Call /\ Idle.pc = "idle" /\ Idle.seen = NoRow /\ Idle.todo = Nothing
  BY PaymentAssumption DEF PaymentAssumption, Idle, Call, NoRow, Nothing, Payment

(* How a step changes a call. *)
LEMMA Goes ==
  ASSUME proc \in [Proc -> Call], NEW p \in Proc, NEW pc \in Pcs, Goto(p, pc)
  PROVE  /\ proc' \in [Proc -> Call]
         /\ proc'[p].pc = pc /\ proc'[p].seen = seen(p) /\ proc'[p].todo = todo(p)
         /\ \A q \in Proc \ {p} : proc'[q] = proc[q]
<1>1. proc[p] \in Call
  OBVIOUS
<1>2. [proc[p] EXCEPT !.pc = pc] \in Call
  BY <1>1 DEF Call, Pcs, Critical, Settling, Verifying, Refunding
<1>3. proc' = [proc EXCEPT ![p] = [proc[p] EXCEPT !.pc = pc]]
  BY DEF Goto
<1>4. /\ [proc[p] EXCEPT !.pc = pc].pc = pc /\ [proc[p] EXCEPT !.pc = pc].seen = seen(p)
      /\ [proc[p] EXCEPT !.pc = pc].todo = todo(p)
  BY <1>1 DEF Call, seen, todo
<1> QED
  BY <1>2, <1>3, <1>4

LEMMA Answers ==
  ASSUME proc \in [Proc -> Call], NEW p \in Proc,
         NEW s \in {"verified", "verified-before", "canceled", "expired", "reversed", "failed"},
         Answer(p, s)
  PROVE  /\ proc' \in [Proc -> Call]
         /\ proc'[p].pc = "outcome" /\ proc'[p].seen = seen(p)
         /\ proc'[p].todo.status = s
         /\ \A q \in Proc \ {p} : proc'[q] = proc[q]
<1> DEFINE c == [proc[p] EXCEPT !.pc = "outcome", !.todo.status = s]
<1>1. proc[p] \in Call
  OBVIOUS
<1>2. c \in Call /\ c.pc = "outcome" /\ c.seen = seen(p) /\ c.todo.status = s
  BY <1>1 DEF Call, seen
<1>3. proc' = [proc EXCEPT ![p] = c]
  BY DEF Answer
<1> QED
  BY <1>2, <1>3

LEMMA RetriedTyped ==
  ASSUME job \in Job, job.attempts < JobAttempts
  PROVE  /\ Retried \in Job /\ Retried.state \notin {"active", "gone"}
         /\ Retried.state = "delayed" => Retried.attempts < JobAttempts
  BY DEF Retried, Job, JobAttempts

LEMMA Returns ==
  ASSUME Types, NEW p \in Proc, proc[p].pc # "idle", NEW ok \in BOOLEAN, Return(p, ok)
  PROVE  /\ proc' \in [Proc -> Call] /\ proc'[p] = Idle
         /\ \A q \in Proc \ {p} : proc'[q] = proc[q]
         /\ job' \in Job /\ JobHeld'
         /\ job'.state = "gone" => job.state = "gone" \/ (p = Worker /\ ok)
         /\ lock' \in Proc \cup {NoProc} /\ lock' \in {lock, NoProc} /\ (lock # p => lock' = lock)
<1> USE DEF Types, TypeOK
<1>1. /\ proc' \in [Proc -> Call] /\ proc'[p] = Idle
      /\ \A q \in Proc \ {p} : proc'[q] = proc[q]
  BY IdleIsCall DEF Return
<1>2. lock' \in Proc \cup {NoProc} /\ lock' \in {lock, NoProc} /\ (lock # p => lock' = lock)
  BY DEF Return, unlock
<1>3. Worker \in Proc /\ Caller \subseteq Proc /\ Worker \notin Caller
  BY PaymentAssumption DEF Proc
<1>4. /\ job' \in Job /\ JobHeld'
      /\ job'.state = "gone" => job.state = "gone" \/ (p = Worker /\ ok)
  <2>1. CASE p # Worker
    <3>1. job' = job
      BY <2>1 DEF Return
    <3> QED
      BY <1>1, <1>3, <2>1, <3>1, IdleIsCall DEF JobHeld
  <2>2. CASE p = Worker /\ ok
    <3>1. job' = [job EXCEPT !.state = "gone"]
      BY <2>2 DEF Return
    <3>2. job' \in Job /\ job'.state = "gone"
      BY <3>1 DEF Job
    <3> QED
      BY <1>1, <1>3, <2>2, <3>2, IdleIsCall DEF JobHeld
  <2>3. CASE p = Worker /\ ~ok
    <3>1. job' = Retried
      BY <2>3 DEF Return
    <3>2. /\ job' \in Job /\ job'.state \notin {"active", "gone"}
          /\ job'.state = "delayed" => job'.attempts < JobAttempts
      BY <2>3, <3>1, RetriedTyped DEF JobHeld
    <3> QED
      BY <1>1, <1>3, <2>3, <3>2, IdleIsCall DEF JobHeld
  <2> QED
    BY <2>1, <2>2, <2>3
<1> QED
  BY <1>1, <1>2, <1>4

LEMMA Enters ==
  ASSUME proc \in [Proc -> Call], pay \in Payment,
         NEW p \in Proc, NEW pc \in Pcs, NEW t \in Todo, Enter(p, pc, t)
  PROVE  /\ proc' \in [Proc -> Call]
         /\ proc'[p].pc = pc /\ proc'[p].seen = pay /\ proc'[p].todo = t
         /\ \A q \in Proc \ {p} : proc'[q] = proc[q]
         /\ lock = NoProc /\ lock' = p
<1> DEFINE c == [pc |-> pc, seen |-> pay, todo |-> t]
<1>1. c \in Call
  BY DEF Call, Pcs, Critical, Settling, Verifying, Refunding, Todo
<1>2. proc' = [proc EXCEPT ![p] = c] /\ lock = NoProc /\ lock' = p
  BY DEF Enter
<1> QED
  BY <1>1, <1>2

(* What a row becomes. *)
LEMMA UpdatedTyped ==
  ASSUME pay \in Payment,
         NEW s \in {"pending", "processing", "paid", "failure", "expired", "refunded"}
  PROVE  /\ updated(s) \in Payment
         /\ updated(s).status = s /\ updated(s).customer = pay.customer
         /\ IF s = "pending" THEN /\ updated(s).method = "none" /\ updated(s).attempt = 0
                                  /\ updated(s).walletAmount = 0
                             ELSE /\ updated(s).method = pay.method /\ updated(s).attempt = pay.attempt
                                  /\ updated(s).walletAmount = pay.walletAmount
<1>1. CASE s = "pending"
  <2>1. updated(s) = [pay EXCEPT !.status = s, !.method = "none", !.attempt = 0, !.walletAmount = 0]
    BY <1>1 DEF updated
  <2>2. 0 \in 0 .. MaxSettles /\ 0 \in 0 .. Amount
    BY PaymentAssumption DEF PaymentAssumption
  <2>3. updated(s) \in Payment
    BY <1>1, <2>1, <2>2 DEF Payment
  <2>4. /\ updated(s).status = s /\ updated(s).customer = pay.customer
        /\ updated(s).method = "none" /\ updated(s).attempt = 0 /\ updated(s).walletAmount = 0
    BY <2>1 DEF Payment
  <2> QED
    BY <1>1, <2>3, <2>4
<1>2. CASE s # "pending"
  <2>1. updated(s) = [pay EXCEPT !.status = s]
    BY <1>2 DEF updated
  <2> QED
    BY <1>2, <2>1 DEF Payment
<1> QED
  BY <1>1, <1>2

LEMMA SettledTyped ==
  ASSUME pay \in Payment, proc \in [Proc -> Call], NEW p \in Proc,
         NEW s \in {"processing", "paid"}, NEW m \in {"wallet", "gateway", "partial"},
         NEW a \in 0 .. MaxSettles, settle(p, s, m, a)
  PROVE  /\ pay' \in Payment
         /\ pay'.status = s /\ pay'.method = m /\ pay'.attempt = a
         /\ pay'.walletAmount = todo(p).amount /\ pay'.customer = pay.customer
<1>1. todo(p).amount \in 0 .. Amount
  BY CallFields DEF todo, Todo
<1> QED
  BY <1>1 DEF settle, Payment

----------------------------------------------------------------------------
(* The ways a call goes on, apart from what it does to the database.        *)

Moves(p) == proc' \in [Proc -> Call] /\ \A q \in Proc \ {p} : proc'[q] = proc[q]

(* A request or the job takes the lock. *)
EntersAs(p) ==
  \/ p \in Caller /\ pay.status = "pending" /\ proc'[p].pc \in {"walletTx", "moveJob"}
  \/ p \in Proc /\ pay.status = "processing" /\ proc'[p].pc = "ticketStatus"
  \/ p \in Caller /\ pay.status = "processing" /\ proc'[p].pc = "cancelStatus"
  \/ /\ p \in Caller /\ pay.status = "paid" /\ proc'[p].pc \in {"refundStatus", "refundTx"}
     /\ proc'[p].todo.status \in asked'
     /\ IF proc'[p].todo.status = "partial"
        THEN proc'[p].pc = "refundTx" /\ proc'[p].todo.amount > 0
        ELSE proc'[p].todo.status = "full"
  \/ p = Worker /\ pay.status = "pending" /\ proc'[p].pc = "expireTx"

Entry(p) ==
  /\ p \in Proc /\ Moves(p)
  /\ proc[p].pc \in {"idle", "job"} /\ (p \in Caller <=> proc[p].pc = "idle")
  /\ proc'[p].seen = pay /\ EntersAs(p)
  /\ lock = NoProc /\ lock' = p
  /\ asked \subseteq asked' /\ asked' \subseteq {"full", "partial"}
  /\ job' = job /\ calls' \in 0 .. MaxCalls
  /\ UNCHANGED <<dbVars, extVars, faults, lapsed>>

(* What has a call remove the job: the payment is closed, or was when the  *)
(* call decided on it.                                                     *)
DropsJob(p) ==
  \/ pay'.status \notin Open \/ proc[p].pc = "dropJob"
  \/ p = Worker /\ proc[p].pc = "job" /\ seen(p).status \notin Open

(* A call ends, or only the expiry job is left to drop. *)
Exit(p) ==
  /\ p \in Proc /\ Moves(p)
  /\ proc[p].pc # "idle"
  /\ proc'[p] = Idle \/ (p \in Caller /\ proc'[p].pc = "dropJob" /\ proc'[p].seen = seen(p))
  /\ lock' \in Proc \cup {NoProc} /\ lock' \in {lock, NoProc} /\ (lock # p => lock' = lock)
  /\ job' \in Job /\ JobHeld'
  /\ (job'.state = "gone" /\ job.state # "gone") \/ proc'[p] # Idle => DropsJob(p)

(* A call takes a step and keeps the lock. *)
Advance(p, from, to) ==
  /\ p \in Proc /\ Moves(p)
  /\ proc[p].pc = from /\ proc'[p].pc = to /\ proc'[p].seen = seen(p)
  /\ p = Worker => to \in {"verifyTicket", "outcome"}
  /\ UNCHANGED <<dbVars, lock, job, boundVars, histVars>>

LEMMA EntrySteps ==
  ASSUME Types, NEW p \in Caller
  PROVE  /\ \A amount \in 0 .. Amount : Settle(p, amount) => Entry(p)
         /\ Callback(p) => Entry(p)
         /\ Cancel(p) => Entry(p)
         /\ Refund(p, "full", 0) => Entry(p)
         /\ \A amount \in RefundAmounts : Refund(p, "partial", amount) => Entry(p)
<1> USE DEF Types, TypeOK
<1>0. p \in Proc /\ p # Worker
  BY PaymentAssumption DEF Proc, PaymentAssumption
<1>1. ASSUME NEW amount \in 0 .. Amount, Settle(p, amount)
      PROVE  Entry(p)
  <2> DEFINE pc == IF amount = Amount THEN "walletTx" ELSE "moveJob"
             t == [Nothing EXCEPT !.amount = amount]
  <2>1. t \in Todo /\ pc \in Pcs
    BY PaymentAssumption DEF Todo, Nothing, Pcs, Critical, Settling, PaymentAssumption
  <2>2. Enter(p, pc, t)
    BY <1>1 DEF Settle
  <2> HIDE DEF t
  <2>3. /\ proc' \in [Proc -> Call]
        /\ proc'[p].pc = pc /\ proc'[p].seen = pay
        /\ \A q \in Proc \ {p} : proc'[q] = proc[q]
        /\ lock = NoProc /\ lock' = p
    BY <1>0, <2>1, <2>2, Enters
  <2> QED
    <3>1. calls' \in 0 .. MaxCalls
      BY <1>1, PaymentAssumption DEF Settle, Request, PaymentAssumption
    <3>2. Moves(p) /\ EntersAs(p)
      BY <1>0, <1>1, <2>3 DEF Settle, Moves, EntersAs
    <3> QED
      BY <1>0, <1>1, <2>2, <2>3, <3>1, <3>2 DEF Settle, Request, Entry, Enter
<1>2. ASSUME Callback(p) \/ Cancel(p)
      PROVE  Entry(p)
  <2> DEFINE pc == IF Callback(p) THEN "ticketStatus" ELSE "cancelStatus"
  <2>1. Nothing \in Todo /\ pc \in Pcs
    BY IdleIsCall, CallFields DEF Pcs, Critical, Verifying
  <2>2. Enter(p, pc, Nothing) /\ Request(p) /\ pay.status = "processing" /\ asked' = asked
    BY <1>2 DEF Callback, Cancel
  <2>3. /\ proc' \in [Proc -> Call]
        /\ proc'[p].pc = pc /\ proc'[p].seen = pay
        /\ \A q \in Proc \ {p} : proc'[q] = proc[q]
        /\ lock = NoProc /\ lock' = p
    BY <1>0, <2>1, <2>2, Enters
  <2>4. calls' \in 0 .. MaxCalls
    BY <2>2, PaymentAssumption DEF Request, PaymentAssumption
  <2>5. Moves(p) /\ EntersAs(p)
    BY <1>0, <2>2, <2>3 DEF Moves, EntersAs
  <2> QED
    BY <1>0, <2>2, <2>3, <2>4, <2>5 DEF Request, Entry, Enter
<1>3. ASSUME NEW type \in {"full", "partial"}, NEW amount \in 0 .. Amount,
             type = "partial" => amount > 0, Refund(p, type, amount)
      PROVE  Entry(p)
  <2> DEFINE pc == IF type = "partial" \/ pay.method = "wallet" THEN "refundTx" ELSE "refundStatus"
             t == [Nothing EXCEPT !.status = type, !.amount = amount]
  <2>0. Nothing \in Todo
    BY IdleIsCall, CallFields
  <2>1. t \in Todo /\ t.status = type /\ t.amount = amount /\ pc \in Pcs
    BY <2>0 DEF Todo, Pcs, Critical, Refunding
  <2>2. Enter(p, pc, t) /\ Request(p) /\ pay.status = "paid" /\ asked' = asked \cup {type}
    BY <1>3 DEF Refund
  <2> HIDE DEF t
  <2>3. /\ proc' \in [Proc -> Call]
        /\ proc'[p].pc = pc /\ proc'[p].seen = pay /\ proc'[p].todo = t
        /\ \A q \in Proc \ {p} : proc'[q] = proc[q]
        /\ lock = NoProc /\ lock' = p
    BY <1>0, <2>1, <2>2, Enters
  <2>4. calls' \in 0 .. MaxCalls
    BY <2>2, PaymentAssumption DEF Request, PaymentAssumption
  <2>5. Moves(p) /\ EntersAs(p)
    BY <1>0, <1>3, <2>1, <2>2, <2>3 DEF Moves, EntersAs
  <2> QED
    BY <1>0, <2>2, <2>3, <2>4, <2>5 DEF Request, Entry, Enter
<1>4. RefundAmounts \subseteq 0 .. Amount /\ 0 \in 0 .. Amount /\ \A x \in RefundAmounts : x > 0
  BY PaymentAssumption DEF PaymentAssumption
<1> QED
  BY <1>1, <1>2, <1>3, <1>4

LEMMA WorkerEnters ==
  ASSUME Types, RunJob
  PROVE  Entry(Worker)
<1> USE DEF Types, TypeOK
<1> DEFINE pc == IF pay.status = "pending" THEN "expireTx" ELSE "ticketStatus"
<1>0. Worker \in Proc /\ Worker \notin Caller
  BY PaymentAssumption DEF Proc, PaymentAssumption
<1>1. Nothing \in Todo /\ pc \in Pcs
  BY IdleIsCall, CallFields DEF Pcs, Critical, Verifying, Settling
<1>2. /\ Enter(Worker, pc, Nothing) /\ proc[Worker].pc = "job" /\ asked' = asked
      /\ job' = job /\ calls' = calls /\ pay.status \in {"pending", "processing"}
  BY DEF RunJob, at
<1>3. /\ proc' \in [Proc -> Call]
      /\ proc'[Worker].pc = pc /\ proc'[Worker].seen = pay
      /\ \A q \in Proc \ {Worker} : proc'[q] = proc[q]
      /\ lock = NoProc /\ lock' = Worker
  BY <1>0, <1>1, <1>2, Enters
<1>4. Moves(Worker) /\ EntersAs(Worker)
  BY <1>0, <1>2, <1>3 DEF Moves, EntersAs
<1> QED
  BY <1>0, <1>2, <1>3, <1>4 DEF Entry, Enter

(* A call that returns without an effect, or fails. *)
QuietExit(p) ==
  /\ Exit(p)
  /\ calls' = calls /\ faults' \in 0 .. MaxFaults
  /\ UNCHANGED <<dbVars, ticket, histVars>>
  /\ next' \in 1 .. MaxSettles + 1 /\ next <= next'

LEMMA ReturnExits ==
  ASSUME Types, NEW p \in Proc, proc[p].pc # "idle", NEW ok \in BOOLEAN, Return(p, ok),
         p = Worker /\ ok => DropsJob(p)
  PROVE  Exit(p)
  BY Returns DEF Exit, Moves

LEMMA GoesToDropJob ==
  ASSUME Types, NEW p \in Caller, proc[p].pc # "idle", Goto(p, "dropJob"), job' = job,
         lock' = lock \/ unlock(p), pay'.status \notin Open
  PROVE  Exit(p)
<1>1. p \in Proc /\ p # Worker /\ Worker \in Proc /\ Caller \subseteq Proc
  BY PaymentAssumption DEF Proc, PaymentAssumption
<1>2. /\ proc' \in [Proc -> Call] /\ proc'[p].pc = "dropJob" /\ proc'[p].seen = seen(p)
      /\ \A q \in Proc \ {p} : proc'[q] = proc[q]
  BY <1>1, Goes DEF Pcs, Types, TypeOK
<1>3. lock' \in Proc \cup {NoProc} /\ lock' \in {lock, NoProc} /\ (lock # p => lock' = lock)
  BY DEF unlock, Types, TypeOK
<1>4. JobHeld' /\ job' \in Job
  BY <1>1, <1>2 DEF JobHeld, Types, TypeOK
<1> QED
  BY <1>1, <1>2, <1>3, <1>4 DEF Exit, Moves, DropsJob

LEMMA DropJobExits ==
  ASSUME Types, NEW p \in Proc, DropJob(p)
  PROVE  QuietExit(p)
<1> USE DEF Types, TypeOK
<1>1. p \in Caller /\ p # Worker /\ Worker \in Proc /\ Caller \subseteq Proc
  BY PaymentAssumption DEF Proc, PaymentAssumption, JobHeld, DropJob, at
<1>2. /\ proc' \in [Proc -> Call] /\ proc'[p] = Idle /\ proc[p].pc = "dropJob"
      /\ \A q \in Proc \ {p} : proc'[q] = proc[q]
  BY IdleIsCall DEF DropJob, at
<1>3. lock' \in Proc \cup {NoProc} /\ lock' \in {lock, NoProc} /\ (lock # p => lock' = lock)
  BY DEF DropJob, unlock
<1>4. job' \in Job /\ JobHeld'
  <2>1. /\ job' \in Job /\ (job.state = "active" => job' = job)
        /\ job'.state \in {"delayed", "active"} => job' = job
    BY DEF DropJob, cancelJob, Job
  <2> QED
    BY <1>1, <1>2, <2>1, IdleIsCall DEF JobHeld
<1>5. UNCHANGED <<dbVars, extVars, histVars>> /\ calls' = calls /\ faults' \in 0 .. MaxFaults
  BY DEF DropJob, boundVars
<1> QED
  BY <1>1, <1>2, <1>3, <1>4, <1>5 DEF QuietExit, Exit, Moves, DropsJob, extVars

LEMMA FailExits ==
  ASSUME Types, NEW p \in Proc, Fail(p)
  PROVE  QuietExit(p)
<1> USE DEF Types, TypeOK
<1>1. Worker \in Proc /\ Worker \notin Caller /\ Caller \subseteq Proc
  BY PaymentAssumption DEF Proc, PaymentAssumption
<1>2. /\ proc' \in [Proc -> Call] /\ proc'[p] = Idle /\ proc[p].pc # "idle"
      /\ \A q \in Proc \ {p} : proc'[q] = proc[q]
  BY IdleIsCall DEF Fail
<1>3. lock' \in Proc \cup {NoProc} /\ lock' \in {lock, NoProc} /\ (lock # p => lock' = lock)
  BY DEF Fail, unlock
<1>4. job' \in Job /\ JobHeld' /\ (job'.state = "gone" => job.state = "gone")
  <2>1. CASE p # Worker
    BY <1>1, <1>2, <2>1, IdleIsCall DEF JobHeld, Fail
  <2>2. CASE p = Worker
    <3>1. /\ job' \in Job /\ job'.state \notin {"active", "gone"}
          /\ job'.state = "delayed" => job'.attempts < JobAttempts
      BY <1>2, <2>2, RetriedTyped DEF JobHeld, Fail
    <3> QED
      BY <1>1, <1>2, <2>2, <3>1, IdleIsCall DEF JobHeld
  <2> QED
    BY <2>1, <2>2
<1>5. UNCHANGED <<dbVars, extVars, histVars>> /\ calls' = calls /\ faults' \in 0 .. MaxFaults
  BY PaymentAssumption DEF Fail, PaymentAssumption
<1> QED
  BY <1>2, <1>3, <1>4, <1>5 DEF QuietExit, Exit, Moves, extVars

LEMMA SkipJobExits ==
  ASSUME Types, SkipJob
  PROVE  QuietExit(Worker)
<1> DEFINE none == seen(Worker).status \notin {"pending", "processing"}
<1>1. Worker \in Proc /\ none \in BOOLEAN
  BY DEF Proc
<1>2. Return(Worker, none) /\ proc[Worker].pc = "job" /\ UNCHANGED <<dbVars, extVars, boundVars, histVars>>
  BY DEF SkipJob, at
<1>3. none => DropsJob(Worker)
  BY <1>2 DEF DropsJob, Open
<1> HIDE DEF none
<1>4. Exit(Worker)
  BY <1>1, <1>2, <1>3, ReturnExits
<1> QED
  BY <1>2, <1>4 DEF QuietExit, Types, TypeOK, boundVars, extVars

----------------------------------------------------------------------------
(* The steps of a call under the lock.                                      *)

Captured == {"verified", "verified-before"}

\* What the gateway answered, and nothing else.
Reads(p) ==
  /\ UNCHANGED extVars
  /\ \/ Advance(p, "moveJob", "createTicket")
     \/ Advance(p, "ticketStatus", "verifyTicket") /\ mine(p) = "done"
     \/ /\ Advance(p, "ticketStatus", "outcome")
        /\ IF proc'[p].todo.status \in Captured THEN mine(p) \in {"verified", "settled"}
           ELSE mine(p) \notin {"verified", "settled"}
     \/ Advance(p, "cancelStatus", "recallTx") /\ mine(p) = "canceled"
     \/ Advance(p, "cancelStatus", "cancelTicket")
     \/ /\ \/ Advance(p, "refundStatus", "refundTx")
           \/ Advance(p, "refundStatus", "reverseTicket")
        /\ proc'[p].todo = todo(p)

Creates(p) ==
  /\ Advance(p, "createTicket", "chargeTx")
  /\ next <= MaxSettles /\ next' = next + 1 /\ proc'[p].todo.attempt = next
  /\ ticket' = [ticket EXCEPT ![next] = "created"]

Captures(p) ==
  /\ Advance(p, "verifyTicket", "outcome") /\ next' = next
  /\ ticket' = [ticket EXCEPT ![seen(p).attempt] = IF @ = "done" THEN "verified" ELSE @]
  /\ IF proc'[p].todo.status \in Captured THEN mine(p) \in {"done", "verified"}
     ELSE mine(p) \notin {"done", "verified"}

CancelsTicket(p) ==
  /\ Advance(p, "cancelTicket", "recallTx") /\ next' = next
  /\ mine(p) = "created" /\ ticket' = [ticket EXCEPT ![seen(p).attempt] = "canceled"]

Reverses(p) ==
  /\ Advance(p, "reverseTicket", "refundTx") /\ next' = next /\ proc'[p].todo = todo(p)
  /\ mine(p) \in {"done", "verified"}
  /\ ticket' = [ticket EXCEPT ![seen(p).attempt] = "reversed"]

\* The transactions that commit.
PaysByWallet(p) ==
  /\ Exit(p) /\ proc[p].pc = "walletTx" /\ next <= MaxSettles /\ next' = next + 1
  /\ withdrawOk(Amount) /\ settleOk /\ fulfillOk
  /\ withdraw(next, Amount) /\ settle(p, "paid", "wallet", next) /\ fulfill
  /\ UNCHANGED <<refunded, delivery, ticket, boundVars, histVars>>

Charges(p) ==
  LET part == todo(p).amount IN
  /\ Exit(p) /\ proc[p].pc = "chargeTx" /\ settleOk
  /\ IF part > 0 THEN /\ withdrawOk(part) /\ withdraw(todo(p).attempt, part) /\ UNCHANGED refunded
                      /\ settle(p, "processing", "partial", todo(p).attempt)
     ELSE noWallet /\ settle(p, "processing", "gateway", todo(p).attempt)
  /\ UNCHANGED <<fulfillment, delivery, extVars, boundVars, histVars>>

Pays(p) ==
  /\ Exit(p) /\ proc[p].pc = "outcome" /\ todo(p).status \in Captured
  /\ onPaidOk /\ onPaid
  /\ UNCHANGED <<extVars, boundVars, histVars>>

FailsPayment(p) ==
  /\ Exit(p) /\ proc[p].pc \in {"outcome", "expireTx"}
  /\ proc[p].pc = "outcome" => todo(p).status \notin Captured
  /\ \E status \in {"failure", "expired"} : onFailedOk(seen(p), status) /\ onFailed(seen(p), status)
  /\ UNCHANGED <<extVars, boundVars, histVars>>

Recalls(p) ==
  /\ Exit(p) /\ proc[p].pc = "recallTx"
  /\ IF seen(p).method = "partial"
     THEN depositOk(seen(p), seen(p).walletAmount) /\ deposit(seen(p), seen(p).walletAmount)
     ELSE noWallet
  /\ updateStatus("pending") /\ cancelDelivery
  /\ UNCHANGED <<fulfillment, extVars, boundVars, histVars>>

Refunds(p) ==
  LET back == walletRefund(p) IN
  /\ Exit(p) /\ proc[p].pc = "refundTx"
  /\ updateStatusOk("refunded") /\ updateStatus("refunded")
  /\ IF back > 0 THEN depositOk(seen(p), back) /\ deposit(seen(p), back) ELSE noWallet
  /\ UNCHANGED <<fulfillment, delivery, extVars, boundVars, histVars>>

CallStep(p) ==
  \/ QuietExit(p) \/ Reads(p) \/ Creates(p) \/ Captures(p) \/ CancelsTicket(p) \/ Reverses(p)
  \/ PaysByWallet(p) \/ Charges(p) \/ Pays(p) \/ FailsPayment(p) \/ Recalls(p) \/ Refunds(p)

LEMMA ReturnQuiet ==
  ASSUME Types, NEW p \in Proc, proc[p].pc # "idle", NEW ok \in BOOLEAN, Return(p, ok),
         p # Worker \/ ~ok,
         UNCHANGED <<dbVars, extVars, boundVars, histVars>>
  PROVE  QuietExit(p)
  BY ReturnExits DEF QuietExit, Types, TypeOK, boundVars, extVars

LEMMA GoesOn ==
  ASSUME Types, NEW p \in Proc, NEW to \in Pcs, Goto(p, to),
         UNCHANGED <<dbVars, lock, job, boundVars, histVars>>,
         p = Worker => to \in {"verifyTicket", "outcome"}
  PROVE  Advance(p, proc[p].pc, to) /\ proc'[p].todo = todo(p)
  BY Goes DEF Advance, Moves, Types, TypeOK

LEMMA AnswersOn ==
  ASSUME Types, NEW p \in Proc,
         NEW s \in {"verified", "verified-before", "canceled", "expired", "reversed", "failed"},
         Answer(p, s), UNCHANGED <<dbVars, lock, job, boundVars, histVars>>
  PROVE  Advance(p, proc[p].pc, "outcome") /\ proc'[p].todo.status = s
  BY Answers DEF Advance, Moves, Types, TypeOK

LEMMA CallSteps ==
  ASSUME Types, NEW p \in Proc, Step(p)
  PROVE  CallStep(p)
<1> USE DEF Types, TypeOK
<1>0. p \in Caller \/ p = Worker
  BY DEF Proc
<1>1. CASE WalletTx(p)
  <2> DEFINE ok == withdrawOk(Amount) /\ settleOk /\ fulfillOk
  <2>0. p # Worker /\ p \in Caller /\ proc[p].pc = "walletTx"
    BY <1>0, <1>1 DEF WalletTx, at, JobHeld
  <2>1. CASE ok
    <3>0. pay'.status = "paid"
      BY <1>1, <2>1 DEF WalletTx, Tx, settle, Payment
    <3>1. Exit(p)
      BY <1>1, <2>0, <2>1, <3>0, GoesToDropJob DEF WalletTx, Open
    <3> QED
      BY <1>1, <2>0, <2>1, <3>1 DEF WalletTx, PaysByWallet, Tx, CallStep
  <2>2. CASE ~ok
    <3>1. Exit(p)
      BY <1>1, <2>0, <2>2, ReturnExits DEF WalletTx
    <3>2. next' \in 1 .. MaxSettles + 1 /\ next <= next'
      BY <1>1, PaymentAssumption DEF WalletTx, PaymentAssumption
    <3> QED
      BY <1>1, <2>0, <2>2, <3>1, <3>2 DEF WalletTx, QuietExit, Tx, CallStep, boundVars
  <2> QED
    BY <2>1, <2>2
<1>2. CASE DropJob(p)
  BY <1>2, DropJobExits DEF CallStep
<1>3. CASE MoveJob(p)
  <2>0. p # Worker /\ proc[p].pc = "moveJob"
    BY <1>3 DEF MoveJob, at, JobHeld
  <2>1. CASE job.state = "delayed"
    <3>1. Advance(p, "moveJob", "createTicket")
      BY <1>3, <2>0, <2>1, GoesOn DEF MoveJob, Pcs, Critical, Settling
    <3> QED
      BY <1>3, <3>1 DEF MoveJob, Reads, CallStep
  <2>2. CASE job.state # "delayed"
    BY <1>3, <2>0, <2>2, ReturnQuiet DEF MoveJob, CallStep
  <2> QED
    BY <2>1, <2>2
<1>4. CASE CreateTicket(p)
  <2>0. p # Worker /\ proc[p].pc = "createTicket"
    BY <1>4 DEF CreateTicket, at, JobHeld
  <2> DEFINE c == [proc[p] EXCEPT !.pc = "chargeTx", !.todo.attempt = next]
  <2>a. proc[p] \in Call /\ next \in 0 .. MaxSettles
    BY <1>4, PaymentAssumption DEF CreateTicket, PaymentAssumption
  <2>1. c \in Call /\ c.pc = "chargeTx" /\ c.seen = seen(p) /\ c.todo.attempt = next
    BY <2>a DEF Call, seen
  <2>2. proc' = [proc EXCEPT ![p] = c]
    BY <1>4 DEF CreateTicket
  <2> HIDE DEF c
  <2>3. Advance(p, "createTicket", "chargeTx") /\ proc'[p].todo.attempt = next
    <3>1. proc' \in [Proc -> Call] /\ proc'[p] = c /\ \A q \in Proc \ {p} : proc'[q] = proc[q]
      BY <2>1, <2>2
    <3>2. UNCHANGED <<dbVars, lock, job, boundVars, histVars>>
      BY <1>4 DEF CreateTicket
    <3> QED
      BY <2>0, <2>1, <3>1, <3>2 DEF Advance, Moves
  <2> QED
    BY <1>4, <2>3 DEF CreateTicket, Creates, CallStep
<1>5. CASE ChargeTx(p)
  <2> DEFINE part == todo(p).amount
             ok == (part > 0 => withdrawOk(part)) /\ settleOk
  <2>0. proc[p].pc = "chargeTx" /\ p # Worker /\ Return(p, TRUE)
    BY <1>5 DEF ChargeTx, at, JobHeld
  <2>1. Exit(p)
    BY <2>0, ReturnExits
  <2>2. CASE ok
    <3>1. CASE part > 0
      BY <1>5, <2>0, <2>1, <2>2, <3>1 DEF ChargeTx, Charges, Tx, CallStep
    <3>2. CASE ~(part > 0)
      BY <1>5, <2>0, <2>1, <2>2, <3>2 DEF ChargeTx, Charges, Tx, CallStep
    <3> QED
      BY <3>1, <3>2
  <2>3. CASE ~ok
    BY <1>5, <2>0, <2>3, ReturnQuiet DEF ChargeTx, Tx, CallStep
  <2> QED
    BY <2>2, <2>3
<1>6. CASE TicketStatusOf(p)
  <2>0. proc[p].pc = "ticketStatus" /\ UNCHANGED <<dbVars, extVars, lock, job, boundVars, histVars>>
    BY <1>6 DEF TicketStatusOf, at
  <2>1. CASE mine(p) = "done"
    <3>1. Goto(p, "verifyTicket")
      BY <1>6, <2>1 DEF TicketStatusOf
    <3>2. Advance(p, "ticketStatus", "verifyTicket")
      BY <2>0, <3>1, GoesOn DEF Pcs, Critical, Verifying
    <3> QED
      BY <2>0, <2>1, <3>2 DEF Reads, CallStep
  <2>2. CASE mine(p) \in {"canceled", "expired", "reversed"}
    <3>1. Answer(p, mine(p))
      BY <1>6, <2>2 DEF TicketStatusOf
    <3>2. Advance(p, "ticketStatus", "outcome") /\ proc'[p].todo.status = mine(p)
      BY <2>0, <2>2, <3>1, AnswersOn
    <3> QED
      BY <2>0, <2>2, <3>2 DEF Reads, CallStep, Captured
  <2>3. CASE mine(p) \in {"verified", "settled"}
    <3>1. Answer(p, "verified-before")
      BY <1>6, <2>3 DEF TicketStatusOf
    <3>2. Advance(p, "ticketStatus", "outcome") /\ proc'[p].todo.status = "verified-before"
      BY <2>0, <3>1, AnswersOn
    <3> QED
      BY <2>0, <2>3, <3>2 DEF Reads, CallStep, Captured
  <2>4. CASE mine(p) \notin {"done", "canceled", "expired", "reversed", "verified", "settled"}
    <3>1. Answer(p, "failed")
      BY <1>6, <2>4 DEF TicketStatusOf
    <3>2. Advance(p, "ticketStatus", "outcome") /\ proc'[p].todo.status = "failed"
      BY <2>0, <3>1, AnswersOn
    <3> QED
      BY <2>0, <2>4, <3>2 DEF Reads, CallStep, Captured
  <2> QED
    BY <2>1, <2>2, <2>3, <2>4
<1>7. CASE VerifyTicket(p)
  <2>0. /\ proc[p].pc = "verifyTicket" /\ UNCHANGED <<dbVars, next, lock, job, boundVars, histVars>>
        /\ ticket' = [ticket EXCEPT ![seen(p).attempt] = IF @ = "done" THEN "verified" ELSE @]
    BY <1>7 DEF VerifyTicket, at
  <2> DEFINE s == IF mine(p) \in {"done", "verified"} THEN "verified"
                  ELSE IF mine(p) = "canceled" THEN "canceled" ELSE "failed"
  <2>1. Answer(p, s) /\ s \in {"verified", "canceled", "failed"}
    BY <1>7 DEF VerifyTicket
  <2>2. s \in Captured <=> mine(p) \in {"done", "verified"}
    BY DEF Captured
  <2> HIDE DEF s
  <2>3. Advance(p, "verifyTicket", "outcome") /\ proc'[p].todo.status = s
    BY <2>0, <2>1, AnswersOn
  <2> QED
    BY <2>0, <2>2, <2>3 DEF Captures, CallStep
<1>8. CASE Outcome(p)
  <2> DEFINE paid == todo(p).status \in Captured
             status == IF todo(p).status = "expired" THEN "expired" ELSE "failure"
             ok == IF paid THEN onPaidOk ELSE onFailedOk(seen(p), status)
  <2>0. proc[p].pc = "outcome" /\ UNCHANGED <<extVars, boundVars, histVars>>
    BY <1>8 DEF Outcome, at
  <2>1. Tx(ok, IF paid THEN onPaid ELSE onFailed(seen(p), status))
    BY <1>8 DEF Outcome, Captured
  <2>2. IF ok /\ p # Worker THEN Goto(p, "dropJob") /\ unlock(p) /\ UNCHANGED job ELSE Return(p, ok)
    BY <1>8 DEF Outcome, Captured
  <2>3. Exit(p)
    <3>0. ok => pay'.status \notin Open
      BY <2>1, UpdatedTyped DEF Tx, onPaid, onFailed, updateStatus, Open
    <3>1. CASE ok /\ p # Worker
      BY <1>0, <2>0, <2>2, <3>0, <3>1, GoesToDropJob
    <3>2. CASE ~(ok /\ p # Worker)
      <4>1. ok \in BOOLEAN
        BY DEF onPaidOk, onFailedOk, updateStatusOk, payments_status_method, fulfillOk, cancelDeliveryOk
      <4> QED
        BY <2>0, <2>2, <3>0, <3>2, <4>1, ReturnExits DEF DropsJob
    <3> QED
      BY <3>1, <3>2
  <2>4. CASE ok /\ paid
    BY <2>0, <2>1, <2>3, <2>4 DEF Tx, Pays, CallStep
  <2>5. CASE ok /\ ~paid
    BY <2>0, <2>1, <2>3, <2>5 DEF Tx, FailsPayment, CallStep
  <2>6. CASE ~ok
    BY <2>0, <2>1, <2>3, <2>6 DEF Tx, QuietExit, CallStep, boundVars, extVars
  <2> QED
    BY <2>4, <2>5, <2>6
<1>9. CASE CancelStatus(p)
  <2>0. /\ proc[p].pc = "cancelStatus" /\ p # Worker
        /\ UNCHANGED <<dbVars, extVars, boundVars, histVars>>
    BY <1>9 DEF CancelStatus, at, JobHeld
  <2>1. CASE mine(p) = "canceled"
    <3>1. Advance(p, "cancelStatus", "recallTx")
      BY <1>9, <2>0, <2>1, GoesOn DEF CancelStatus, Pcs, Critical, Verifying
    <3> QED
      BY <2>0, <2>1, <3>1 DEF Reads, CallStep
  <2>2. CASE mine(p) = "created"
    <3>1. Advance(p, "cancelStatus", "cancelTicket")
      BY <1>9, <2>0, <2>2, GoesOn DEF CancelStatus, Pcs, Critical, Verifying
    <3> QED
      BY <2>0, <2>2, <3>1 DEF Reads, CallStep
  <2>3. CASE mine(p) \notin {"canceled", "created"}
    BY <1>9, <2>0, <2>3, ReturnQuiet DEF CancelStatus, CallStep
  <2> QED
    BY <2>1, <2>2, <2>3
<1>10. CASE CancelTicket(p)
  <2>0. proc[p].pc = "cancelTicket" /\ p # Worker /\ UNCHANGED <<dbVars, next, boundVars, histVars>>
    BY <1>10 DEF CancelTicket, at, JobHeld
  <2>1. CASE mine(p) = "created"
    <3>1. Advance(p, "cancelTicket", "recallTx")
      BY <1>10, <2>0, <2>1, GoesOn DEF CancelTicket, Pcs, Critical, Verifying
    <3> QED
      BY <1>10, <2>0, <2>1, <3>1 DEF CancelTicket, CancelsTicket, CallStep
  <2>2. CASE mine(p) # "created"
    BY <1>10, <2>0, <2>2, ReturnQuiet DEF CancelTicket, CallStep, extVars
  <2> QED
    BY <2>1, <2>2
<1>11. CASE RecallTx(p)
  <2> DEFINE ok == /\ cancelDeliveryOk
                   /\ seen(p).method = "partial" => depositOk(seen(p), seen(p).walletAmount)
  <2>0. /\ proc[p].pc = "recallTx" /\ p # Worker /\ UNCHANGED <<extVars, boundVars, histVars>>
        /\ Return(p, ok) /\ ok \in BOOLEAN
    BY <1>11 DEF RecallTx, at, JobHeld, cancelDeliveryOk
  <2>1. Exit(p)
    BY <2>0, ReturnExits
  <2>2. CASE ok
    BY <1>11, <2>0, <2>1, <2>2 DEF RecallTx, Tx, Recalls, CallStep
  <2>3. CASE ~ok
    BY <1>11, <2>0, <2>3, ReturnQuiet DEF RecallTx, Tx, CallStep, histVars
  <2> QED
    BY <2>2, <2>3
<1>12. CASE RefundStatus(p)
  <2>0. /\ proc[p].pc = "refundStatus" /\ p # Worker
        /\ UNCHANGED <<dbVars, extVars, boundVars, histVars>>
    BY <1>12 DEF RefundStatus, at, JobHeld
  <2>1. CASE mine(p) = "reversed"
    <3>1. Advance(p, "refundStatus", "refundTx") /\ proc'[p].todo = todo(p)
      BY <1>12, <2>0, <2>1, GoesOn DEF RefundStatus, Pcs, Critical, Refunding
    <3> QED
      BY <2>0, <3>1 DEF Reads, CallStep
  <2>2. CASE mine(p) \in {"done", "verified"}
    <3>1. Advance(p, "refundStatus", "reverseTicket") /\ proc'[p].todo = todo(p)
      BY <1>12, <2>0, <2>2, GoesOn DEF RefundStatus, Pcs, Critical, Refunding
    <3> QED
      BY <2>0, <3>1 DEF Reads, CallStep
  <2>3. CASE mine(p) \notin {"reversed", "done", "verified"}
    BY <1>12, <2>0, <2>3, ReturnQuiet DEF RefundStatus, CallStep
  <2> QED
    BY <2>1, <2>2, <2>3
<1>13. CASE ReverseTicket(p)
  <2>0. proc[p].pc = "reverseTicket" /\ p # Worker /\ UNCHANGED <<dbVars, next, boundVars, histVars>>
    BY <1>13 DEF ReverseTicket, at, JobHeld
  <2>1. CASE mine(p) \in {"done", "verified"}
    <3>1. Advance(p, "reverseTicket", "refundTx") /\ proc'[p].todo = todo(p)
      BY <1>13, <2>0, <2>1, GoesOn DEF ReverseTicket, Pcs, Critical, Refunding
    <3> QED
      BY <1>13, <2>0, <2>1, <3>1 DEF ReverseTicket, Reverses, CallStep
  <2>2. CASE mine(p) \notin {"done", "verified"}
    BY <1>13, <2>0, <2>2, ReturnQuiet DEF ReverseTicket, CallStep, extVars
  <2> QED
    BY <2>1, <2>2
<1>14. CASE RefundTx(p)
  <2> DEFINE back == walletRefund(p)
             ok == updateStatusOk("refunded") /\ (back > 0 => depositOk(seen(p), back))
  <2>0. /\ proc[p].pc = "refundTx" /\ p # Worker /\ UNCHANGED <<extVars, boundVars, histVars>>
        /\ Return(p, ok)
    BY <1>14 DEF RefundTx, at, JobHeld
  <2>1. Exit(p)
    BY <2>0, ReturnExits
  <2>2. CASE ok
    BY <1>14, <2>0, <2>1, <2>2 DEF RefundTx, Tx, Refunds, CallStep
  <2>3. CASE ~ok
    BY <1>14, <2>0, <2>3, ReturnQuiet DEF RefundTx, Tx, CallStep
  <2> QED
    BY <2>2, <2>3
<1> QED
  BY <1>1, <1>2, <1>3, <1>4, <1>5, <1>6, <1>7, <1>8, <1>9, <1>10, <1>11, <1>12, <1>13, <1>14 DEF Step

LEMMA ExpireSteps ==
  ASSUME Types, ExpireTx
  PROVE  CallStep(Worker)
<1> DEFINE ok == onFailedOk(seen(Worker), "expired")
<1>0. /\ Worker \in Proc /\ proc[Worker].pc = "expireTx" /\ Return(Worker, ok)
      /\ UNCHANGED <<extVars, boundVars, histVars>>
  BY DEF ExpireTx, at, Proc
<1>1. ok \in BOOLEAN
  BY DEF onFailedOk, updateStatusOk, payments_status_method, cancelDeliveryOk
<1>a. ok => DropsJob(Worker)
  BY <1>0, UpdatedTyped DEF ExpireTx, Tx, onFailed, updateStatus, DropsJob, Open, Types, TypeOK
<1> HIDE DEF ok
<1>2. Exit(Worker)
  BY <1>0, <1>1, <1>a, ReturnExits
<1>3. CASE ok
  BY <1>0, <1>2, <1>3 DEF ok, ExpireTx, Tx, FailsPayment, CallStep
<1>4. CASE ~ok
  BY <1>0, <1>2, <1>4 DEF ok, ExpireTx, Tx, QuietExit, CallStep, boundVars, extVars, Types, TypeOK
<1> QED
  BY <1>3, <1>4

Gateway(a) == CustomerPays(a) \/ CustomerCancels(a) \/ GatewayMoves(a)

LEMMA NextKinds ==
  ASSUME Types, Next
  PROVE  \/ \E p \in Proc : Entry(p) \/ CallStep(p)
         \/ StartJob \/ LockExpires
         \/ \E a \in Attempt : Gateway(a)
<1>1. Worker \in Proc /\ Caller \subseteq Proc
  BY DEF Proc
<1>2. ASSUME NEW p \in Caller,
             \/ \E amount \in 0 .. Amount : Settle(p, amount)
             \/ Callback(p) \/ Cancel(p) \/ Refund(p, "full", 0)
             \/ \E amount \in RefundAmounts : Refund(p, "partial", amount)
      PROVE  Entry(p)
  BY <1>2, EntrySteps
<1>3. ASSUME NEW p \in Proc, Step(p) \/ Fail(p)
      PROVE  CallStep(p)
  BY <1>3, CallSteps, FailExits DEF CallStep
<1>4. JobStep => StartJob \/ Entry(Worker) \/ CallStep(Worker)
  BY <1>1, <1>3, WorkerEnters, SkipJobExits, ExpireSteps DEF JobStep, CallStep
<1> QED
  BY <1>1, <1>2, <1>3, <1>4 DEF Next, Gateway

----------------------------------------------------------------------------
(* Every step keeps the types.                                              *)

LEMMA DepositTyped ==
  ASSUME Types, NEW row \in Payment, NEW amount \in 0 .. Amount, deposit(row, amount)
  PROVE  /\ balance' \in Nat /\ withdrawn' = withdrawn
         /\ refunded' \in [Attempt -> 0 .. Amount]
<1>1. amount \in Nat /\ balance \in Nat /\ refunded \in [Attempt -> 0 .. Amount]
  BY PaymentAssumption DEF PaymentAssumption, Types, TypeOK
<1>2. balance' \in {balance, balance + amount} /\ withdrawn' = withdrawn
  BY DEF deposit
<1>3. refunded' \in [Attempt -> 0 .. Amount]
  BY <1>1 DEF deposit
<1> QED
  BY <1>1, <1>2, <1>3

LEMMA WithdrawTyped ==
  ASSUME Types, NEW a, NEW amount \in 0 .. Amount, withdrawOk(amount), withdraw(a, amount)
  PROVE  balance' \in Nat /\ withdrawn' \in [Attempt -> 0 .. Amount]
<1>1. /\ amount \in Nat /\ balance \in Nat /\ amount <= balance
      /\ withdrawn \in [Attempt -> 0 .. Amount]
  BY PaymentAssumption DEF PaymentAssumption, withdrawOk, Types, TypeOK
<1>2. balance' = balance - amount
  BY DEF withdraw
<1>3. withdrawn' \in [Attempt -> 0 .. Amount]
  BY <1>1 DEF withdraw
<1> QED
  BY <1>1, <1>2, <1>3

LEMMA CallTyped ==
  ASSUME Types, NEW p \in Proc
  PROVE  /\ proc[p] \in Call /\ seen(p) \in Payment /\ todo(p) \in Todo
         /\ todo(p).amount \in 0 .. Amount /\ todo(p).attempt \in 0 .. MaxSettles
         /\ seen(p).walletAmount \in 0 .. Amount /\ seen(p).attempt \in 0 .. MaxSettles
         /\ walletRefund(p) \in 0 .. Amount
<1>1. proc[p] \in Call
  BY DEF Types, TypeOK
<1>2. seen(p) \in Payment /\ todo(p) \in Todo
  BY <1>1, CallFields DEF seen, todo
<1>3. Amount \in 0 .. Amount
  BY PaymentAssumption DEF PaymentAssumption
<1> QED
  BY <1>1, <1>2, <1>3 DEF Payment, Todo, walletRefund

(* What the properties of the database tell apart, after a step. *)
Ledger ==
  /\ pay \in Payment /\ payments_status_method(pay)
  /\ balance \in Nat
  /\ withdrawn \in [Attempt -> 0 .. Amount] /\ refunded \in [Attempt -> 0 .. Amount]
  /\ fulfillment \in {"pending", "processing"}
  /\ delivery \in {"pending", "canceled"}

LEMMA LedgerTyped ==
  ASSUME Types, NEW p \in Proc,
         PaysByWallet(p) \/ Charges(p) \/ Pays(p) \/ FailsPayment(p) \/ Recalls(p) \/ Refunds(p)
  PROVE  Ledger'
<1> USE DEF Types, TypeOK
<1>0. /\ seen(p) \in Payment /\ seen(p).walletAmount \in 0 .. Amount
      /\ todo(p).amount \in 0 .. Amount /\ todo(p).attempt \in 0 .. MaxSettles
      /\ walletRefund(p) \in 0 .. Amount /\ Amount \in 0 .. Amount
      /\ next \in 0 .. MaxSettles + 1 /\ Amount > 0
  BY CallTyped, PaymentAssumption DEF PaymentAssumption
<1>1. CASE PaysByWallet(p)
  <2>1. balance' \in Nat /\ withdrawn' \in [Attempt -> 0 .. Amount]
    BY <1>0, <1>1, WithdrawTyped DEF PaysByWallet
  <2>2. next \in 0 .. MaxSettles
    BY <1>0, <1>1, PaymentAssumption DEF PaysByWallet, PaymentAssumption
  <2>3. pay' \in Payment /\ pay'.status = "paid" /\ pay'.method = "wallet"
    BY <1>1, <2>2, SettledTyped DEF PaysByWallet
  <2> QED
    BY <1>1, <2>1, <2>3 DEF PaysByWallet, Ledger, payments_status_method, fulfill
<1>2. CASE Charges(p)
  <2>1. balance' \in Nat /\ withdrawn' \in [Attempt -> 0 .. Amount] /\ refunded' = refunded
    BY <1>0, <1>2, WithdrawTyped DEF Charges, noWallet
  <2>2. pay' \in Payment /\ pay'.status = "processing" /\ pay'.method \in {"partial", "gateway"}
    BY <1>0, <1>2, SettledTyped DEF Charges
  <2> QED
    BY <1>2, <2>1, <2>2 DEF Charges, Ledger, payments_status_method
<1>3. CASE Pays(p)
  BY <1>3, UpdatedTyped DEF Pays, onPaidOk, onPaid, updateStatus, updateStatusOk, fulfill, noWallet, Ledger
<1>4. CASE FailsPayment(p)
  <2>1. PICK status \in {"failure", "expired"} : onFailedOk(seen(p), status) /\ onFailed(seen(p), status)
    BY <1>4 DEF FailsPayment
  <2>2. pay' \in Payment /\ payments_status_method(pay')
    BY <2>1, UpdatedTyped DEF onFailedOk, onFailed, updateStatus, updateStatusOk
  <2>3. /\ balance' \in Nat /\ withdrawn' = withdrawn
        /\ refunded' \in [Attempt -> 0 .. Amount]
    BY <1>0, <2>1, DepositTyped DEF onFailed, noWallet
  <2> QED
    BY <2>1, <2>2, <2>3 DEF onFailed, cancelDelivery, Ledger, payments_status_method
<1>5. CASE Recalls(p)
  <2>1. pay' \in Payment /\ payments_status_method(pay')
    BY <1>5, UpdatedTyped DEF Recalls, updateStatus, payments_status_method
  <2>2. /\ balance' \in Nat /\ withdrawn' = withdrawn
        /\ refunded' \in [Attempt -> 0 .. Amount]
    BY <1>0, <1>5, DepositTyped DEF Recalls, noWallet
  <2> QED
    BY <1>5, <2>1, <2>2 DEF Recalls, cancelDelivery, Ledger, payments_status_method
<1>6. CASE Refunds(p)
  <2>1. pay' \in Payment /\ payments_status_method(pay')
    BY <1>6, UpdatedTyped DEF Refunds, updateStatus, updateStatusOk
  <2>2. /\ balance' \in Nat /\ withdrawn' = withdrawn
        /\ refunded' \in [Attempt -> 0 .. Amount]
    BY <1>0, <1>6, DepositTyped DEF Refunds, noWallet
  <2> QED
    BY <1>6, <2>1, <2>2 DEF Refunds, Ledger, payments_status_method
<1> QED
  BY <1>1, <1>2, <1>3, <1>4, <1>5, <1>6

LEMMA AdvanceTyped ==
  ASSUME Types, NEW p, NEW from, NEW to \in Critical \ {"expireTx"}, from # "idle",
         Advance(p, from, to),
         ticket' \in [Attempt -> TicketStatus], next' \in 1 .. MaxSettles + 1
  PROVE  Types'
<1>1. p \in Proc /\ Worker \in Proc /\ Caller \subseteq Proc
  BY DEF Advance, Proc
<1>2. JobHeld'
  BY <1>1 DEF JobHeld, Types, Advance, Moves, Critical, Settling, Verifying, Refunding
<1> QED
  BY <1>2 DEF Types, TypeOK, Advance, Moves, dbVars, boundVars, histVars

LEMMA TypesStep ==
  ASSUME Types, [Next]_vars
  PROVE  Types'
<1>1. CASE UNCHANGED vars
  BY <1>1 DEF vars, dbVars, extVars, boundVars, histVars, Types, TypeOK, JobHeld
<1>2. ASSUME NEW p \in Proc, Entry(p)
      PROVE  Types'
  <2>1. JobHeld'
    BY <1>2, PaymentAssumption DEF PaymentAssumption, Entry, EntersAs, Moves, JobHeld, Types, Proc
  <2> QED
    BY <1>2, <2>1 DEF Entry, Moves, Types, TypeOK, dbVars, extVars
<1>3. ASSUME NEW p \in Proc, QuietExit(p)
      PROVE  Types'
  BY <1>3 DEF QuietExit, Exit, Moves, Types, TypeOK, dbVars, histVars
<1>4. ASSUME NEW p \in Proc, Reads(p)
      PROVE  Types'
  <2>1. ticket' \in [Attempt -> TicketStatus] /\ next' \in 1 .. MaxSettles + 1
    BY <1>4 DEF Reads, extVars, Types, TypeOK
  <2> QED
    BY <1>4, <2>1, AdvanceTyped DEF Reads, Critical, Settling, Verifying, Refunding
<1>5. ASSUME NEW p \in Proc, Creates(p)
      PROVE  Types'
  <2>1. ticket' \in [Attempt -> TicketStatus]
    BY <1>5 DEF Creates, Types, TypeOK, TicketStatus
  <2>2. next' \in 1 .. MaxSettles + 1
    BY <1>5, PaymentAssumption DEF PaymentAssumption, Creates, Types, TypeOK
  <2> QED
    BY <1>5, <2>1, <2>2, AdvanceTyped DEF Creates, Critical, Settling
<1>6. ASSUME NEW p \in Proc, Captures(p)
      PROVE  Types'
  <2>1. ticket' \in [Attempt -> TicketStatus] /\ next' \in 1 .. MaxSettles + 1
    BY <1>6 DEF Captures, Types, TypeOK, TicketStatus
  <2> QED
    BY <1>6, <2>1, AdvanceTyped DEF Captures, Critical, Verifying
<1>7. ASSUME NEW p \in Proc, CancelsTicket(p) \/ Reverses(p)
      PROVE  Types'
  <2>1. ticket' \in [Attempt -> TicketStatus] /\ next' \in 1 .. MaxSettles + 1
    BY <1>7 DEF CancelsTicket, Reverses, Types, TypeOK, TicketStatus
  <2> QED
    BY <1>7, <2>1, AdvanceTyped DEF CancelsTicket, Reverses, Critical, Verifying, Refunding
<1>8. ASSUME NEW p \in Proc,
             PaysByWallet(p) \/ Charges(p) \/ Pays(p) \/ FailsPayment(p) \/ Recalls(p) \/ Refunds(p)
      PROVE  Types'
  <2>1. Ledger'
    BY <1>8, LedgerTyped
  <2>2. /\ Exit(p) /\ ticket' = ticket /\ UNCHANGED boundVars
        /\ lapsed' = lapsed /\ asked' = asked
    BY <1>8 DEF PaysByWallet, Charges, Pays, FailsPayment, Recalls, Refunds, extVars, histVars, Types, TypeOK
  <2>3. next' \in 1 .. MaxSettles + 1
    BY <1>8, PaymentAssumption
       DEF PaymentAssumption, PaysByWallet, Charges, Pays, FailsPayment, Recalls, Refunds, extVars, Types, TypeOK
  <2> QED
    BY <2>1, <2>2, <2>3 DEF Ledger, Exit, Moves, Types, TypeOK, boundVars
<1>9. CASE StartJob
  <2>1. Worker \in Proc /\ Worker \notin Caller /\ Caller \subseteq Proc
    BY PaymentAssumption DEF Proc, PaymentAssumption
  <2>2. /\ proc' \in [Proc -> Call] /\ proc'[Worker].pc = "job"
        /\ \A q \in Proc \ {Worker} : proc'[q] = proc[q]
    <3> DEFINE c == [Idle EXCEPT !.pc = "job", !.seen = pay]
    <3>1. c \in Call /\ c.pc = "job"
      BY IdleIsCall DEF Call, Types, TypeOK
    <3>2. proc' = [proc EXCEPT ![Worker] = c]
      BY <1>9 DEF StartJob
    <3> QED
      BY <2>1, <3>1, <3>2 DEF Types, TypeOK
  <2>3. job' \in Job /\ job'.state = "active" /\ job'.attempts < JobAttempts
    BY <1>9 DEF StartJob, Job, JobHeld, Types, TypeOK
  <2>4. JobHeld'
    BY <2>1, <2>2, <2>3 DEF JobHeld, Types
  <2> QED
    BY <1>9, <2>2, <2>3, <2>4 DEF StartJob, Types, TypeOK, dbVars, extVars, boundVars, histVars
<1>10. CASE LockExpires
  <2>1. faults' \in 0 .. MaxFaults
    <3>1. faults \in 0 .. MaxFaults /\ MaxFaults \in Nat
      BY PaymentAssumption DEF PaymentAssumption, Types, TypeOK
    <3>2. faults' = faults \/ (faults < MaxFaults /\ faults' = faults + 1)
      BY <1>10, Zenon DEF LockExpires
    <3> QED
      BY <3>1, <3>2
  <2>3. lapsed' \in BOOLEAN /\ lock' \in Proc \cup {NoProc}
    <3>1. lapsed \in BOOLEAN
      BY DEF Types, TypeOK
    <3>2. lock' = NoProc /\ (lapsed' = lapsed \/ lapsed' = TRUE)
      BY <1>10, Zenon DEF LockExpires
    <3> QED
      BY <3>1, <3>2
  <2>2. UNCHANGED <<dbVars, extVars, job, proc, calls, asked>>
    BY <1>10 DEF LockExpires
  <2> QED
    BY <2>1, <2>2, <2>3 DEF Types, TypeOK, JobHeld, dbVars, extVars
<1>11. ASSUME NEW a \in Attempt, Gateway(a)
       PROVE  Types'
  <2>1. ticket' \in [Attempt -> TicketStatus]
    BY <1>11 DEF Gateway, CustomerPays, CustomerCancels, GatewayMoves, TicketMoves, Types, TypeOK, TicketStatus
  <2>2. UNCHANGED <<dbVars, next, job, lock, proc, boundVars, histVars>>
    BY <1>11 DEF Gateway, CustomerPays, CustomerCancels, GatewayMoves, TicketMoves
  <2> QED
    BY <2>1, <2>2 DEF Types, TypeOK, JobHeld, dbVars, boundVars, histVars
<1> QED
  BY <1>1, <1>2, <1>3, <1>4, <1>5, <1>6, <1>7, <1>8, <1>9, <1>10, <1>11, NextKinds DEF CallStep

LEMMA TypesInit ==
  Init => Types
<1> SUFFICES ASSUME Init PROVE Types
  OBVIOUS
<1>1. PICK recorded \in OwnerRecorded : pay = [NoRow EXCEPT !.customer = recorded]
  BY DEF Init
<1>2. recorded \in BOOLEAN /\ NoRow \in Payment
  BY PaymentAssumption, IdleIsCall, CallFields DEF PaymentAssumption
<1>3. pay \in Payment /\ payments_status_method(pay)
  BY <1>1, <1>2 DEF Payment, NoRow, payments_status_method
<1>4. /\ proc \in [Proc -> Call] /\ \A p \in Proc : proc[p].pc = "idle"
  BY IdleIsCall DEF Init
<1>5. Worker \in Proc /\ Caller \subseteq Proc
  BY DEF Proc
<1>6. job \in Job /\ JobHeld
  BY <1>4, <1>5 DEF Init, Job, JobHeld, JobAttempts
<1>7. balance \in Nat /\ next \in 1 .. MaxSettles + 1 /\ calls \in 0 .. MaxCalls /\ faults \in 0 .. MaxFaults
  BY PaymentAssumption DEF Init, PaymentAssumption
<1>8. withdrawn \in [Attempt -> 0 .. Amount] /\ refunded \in [Attempt -> 0 .. Amount]
  <2>1. 0 \in 0 .. Amount
    BY PaymentAssumption DEF PaymentAssumption
  <2> QED
    BY <2>1 DEF Init
<1>9. ticket \in [Attempt -> TicketStatus]
  BY DEF Init, TicketStatus
<1> QED
  BY <1>3, <1>4, <1>6, <1>7, <1>8, <1>9 DEF Init, Types, TypeOK

LEMMA TypesInvariant ==
  Spec => []Types
  BY TypesInit, TypesStep, PTL DEF Spec

(* Types of every reachable state, and the row's check constraint. *)
THEOREM TypeCorrect ==
  Spec => []TypeOK
<1>1. Types => TypeOK
  BY DEF Types
<1> QED
  BY <1>1, TypesInvariant, PTL

----------------------------------------------------------------------------
(* The inductive invariant.                                                 *)

(* A row says what its attempt took from the wallet. *)
RowBacked(row) ==
  /\ payments_status_method(row) /\ row.attempt < next
  /\ row.status = "processing" => row.method \in {"partial", "gateway"}
  /\ row.method = "none" <=> row.attempt = 0
  /\ row.method = "partial" => row.walletAmount > 0 /\ withdrawn[row.attempt] = row.walletAmount
  /\ row.method = "wallet" => withdrawn[row.attempt] = Amount
  /\ row.method = "gateway" => row.walletAmount = 0 /\ withdrawn[row.attempt] = 0

RowsBacked == RowBacked(pay) /\ \A p \in Proc : RowBacked(proc[p].seen)

(* What a call found when it took the lock, and what a refund was asked for. *)
SeenAtEntry ==
  \A p \in Proc :
    /\ proc[p].pc \in Settling => proc[p].seen.status = "pending"
    /\ proc[p].pc \in Verifying => proc[p].seen.status = "processing"
    /\ proc[p].pc \in Refunding =>
         /\ proc[p].seen.status = "paid" /\ proc[p].todo.status \in asked
         /\ IF proc[p].todo.status = "partial" THEN proc[p].pc = "refundTx" /\ proc[p].todo.amount > 0
                                               ELSE proc[p].todo.status = "full"

Fresh(a) == withdrawn[a] = 0 /\ refunded[a] = 0

(* Attempts to come, and one whose ticket is made but not charged, have     *)
(* moved no money, and no row names them.                                   *)
AttemptsFresh ==
  /\ \A a \in Attempt : a >= next => Fresh(a)
  /\ \A p \in Proc : proc[p].pc = "chargeTx" =>
       LET a == proc[p].todo.attempt IN
       /\ a \in Attempt /\ a < next /\ Fresh(a)
       /\ pay.attempt # a /\ \A q \in Proc : proc[q].seen.attempt # a
       /\ \A q \in Proc \ {p} : proc[q].pc = "chargeTx" => proc[q].todo.attempt # a

NoQueue == ~QueuesSettlement => \A a \in Attempt : ticket[a] # "settleQueued"

(* While no lock lapses, one call at a time works on the row it read. *)
Exclusive == \A p \in Proc : proc[p].pc \in Critical => lock = p /\ proc[p].seen = pay

(* What a call learned of its ticket is still so. *)
TicketKnown ==
  \A p \in Proc :
    LET a == proc[p].seen.attempt IN
    /\ proc[p].pc = "verifyTicket" => ticket[a] \in {"done", "reversed"}
    /\ proc[p].pc = "outcome" => IF proc[p].todo.status \in Captured THEN Charged(a)
                                 ELSE ~QueuesSettlement => ~Charged(a)
    /\ proc[p].pc = "recallTx" => ticket[a] = "canceled"

Whole(a) == Charged(a) \/ withdrawn[a] = Amount

PaidWhole ==
  /\ pay.status = "paid" /\ "full" \notin asked => Whole(pay.attempt)
  /\ pay.status = "processing" \/ (pay.status = "paid" /\ asked = {}) => refunded[pay.attempt] = 0
  /\ fulfillment = "processing" => pay.status \in {"paid", "refunded"}

RefundCovered ==
  "full" \notin asked => \A a \in Attempt : refunded[a] \in {0, withdrawn[a]} \/ Whole(a)

ChargedKept ==
  ~QueuesSettlement => \A a \in Attempt : Charged(a) =>
    pay.attempt = a /\ pay.status \in {"processing", "paid", "refunded"}

Square ==
  \A a \in Attempt : withdrawn[a] > 0 /\ refunded[a] = 0 =>
    pay.attempt = a /\ pay.status \in {"processing", "paid"}

(* The job of a payment that waits is there, and nobody is about to drop it. *)
JobKept ==
  /\ pay.status \in Open => job.state # "gone"
  /\ \A p \in Proc : proc[p].pc = "dropJob" => pay.status \notin Open
  /\ proc[Worker].pc = "job" /\ proc[Worker].seen.status \notin Open => pay.status \notin Open

Calls    == Exclusive /\ TicketKnown
Accounts == PaidWhole /\ RefundCovered /\ ChargedKept /\ Square
Locked   == Calls /\ Accounts /\ JobKept

Books == RowsBacked /\ SeenAtEntry /\ AttemptsFresh /\ NoQueue

Inv == Types /\ Books /\ WalletRefundExact /\ (~lapsed => Locked)

----------------------------------------------------------------------------
(* What holds whether or not a lock lapses.                                 *)

Deposits(p) == FailsPayment(p) \/ Recalls(p) \/ Refunds(p)
Commits(p)  == PaysByWallet(p) \/ Charges(p) \/ Pays(p) \/ Deposits(p)

Advances(p) == Reads(p) \/ Creates(p) \/ Captures(p) \/ CancelsTicket(p) \/ Reverses(p)

(* What a step leaves alone. *)
LEMMA Frame ==
  ASSUME Types, [Next]_vars
  PROVE  /\ next \in Nat /\ next' \in Nat /\ next <= next'
         /\ \A q \in Proc : proc'[q].seen \in {proc[q].seen, pay, NoRow}
         /\ asked \subseteq asked' /\ (lapsed => lapsed')
         /\ UNCHANGED dbVars \/ \E p \in Proc : Commits(p)
         /\ \A q \in Proc : proc'[q].pc = "chargeTx" => proc'[q] = proc[q] \/ Creates(q)
<1>0. next \in Nat /\ PaymentAssumption
  BY PaymentAssumption DEF PaymentAssumption, Types, TypeOK
<1>1. CASE UNCHANGED vars
  BY <1>0, <1>1 DEF vars, dbVars, extVars, boundVars, histVars
<1>2. ASSUME NEW p \in Proc, Entry(p)
      PROVE  /\ next' = next /\ \A q \in Proc : proc'[q].seen \in {proc[q].seen, pay, NoRow}
             /\ asked \subseteq asked' /\ lapsed' = lapsed /\ UNCHANGED dbVars
             /\ \A q \in Proc : proc'[q].pc = "chargeTx" => proc'[q] = proc[q]
  BY <1>2 DEF Entry, EntersAs, Moves, extVars
<1>3. ASSUME NEW p \in Proc, Exit(p)
      PROVE  /\ \A q \in Proc : proc'[q].seen \in {proc[q].seen, pay, NoRow}
             /\ \A q \in Proc : proc'[q].pc = "chargeTx" => proc'[q] = proc[q]
  BY <1>3, IdleIsCall DEF Exit, Moves, seen
<1>4. ASSUME NEW p \in Proc, QuietExit(p)
      PROVE  Exit(p) /\ next' \in Nat /\ next <= next' /\ asked' = asked /\ lapsed' = lapsed /\ UNCHANGED dbVars
  BY <1>0, <1>4 DEF QuietExit, histVars
<1>5. ASSUME NEW p \in Proc, Commits(p)
      PROVE  Exit(p) /\ next' \in Nat /\ next <= next' /\ asked' = asked /\ lapsed' = lapsed
  BY <1>0, <1>5 DEF Commits, Deposits, PaysByWallet, Charges, Pays, FailsPayment, Recalls, Refunds, extVars, histVars
<1>6. ASSUME NEW p \in Proc, NEW from, NEW to, Advance(p, from, to)
      PROVE  /\ \A q \in Proc : proc'[q].seen = proc[q].seen
             /\ asked' = asked /\ lapsed' = lapsed /\ UNCHANGED dbVars
             /\ \A q \in Proc : proc'[q].pc = "chargeTx" => proc'[q] = proc[q] \/ (q = p /\ to = "chargeTx")
  BY <1>6 DEF Advance, Moves, seen, histVars
<1>7. ASSUME NEW p \in Proc, Advances(p)
      PROVE  /\ next' \in Nat /\ next <= next' /\ \A q \in Proc : proc'[q].seen = proc[q].seen
             /\ asked' = asked /\ lapsed' = lapsed /\ UNCHANGED dbVars
             /\ \A q \in Proc : proc'[q].pc = "chargeTx" => proc'[q] = proc[q] \/ Creates(q)
  <2>1. CASE Creates(p)
    BY <1>0, <1>6, <2>1 DEF Creates
  <2>2. CASE ~Creates(p)
    BY <1>0, <1>6, <1>7, <2>2 DEF Advances, Reads, Captures, CancelsTicket, Reverses, extVars
  <2> QED
    BY <2>1, <2>2
<1>8. CASE StartJob
  <2>1. /\ proc'[Worker].pc = "job" /\ proc'[Worker].seen = pay
        /\ \A q \in Proc \ {Worker} : proc'[q] = proc[q]
    <3> DEFINE c == [Idle EXCEPT !.pc = "job", !.seen = pay]
    <3>1. c.pc = "job" /\ c.seen = pay
      BY IdleIsCall DEF Call
    <3>2. proc' = [proc EXCEPT ![Worker] = c]
      BY <1>8 DEF StartJob
    <3> QED
      BY <3>1, <3>2 DEF Types, TypeOK, Proc
  <2> QED
    BY <1>0, <1>8, <2>1 DEF StartJob, extVars, histVars
<1>9. CASE LockExpires
  <2>1. UNCHANGED <<dbVars, next, proc, asked>>
    BY <1>9 DEF LockExpires, extVars
  <2>2. lapsed => lapsed'
    BY <1>9, Zenon DEF LockExpires
  <2> QED
    BY <1>0, <2>1, <2>2
<1>10. ASSUME NEW a \in Attempt, Gateway(a)
       PROVE  UNCHANGED <<dbVars, next, proc, lapsed, asked>>
  BY <1>10 DEF Gateway, CustomerPays, CustomerCancels, GatewayMoves, TicketMoves, histVars
<1>11. \A p \in Proc : CallStep(p) => QuietExit(p) \/ Advances(p) \/ Commits(p)
  BY DEF CallStep, Advances, Commits, Deposits
<1>12. CASE Next
  BY <1>0, <1>2, <1>3, <1>4, <1>5, <1>7, <1>8, <1>9, <1>10, <1>11, <1>12, NextKinds
<1> QED
  BY <1>1, <1>12

(* A commit that takes money takes it for an attempt without a record yet. *)
Takes(p, a, amount, method) ==
  /\ a \in Attempt /\ Fresh(a) /\ a < next'
  /\ amount \in 0 .. Amount /\ withdrawn' = [withdrawn EXCEPT ![a] = amount] /\ refunded' = refunded
  /\ pay.status = "pending" /\ pay' \in Payment /\ pay'.attempt = a /\ pay'.method = method
  /\ \/ method = "wallet" /\ amount = Amount /\ pay'.status = "paid" /\ a = next
     \/ /\ proc[p].pc = "chargeTx" /\ a = proc[p].todo.attempt
        /\ pay'.status = "processing" /\ pay'.walletAmount = amount
        /\ (method = "partial" /\ amount > 0) \/ (method = "gateway" /\ amount = 0)

LEMMA TakesMoney ==
  ASSUME Types, AttemptsFresh, NEW p \in Proc, PaysByWallet(p) \/ Charges(p)
  PROVE  \E a, amount, method : Takes(p, a, amount, method)
<1>0. Amount \in 0 .. Amount /\ Amount \in Nat /\ next \in 1 .. MaxSettles + 1 /\ MaxSettles \in Nat
  BY PaymentAssumption DEF PaymentAssumption, Types, TypeOK
<1>1. CASE PaysByWallet(p)
  <2>1. next \in Attempt /\ next \in 0 .. MaxSettles /\ next < next' /\ Fresh(next)
    BY <1>0, <1>1 DEF PaysByWallet, Attempt, AttemptsFresh
  <2>2. /\ pay' \in Payment /\ pay'.status = "paid" /\ pay'.method = "wallet" /\ pay'.attempt = next
    BY <1>1, <2>1, SettledTyped DEF PaysByWallet, Types, TypeOK
  <2>3. Takes(p, next, Amount, "wallet")
    BY <1>0, <1>1, <2>1, <2>2 DEF PaysByWallet, Takes, withdraw, settleOk
  <2> QED
    BY <2>3
<1>2. CASE Charges(p)
  <2> DEFINE a == todo(p).attempt
             part == todo(p).amount
  <2>1. a \in Attempt /\ a \in 0 .. MaxSettles /\ a < next /\ Fresh(a) /\ next' = next
    BY <1>2, CallTyped DEF Charges, AttemptsFresh, todo, extVars
  <2>2. part \in 0 .. Amount /\ proc[p].pc = "chargeTx" /\ a = proc[p].todo.attempt /\ pay.status = "pending"
    BY <1>2, CallTyped DEF Charges, todo, settleOk
  <2>3. CASE part > 0
    <3>1. settle(p, "processing", "partial", a) /\ withdraw(a, part) /\ refunded' = refunded
      BY <1>2, <2>3 DEF Charges
    <3>2. /\ pay' \in Payment /\ pay'.status = "processing" /\ pay'.method = "partial"
          /\ pay'.attempt = a /\ pay'.walletAmount = part
      BY <2>1, <3>1, SettledTyped DEF Types, TypeOK
    <3>3. Takes(p, a, part, "partial")
      BY <2>1, <2>2, <2>3, <3>1, <3>2 DEF Takes, withdraw
    <3> QED
      BY <3>3
  <2>4. CASE ~(part > 0)
    <3>1. settle(p, "processing", "gateway", a) /\ withdrawn' = withdrawn /\ refunded' = refunded
      BY <1>2, <2>4 DEF Charges, noWallet
    <3>2. /\ pay' \in Payment /\ pay'.status = "processing" /\ pay'.method = "gateway"
          /\ pay'.attempt = a /\ pay'.walletAmount = part
      BY <2>1, <3>1, SettledTyped DEF Types, TypeOK
    <3>3. part = 0 /\ withdrawn[a] = 0 /\ withdrawn \in [Attempt -> 0 .. Amount]
      BY <1>0, <2>1, <2>2, <2>4 DEF Fresh, Types, TypeOK
    <3>4. withdrawn' = [withdrawn EXCEPT ![a] = 0]
      BY <2>1, <3>1, <3>3
    <3>5. Takes(p, a, 0, "gateway")
      BY <1>0, <2>1, <2>2, <3>1, <3>2, <3>3, <3>4 DEF Takes
    <3> QED
      BY <3>5
  <2> QED
    BY <2>3, <2>4
<1> QED
  BY <1>1, <1>2

(* A commit that gives money back gives it to the attempt of the row the    *)
(* call read, and exactly what that attempt took unless a partial refund    *)
(* was asked for.                                                           *)
Gives(p) ==
  LET a == proc[p].seen.attempt IN
  /\ withdrawn' = withdrawn
  /\ \/ refunded' = refunded /\ (withdrawn[a] = 0 \/ a = 0)
     \/ \E amount \in 1 .. Amount :
          /\ a \in Attempt /\ refunded' = [refunded EXCEPT ![a] = amount]
          /\ amount = withdrawn[a] \/ ("partial" \in asked /\ proc[p].pc = "refundTx")

LEMMA DepositGives ==
  ASSUME Types, NEW p \in Proc, NEW amount \in 1 .. Amount,
         depositOk(seen(p), amount), deposit(seen(p), amount),
         amount = withdrawn[seen(p).attempt] \/ ("partial" \in asked /\ proc[p].pc = "refundTx")
  PROVE  Gives(p)
<1>1. seen(p).attempt \in Attempt
  BY CallTyped, PaymentAssumption DEF depositOk, Attempt, PaymentAssumption
<1>2. withdrawn' = withdrawn /\ refunded' = [refunded EXCEPT ![seen(p).attempt] = amount]
  BY DEF deposit
<1> QED
  BY <1>1, <1>2 DEF Gives, seen

LEMMA GivesMoney ==
  ASSUME Types, RowsBacked, SeenAtEntry, NEW p \in Proc, Deposits(p)
  PROVE  Gives(p)
<1>0. /\ RowBacked(seen(p)) /\ seen(p) \in Payment /\ seen(p) = proc[p].seen /\ Amount \in Nat
      /\ seen(p).walletAmount \in 0 .. Amount /\ seen(p).attempt \in 0 .. MaxSettles
      /\ Amount \in 1 .. Amount
  BY CallTyped, PaymentAssumption DEF RowsBacked, seen, PaymentAssumption
<1>1. /\ seen(p).method = "partial" =>
             seen(p).walletAmount \in 1 .. Amount /\ seen(p).walletAmount = withdrawn[seen(p).attempt]
      /\ seen(p).method = "gateway" => withdrawn[seen(p).attempt] = 0 /\ seen(p).walletAmount = 0
      /\ seen(p).method = "wallet" => withdrawn[seen(p).attempt] = Amount
  BY <1>0 DEF RowBacked
<1>2. ASSUME seen(p).status \in {"pending", "processing"},
             IF seen(p).method = "partial"
             THEN depositOk(seen(p), seen(p).walletAmount) /\ deposit(seen(p), seen(p).walletAmount)
             ELSE noWallet
      PROVE  Gives(p)
  <2>1. CASE seen(p).method = "partial"
    BY <1>1, <1>2, <2>1, DepositGives
  <2>2. CASE seen(p).method # "partial"
    <3>1. withdrawn[seen(p).attempt] = 0 \/ seen(p).attempt = 0
      BY <1>0, <1>1, <1>2, <2>2 DEF RowBacked, payments_status_method, Payment
    <3> QED
      BY <1>0, <1>2, <2>2, <3>1 DEF Gives, noWallet
  <2> QED
    BY <2>1, <2>2
<1>3. CASE FailsPayment(p)
  BY <1>2, <1>3 DEF FailsPayment, onFailedOk, onFailed, SeenAtEntry, Settling, Verifying, seen
<1>4. CASE Recalls(p)
  BY <1>2, <1>4 DEF Recalls, SeenAtEntry, Verifying, seen
<1>5. CASE Refunds(p)
  <2> DEFINE back == walletRefund(p)
  <2>0. /\ proc[p].pc = "refundTx" /\ seen(p).status = "paid" /\ todo(p).status \in asked
        /\ IF todo(p).status = "partial" THEN todo(p).amount > 0 ELSE todo(p).status = "full"
        /\ back \in 0 .. Amount
    BY <1>5, CallTyped DEF Refunds, SeenAtEntry, Refunding, seen, todo
  <2>1. CASE todo(p).status = "partial"
    <3>1. back = todo(p).amount /\ back \in 1 .. Amount /\ "partial" \in asked
      BY <1>0, <2>0, <2>1 DEF walletRefund
    <3> QED
      BY <1>5, <2>0, <3>1, DepositGives DEF Refunds
  <2>2. CASE todo(p).status = "full"
    <3>1. back = withdrawn[seen(p).attempt]
      <4>1. seen(p).method \in {"wallet", "gateway", "partial"}
        BY <1>0, <2>0 DEF RowBacked, payments_status_method, Payment
      <4> QED
        BY <1>1, <2>2, <4>1 DEF walletRefund
    <3>2. CASE back > 0
      BY <1>0, <1>5, <2>0, <3>1, <3>2, DepositGives DEF Refunds
    <3>3. CASE ~(back > 0)
      BY <1>0, <1>5, <2>0, <3>1, <3>3 DEF Refunds, Gives, noWallet
    <3> QED
      BY <3>2, <3>3
  <2> QED
    BY <2>0, <2>1, <2>2
<1> QED
  BY <1>3, <1>4, <1>5 DEF Deposits

(* The row after a commit that takes no money. *)
LEMMA RowAfter ==
  ASSUME Types, NEW p \in Proc, Pays(p) \/ Deposits(p)
  PROVE  /\ pay' \in Payment /\ payments_status_method(pay')
         /\ pay'.status \in {"pending", "paid", "failure", "expired", "refunded"}
         /\ IF pay'.status = "pending" THEN pay'.method = "none" /\ pay'.attempt = 0
            ELSE /\ pay'.method = pay.method /\ pay'.attempt = pay.attempt
                 /\ pay'.walletAmount = pay.walletAmount
<1>1. PICK s \in {"pending", "paid", "failure", "expired", "refunded"} : updateStatus(s)
  BY DEF Pays, Deposits, FailsPayment, Recalls, Refunds, onPaid, onFailed
<1>2. Ledger'
  BY LedgerTyped DEF Deposits
<1> QED
  BY <1>1, <1>2, UpdatedTyped DEF updateStatus, Ledger, Types, TypeOK

LEMMA BackedStill ==
  ASSUME Types, NEW row \in Payment, RowBacked(row), next' \in Nat, next <= next',
         row.attempt \in Attempt => withdrawn'[row.attempt] = withdrawn[row.attempt]
  PROVE  RowBacked(row)'
<1>1. row.attempt \in 0 .. MaxSettles /\ (row.attempt # 0 => row.attempt \in Attempt) /\ next \in Nat
  BY PaymentAssumption DEF Payment, Attempt, PaymentAssumption, Types, TypeOK
<1> QED
  BY <1>1 DEF RowBacked, Payment

(* The attempt a commit takes money for is in no row yet. *)
LEMMA TakenIsNew ==
  ASSUME Types, Books, NEW p \in Proc, NEW a, NEW amount, NEW method, Takes(p, a, amount, method)
  PROVE  pay.attempt # a /\ \A q \in Proc : proc[q].seen.attempt # a
<1>1. CASE a = next
  <2>1. pay.attempt \in Int /\ next \in Int /\ \A q \in Proc : proc[q].seen.attempt \in Int
    BY CallTyped DEF seen, Types, TypeOK, Payment
  <2>2. pay.attempt < next /\ \A q \in Proc : proc[q].seen.attempt < next
    BY DEF Books, RowsBacked, RowBacked
  <2> QED
    BY <1>1, <2>1, <2>2
<1>2. CASE proc[p].pc = "chargeTx" /\ a = proc[p].todo.attempt
  BY <1>2 DEF Books, AttemptsFresh
<1> QED
  BY <1>1, <1>2 DEF Takes

LEMMA RowsBackedStep ==
  ASSUME Types, Books, [Next]_vars
  PROVE  RowsBacked'
<1> USE DEF Books
<1>0. /\ next \in Nat /\ next' \in Nat /\ next <= next' /\ pay \in Payment
      /\ \A q \in Proc : proc'[q].seen \in {proc[q].seen, pay, NoRow}
      /\ \A q \in Proc : proc[q].seen \in Payment
  BY Frame, CallTyped DEF Types, TypeOK, seen
<1>1. NoRow \in Payment /\ RowBacked(NoRow) /\ NoRow.attempt = 0
  <2>1. next > 0
    BY DEF Types, TypeOK
  <2> QED
    BY <1>0, <2>1, IdleIsCall, CallFields DEF RowBacked, NoRow, payments_status_method
<1>2. ASSUME \A row \in {pay, NoRow} \cup {proc[q].seen : q \in Proc} :
               row.attempt \in Attempt => withdrawn'[row.attempt] = withdrawn[row.attempt]
      PROVE  (\A q \in Proc : RowBacked(proc[q].seen)') /\ (pay' = pay => RowBacked(pay)')
  <2>1. ASSUME NEW row \in {pay, NoRow} \cup {proc[q].seen : q \in Proc}
        PROVE  RowBacked(row)'
    BY <1>0, <1>1, <1>2, BackedStill DEF RowsBacked
  <2> QED
    BY <1>0, <2>1 DEF RowBacked
<1>3. CASE UNCHANGED dbVars
  BY <1>2, <1>3 DEF dbVars, RowsBacked
<1>4. ASSUME NEW p \in Proc, PaysByWallet(p) \/ Charges(p)
      PROVE  RowsBacked'
  <2>1. PICK a, amount, method : Takes(p, a, amount, method)
    BY <1>4, TakesMoney
  <2>2. pay.attempt # a /\ \A q \in Proc : proc[q].seen.attempt # a
    BY <2>1, TakenIsNew
  <2>3. NoRow.attempt # a
    BY <1>1, <2>1 DEF Takes, Attempt
  <2>4. \A b \in Attempt : b # a => withdrawn'[b] = withdrawn[b]
    BY <2>1 DEF Takes, Types, TypeOK
  <2>5. \A q \in Proc : RowBacked(proc[q].seen)'
    BY <1>2, <2>2, <2>3, <2>4
  <2>6. RowBacked(pay)'
    <3>1. withdrawn'[a] = amount /\ a # 0
      BY <2>1 DEF Takes, Types, TypeOK, Attempt
    <3> QED
      BY <2>1, <3>1 DEF Takes, RowBacked, payments_status_method
  <2> QED
    BY <2>5, <2>6 DEF RowsBacked
<1>5. ASSUME NEW p \in Proc, Pays(p) \/ Deposits(p)
      PROVE  RowsBacked'
  <2>1. withdrawn' = withdrawn
    BY <1>5, GivesMoney DEF Gives, Pays, onPaid, noWallet
  <2>2. \A q \in Proc : RowBacked(proc[q].seen)'
    BY <1>2, <2>1
  <2>3. RowBacked(pay)'
    <3>1. next' > 0 /\ next' = next
      BY <1>0, <1>5 DEF Pays, Deposits, FailsPayment, Recalls, Refunds, extVars, Types, TypeOK
    <3>2. RowBacked(pay)
      BY DEF RowsBacked
    <3>3. CASE pay'.status = "pending"
      BY <1>5, <3>1, <3>3, RowAfter DEF RowBacked
    <3>4. CASE pay'.status # "pending"
      BY <1>5, <2>1, <3>1, <3>2, <3>4, RowAfter DEF RowBacked
    <3> QED
      BY <3>3, <3>4
  <2> QED
    BY <2>2, <2>3 DEF RowsBacked
<1> QED
  BY <1>3, <1>4, <1>5, Frame DEF Commits

LEMMA SeenAtEntryStep ==
  ASSUME Types, Books, [Next]_vars
  PROVE  SeenAtEntry'
<1> USE DEF Books
<1>0. asked \subseteq asked' /\ IdleIsCall
  BY Frame, IdleIsCall
<1>1. ASSUME NEW p \in Proc, Moves(p), SeenAtEntry,
             /\ proc'[p].pc \in Settling => proc'[p].seen.status = "pending"
             /\ proc'[p].pc \in Verifying => proc'[p].seen.status = "processing"
             /\ proc'[p].pc \in Refunding =>
                 /\ proc'[p].seen.status = "paid" /\ proc'[p].todo.status \in asked'
                 /\ IF proc'[p].todo.status = "partial"
                    THEN proc'[p].pc = "refundTx" /\ proc'[p].todo.amount > 0
                    ELSE proc'[p].todo.status = "full"
      PROVE  SeenAtEntry'
  BY <1>0, <1>1 DEF SeenAtEntry, Moves
<1>2. CASE UNCHANGED vars
  BY <1>2 DEF vars, histVars, SeenAtEntry
<1>3. ASSUME NEW p \in Proc, Entry(p)
      PROVE  SeenAtEntry'
  BY <1>1, <1>3 DEF Entry, EntersAs, Settling, Verifying, Refunding
<1>4. ASSUME NEW p \in Proc, Exit(p)
      PROVE  SeenAtEntry'
  BY <1>1, <1>4, IdleIsCall DEF Exit, Settling, Verifying, Refunding
<1>5. ASSUME NEW p \in Proc, Advances(p)
      PROVE  SeenAtEntry'
  <2>1. ASSUME NEW from, NEW to, Advance(p, from, to),
               \/ from \in Settling /\ to \in Settling
               \/ from \in Verifying /\ to \in Verifying
               \/ from \in Refunding /\ from # "refundTx" /\ to \in Refunding /\ proc'[p].todo = todo(p)
        PROVE  SeenAtEntry'
    BY <1>0, <1>1, <2>1 DEF Advance, SeenAtEntry, seen, todo, Settling, Verifying, Refunding
  <2> QED
    BY <1>5, <2>1 DEF Advances, Reads, Creates, Captures, CancelsTicket, Reverses, Settling, Verifying, Refunding
<1>6. CASE StartJob
  <2>1. /\ Moves(Worker) /\ proc'[Worker].pc = "job" /\ Worker \in Proc
    <3> DEFINE c == [Idle EXCEPT !.pc = "job", !.seen = pay]
    <3>1. c \in Call /\ c.pc = "job"
      BY IdleIsCall DEF Call, Types, TypeOK
    <3>2. proc' = [proc EXCEPT ![Worker] = c]
      BY <1>6 DEF StartJob
    <3> QED
      BY <3>1, <3>2 DEF Types, TypeOK, Proc, Moves
  <2> QED
    BY <1>1, <2>1 DEF Settling, Verifying, Refunding
<1>7. ASSUME LockExpires \/ \E a \in Attempt : Gateway(a)
      PROVE  SeenAtEntry'
  <2>1. proc' = proc /\ asked' = asked
    BY <1>7 DEF LockExpires, Gateway, CustomerPays, CustomerCancels, GatewayMoves, TicketMoves, histVars
  <2> QED
    BY <2>1 DEF SeenAtEntry
<1>8. \A p \in Proc : CallStep(p) => Exit(p) \/ Advances(p)
  BY DEF CallStep, Advances, QuietExit, PaysByWallet, Charges, Pays, FailsPayment, Recalls, Refunds
<1> QED
  BY <1>2, <1>3, <1>4, <1>5, <1>6, <1>7, <1>8, NextKinds

FreshAfter(a) == withdrawn'[a] = 0 /\ refunded'[a] = 0

LEMMA AttemptsFreshStep ==
  ASSUME Types, Books, [Next]_vars
  PROVE  AttemptsFresh'
<1> USE DEF Books
<1>0. /\ next \in Nat /\ next' \in Nat /\ next <= next' /\ Attempt \subseteq Nat /\ 0 \notin Attempt
      /\ \A q \in Proc : proc'[q].seen \in {proc[q].seen, pay, NoRow}
      /\ \A q \in Proc : proc'[q].pc = "chargeTx" => proc'[q] = proc[q] \/ Creates(q)
      /\ NoRow.attempt = 0
  BY Frame DEF Attempt, NoRow
<1>1. /\ pay.attempt \in Nat /\ pay.attempt < next
      /\ \A q \in Proc : proc[q].seen.attempt \in Nat /\ proc[q].seen.attempt < next
  BY CallTyped DEF RowsBacked, RowBacked, seen, Types, TypeOK, Payment
(* What happens to an attempt's money, and which row names it. *)
<1> DEFINE Kept(a) == withdrawn'[a] = withdrawn[a] /\ refunded'[a] = refunded[a]
                      /\ (pay'.attempt = pay.attempt \/ pay'.attempt # a)
<1>2. ASSUME NEW a \in Attempt, pay.attempt # a, \A q \in Proc : proc[q].seen.attempt # a,
             \/ a >= next'
             \/ a < next /\ \E p \in Proc : proc[p].pc = "chargeTx" /\ proc[p].todo.attempt = a
                                           /\ proc'[p] = proc[p]
      PROVE  Kept(a)
  <2>1. CASE UNCHANGED dbVars
    BY <2>1 DEF dbVars
  <2>2. ASSUME NEW p \in Proc, PaysByWallet(p) \/ Charges(p)
        PROVE  Kept(a)
    <3>1. PICK b, amount, method : Takes(p, b, amount, method)
      BY <2>2, TakesMoney
    <3>2. a # b
      <4>1. CASE PaysByWallet(p)
        BY <1>0, <1>2, <3>1, <4>1 DEF Takes, PaysByWallet, Types, TypeOK
      <4>2. CASE Charges(p)
        <5>1. proc[p].pc = "chargeTx" /\ proc'[p].pc # "chargeTx"
          BY <4>2, IdleIsCall DEF Charges, Exit
        <5>2. b \in Nat /\ b < next'
          BY <1>0, <3>1 DEF Takes
        <5>3. CASE a >= next'
          BY <1>0, <5>2, <5>3
        <5>4. CASE a < next /\ b = next
          BY <1>0, <5>4
        <5>5. ASSUME b = proc[p].todo.attempt,
                     NEW q \in Proc, proc[q].pc = "chargeTx", proc[q].todo.attempt = a, proc'[q] = proc[q]
              PROVE  a # b
          <6>1. q # p
            BY <5>1, <5>5
          <6> QED
            BY <5>1, <5>5, <6>1 DEF AttemptsFresh
        <5> QED
          BY <1>2, <3>1, <5>3, <5>4, <5>5 DEF Takes
      <4> QED
        BY <2>2, <4>1, <4>2
    <3> QED
      BY <3>1, <3>2 DEF Takes, Types, TypeOK
  <2>3. ASSUME NEW p \in Proc, Pays(p) \/ Deposits(p)
        PROVE  Kept(a)
    <3>1. pay'.attempt \in {pay.attempt, 0}
      BY <2>3, RowAfter
    <3>2. withdrawn' = withdrawn /\ refunded'[a] = refunded[a]
      BY <1>2, <2>3, GivesMoney DEF Gives, Pays, onPaid, noWallet, Types, TypeOK
    <3> QED
      BY <1>0, <3>1, <3>2
  <2> QED
    BY <2>1, <2>2, <2>3, Frame DEF Commits
<1>3. ASSUME NEW a \in Attempt, a >= next'
      PROVE  FreshAfter(a)
  <2>1. /\ Fresh(a) /\ pay.attempt # a /\ \A q \in Proc : proc[q].seen.attempt # a
    BY <1>0, <1>1, <1>3 DEF AttemptsFresh
  <2> QED
    BY <1>2, <1>3, <2>1 DEF Fresh, FreshAfter
<1>4. ASSUME NEW p \in Proc, proc'[p].pc = "chargeTx", proc'[p] = proc[p]
      PROVE  LET a == proc'[p].todo.attempt IN
             /\ a \in Attempt /\ a < next' /\ a < next /\ FreshAfter(a)
             /\ pay'.attempt # a /\ \A q \in Proc : proc'[q].seen.attempt # a
  <2> DEFINE a == proc[p].todo.attempt
  <2>1. /\ a \in Attempt /\ a < next /\ Fresh(a)
        /\ pay.attempt # a /\ \A q \in Proc : proc[q].seen.attempt # a
    BY <1>4 DEF AttemptsFresh
  <2> HIDE DEF a
  <2>2. Kept(a)
    BY <1>2, <1>4, <2>1 DEF a
  <2>3. a < next' /\ a # 0
    BY <1>0, <2>1
  <2> QED
    BY <1>0, <1>4, <2>1, <2>2, <2>3 DEF a, Fresh, FreshAfter
<1>5. ASSUME NEW p \in Proc, Creates(p)
      PROVE  LET a == proc'[p].todo.attempt IN
             /\ a = next /\ a \in Attempt /\ a < next' /\ FreshAfter(a)
             /\ pay'.attempt # a /\ \A q \in Proc : proc'[q].seen.attempt # a
  <2>1. next \in Attempt /\ next < next' /\ proc'[p].todo.attempt = next /\ UNCHANGED dbVars
    BY <1>0, <1>5, PaymentAssumption DEF Creates, Advance, Attempt, PaymentAssumption, Types, TypeOK
  <2>2. FreshAfter(next)
    BY <1>0, <2>1 DEF AttemptsFresh, Fresh, FreshAfter, dbVars
  <2>3. pay'.attempt # next /\ \A q \in Proc : proc'[q].seen.attempt # next
    BY <1>0, <1>1, <2>1 DEF dbVars
  <2> QED
    BY <2>1, <2>2, <2>3
<1>6. ASSUME NEW p \in Proc, proc'[p].pc = "chargeTx", NEW q \in Proc \ {p}, proc'[q].pc = "chargeTx"
      PROVE  proc'[q].todo.attempt # proc'[p].todo.attempt
  <2>1. CASE proc'[p] = proc[p] /\ proc'[q] = proc[q]
    BY <1>6, <2>1 DEF AttemptsFresh
  <2>2. CASE proc'[p] = proc[p] /\ Creates(q)
    BY <1>0, <1>4, <1>5, <1>6, <2>2
  <2>3. CASE Creates(p) /\ proc'[q] = proc[q]
    BY <1>0, <1>4, <1>5, <1>6, <2>3
  <2>4. CASE Creates(p) /\ Creates(q)
    BY <1>6, <2>4 DEF Creates, Advance, Moves
  <2> QED
    BY <1>0, <1>6, <2>1, <2>2, <2>3, <2>4
<1>7. ASSUME NEW p \in Proc, proc'[p].pc = "chargeTx"
      PROVE  LET a == proc'[p].todo.attempt IN
             /\ a \in Attempt /\ a < next' /\ FreshAfter(a)
             /\ pay'.attempt # a /\ \A q \in Proc : proc'[q].seen.attempt # a
  BY <1>0, <1>4, <1>5, <1>7
<1> QED
  BY <1>3, <1>6, <1>7 DEF AttemptsFresh, Fresh, FreshAfter

LEMMA NoQueueStep ==
  ASSUME Types, Books, [Next]_vars
  PROVE  NoQueue'
<1> SUFFICES ASSUME ~QueuesSettlement PROVE \A a \in Attempt : ticket'[a] # "settleQueued"
  BY DEF NoQueue
<1>0. \A a \in Attempt : ticket[a] # "settleQueued"
  BY DEF Books, NoQueue
<1>1. CASE UNCHANGED ticket
  BY <1>0, <1>1
<1>2. ASSUME NEW p \in Proc, Creates(p) \/ Captures(p) \/ CancelsTicket(p) \/ Reverses(p)
      PROVE  \A a \in Attempt : ticket'[a] # "settleQueued"
  BY <1>0, <1>2 DEF Creates, Captures, CancelsTicket, Reverses, Types, TypeOK
<1>3. ASSUME NEW b \in Attempt, Gateway(b)
      PROVE  \A a \in Attempt : ticket'[a] # "settleQueued"
  BY <1>0, <1>3 DEF Gateway, CustomerPays, CustomerCancels, GatewayMoves, TicketMoves, Types, TypeOK
<1>4. \A p \in Proc : Entry(p) \/ CallStep(p) =>
        ticket' = ticket \/ Creates(p) \/ Captures(p) \/ CancelsTicket(p) \/ Reverses(p)
  BY DEF Entry, CallStep, QuietExit, Reads, PaysByWallet, Charges, Pays, FailsPayment, Recalls, Refunds, extVars
<1>5. StartJob \/ LockExpires \/ UNCHANGED vars => ticket' = ticket
  BY DEF StartJob, LockExpires, extVars, vars
<1> QED
  BY <1>1, <1>2, <1>3, <1>4, <1>5, NextKinds

LEMMA BooksStep ==
  ASSUME Types, Books, [Next]_vars
  PROVE  Books'
  BY RowsBackedStep, SeenAtEntryStep, AttemptsFreshStep, NoQueueStep DEF Books

(* A refund gives back what the attempt took. *)
LEMMA ExactStep ==
  ASSUME Types, Books, WalletRefundExact, [Next]_vars
  PROVE  WalletRefundExact'
<1> SUFFICES ASSUME "partial" \notin asked', NEW b \in Attempt
             PROVE  refunded'[b] \in {0, withdrawn'[b]}
  BY DEF WalletRefundExact
<1>0. "partial" \notin asked /\ refunded[b] \in {0, withdrawn[b]}
  BY Frame DEF WalletRefundExact
<1>1. CASE UNCHANGED dbVars
  BY <1>0, <1>1 DEF dbVars
<1>2. ASSUME NEW p \in Proc, PaysByWallet(p) \/ Charges(p)
      PROVE  refunded'[b] \in {0, withdrawn'[b]}
  <2>1. PICK a, amount, method : Takes(p, a, amount, method)
    BY <1>2, TakesMoney DEF Books
  <2> QED
    BY <1>0, <2>1 DEF Takes, Fresh, Types, TypeOK
<1>3. ASSUME NEW p \in Proc, Pays(p) \/ Deposits(p)
      PROVE  refunded'[b] \in {0, withdrawn'[b]}
  BY <1>0, <1>3, GivesMoney DEF Books, Gives, Pays, onPaid, noWallet, Types, TypeOK
<1> QED
  BY <1>1, <1>2, <1>3, Frame DEF Commits

----------------------------------------------------------------------------
(* What holds while no lock lapses: one call at a time.                     *)

LEMMA Alone ==
  ASSUME Types, Exclusive, NEW p \in Proc, proc[p].pc \in Critical
  PROVE  lock = p /\ proc[p].seen = pay /\ \A q \in Proc \ {p} : proc[q].pc \notin Critical
  BY DEF Exclusive

(* A call outside the lock knows nothing of a ticket. *)
LEMMA KnownUnderLock ==
  {"verifyTicket", "outcome", "recallTx"} \subseteq Critical /\ "idle" \notin Critical
  /\ "job" \notin Critical /\ "dropJob" \notin Critical
  BY DEF Critical, Settling, Verifying, Refunding

LEMMA CallsEntry ==
  ASSUME Types, Calls, NEW p \in Proc, Entry(p)
  PROVE  Calls'
<1>1. \A q \in Proc : proc[q].pc \notin Critical
  BY PaymentAssumption DEF Entry, Calls, Exclusive, PaymentAssumption, Proc
<1>2. /\ Moves(p) /\ lock' = p /\ proc'[p].seen = pay /\ pay' = pay
      /\ proc'[p].pc \notin {"verifyTicket", "outcome", "recallTx"}
  BY DEF Entry, EntersAs, dbVars
<1>3. \A q \in Proc \ {p} : proc'[q].pc \notin Critical
  BY <1>1, <1>2 DEF Moves
<1>4. Exclusive'
  BY <1>2, <1>3 DEF Exclusive
<1>5. TicketKnown'
  BY <1>2, <1>3, KnownUnderLock DEF TicketKnown
<1> QED
  BY <1>4, <1>5 DEF Calls

LEMMA CallsExit ==
  ASSUME Types, Calls, NEW p \in Proc, Exit(p), ticket' = ticket,
         proc[p].pc \in Critical \/ pay' = pay
  PROVE  Calls'
<1>1. /\ Moves(p) /\ proc'[p].pc \notin Critical
      /\ lock' \in {lock, NoProc} /\ (lock # p => lock' = lock)
  BY IdleIsCall, KnownUnderLock DEF Exit
<1>2. CASE proc[p].pc \in Critical
  <2>1. \A q \in Proc : proc'[q].pc \notin Critical
    BY <1>1, <1>2, Alone DEF Moves, Calls
  <2> QED
    BY <2>1, KnownUnderLock DEF Calls, Exclusive, TicketKnown
<1>3. CASE proc[p].pc \notin Critical
  <2>1. pay' = pay /\ \A q \in Proc : proc'[q].pc \in Critical => proc'[q] = proc[q] /\ q # p
    BY <1>1, <1>3 DEF Moves
  <2>2. Exclusive'
    BY <1>1, <2>1 DEF Calls, Exclusive
  <2>3. TicketKnown'
    BY <2>1, KnownUnderLock DEF Calls, TicketKnown, Charged
  <2> QED
    BY <2>2, <2>3 DEF Calls
<1> QED
  BY <1>2, <1>3

LEMMA CallsAdvance ==
  ASSUME Types, Calls, NEW p \in Proc, NEW from \in Critical, NEW to \in Critical, Advance(p, from, to),
         LET a == proc[p].seen.attempt IN
           /\ to = "verifyTicket" => ticket'[a] \in {"done", "reversed"}
           /\ to = "outcome" => IF proc'[p].todo.status \in Captured THEN Charged(a)'
                                ELSE ~QueuesSettlement => ~Charged(a)'
           /\ to = "recallTx" => ticket'[a] = "canceled"
  PROVE  Calls'
<1>1. /\ lock = p /\ proc[p].seen = pay /\ \A q \in Proc \ {p} : proc[q].pc \notin Critical
  BY Alone DEF Advance, Calls
<1>2. /\ lock' = p /\ pay' = pay /\ proc'[p].seen = pay /\ proc'[p].pc = to
      /\ \A q \in Proc \ {p} : proc'[q].pc \notin Critical
  BY <1>1 DEF Advance, Moves, dbVars, seen
<1>3. Exclusive'
  BY <1>2 DEF Exclusive
<1>4. TicketKnown'
  BY <1>1, <1>2, KnownUnderLock DEF TicketKnown, Charged
<1> QED
  BY <1>3, <1>4 DEF Calls

(* A verified payment has a ticket. *)
LEMMA AttemptOfRow ==
  ASSUME Types, Books
  PROVE  /\ pay.status \in {"processing", "paid", "failure", "refunded"} => pay.attempt \in Attempt
         /\ \A p \in Proc : proc[p].pc \in Verifying \cup Refunding => proc[p].seen.attempt \in Attempt
<1>1. ASSUME NEW row \in Payment, RowBacked(row), row.status \in {"processing", "paid", "failure", "refunded"}
      PROVE  row.attempt \in Attempt
  BY <1>1, PaymentAssumption DEF RowBacked, payments_status_method, Payment, Attempt, PaymentAssumption
<1> QED
  BY <1>1, CallTyped DEF Books, RowsBacked, SeenAtEntry, seen, Types, TypeOK

LEMMA CallsStep ==
  ASSUME Types, Books, Calls, [Next]_vars, ~lapsed'
  PROVE  Calls'
<1> USE KnownUnderLock
<1>1. CASE UNCHANGED vars
  BY <1>1 DEF vars, dbVars, extVars, Calls, Exclusive, TicketKnown, Charged
<1>2. ASSUME NEW p \in Proc, QuietExit(p)
      PROVE  Calls'
  BY <1>2, CallsExit DEF QuietExit, dbVars
<1>3. ASSUME NEW p \in Proc, Commits(p)
      PROVE  Calls'
  BY <1>3, CallsExit DEF Commits, Deposits, PaysByWallet, Charges, Pays, FailsPayment, Recalls, Refunds,
                         extVars, Critical, Settling, Verifying, Refunding
<1>4. ASSUME NEW p \in Proc, Advances(p)
      PROVE  Calls'
  <2> DEFINE a == proc[p].seen.attempt
  <2>0. {"createTicket", "verifyTicket", "outcome", "recallTx", "cancelTicket", "refundTx", "reverseTicket",
         "moveJob", "ticketStatus", "cancelStatus", "refundStatus", "chargeTx"} \subseteq Critical
    BY DEF Critical, Settling, Verifying, Refunding
  <2>1. CASE Reads(p)
    <3>1. ticket' = ticket
      BY <2>1 DEF Reads, extVars
    <3>2. CASE Advance(p, "ticketStatus", "outcome")
      <4>1. a \in Attempt
        BY <3>2, AttemptOfRow DEF Advance, Verifying
      <4>2. /\ IF proc'[p].todo.status \in Captured THEN ticket[a] \in {"verified", "settled"}
               ELSE ticket[a] \notin {"verified", "settled"}
        BY <2>1, <3>2 DEF Reads, Advance, mine, seen
      <4>3. IF proc'[p].todo.status \in Captured THEN Charged(a)' ELSE ~QueuesSettlement => ~Charged(a)'
        BY <3>1, <3>2, <4>1, <4>2 DEF Charged, Books, NoQueue, Advance, seen
      <4> QED
        BY <2>0, <3>2, <4>3, CallsAdvance
    <3>3. CASE ~Advance(p, "ticketStatus", "outcome")
      BY <2>0, <2>1, <3>1, <3>3, CallsAdvance DEF Reads, mine, seen
    <3> QED
      BY <3>2, <3>3
  <2>2. CASE Creates(p)
    BY <2>0, <2>2, CallsAdvance DEF Creates
  <2>3. CASE Captures(p)
    <3>1. a \in Attempt /\ ticket[a] \in {"done", "reversed"}
      BY <2>3, AttemptOfRow DEF Captures, Advance, Verifying, Calls, TicketKnown
    <3>2. ticket'[a] = IF ticket[a] = "done" THEN "verified" ELSE ticket[a]
      BY <2>3, <3>1 DEF Captures, Types, TypeOK, seen
    <3>3. IF proc'[p].todo.status \in Captured THEN ticket[a] = "done" ELSE ticket[a] = "reversed"
      BY <2>3, <3>1 DEF Captures, mine, seen
    <3>4. IF proc'[p].todo.status \in Captured THEN ticket'[a] = "verified" ELSE ticket'[a] = "reversed"
      BY <3>2, <3>3
    <3>5. proc'[p].seen.attempt = a
      BY <2>3 DEF Captures, Advance, seen
    <3> QED
      BY <2>0, <2>3, <3>4, <3>5, CallsAdvance DEF Captures, Charged
  <2>4. CASE CancelsTicket(p)
    <3>1. a \in Attempt
      BY <2>4, AttemptOfRow DEF CancelsTicket, Advance, Verifying
    <3>2. ticket'[a] = "canceled"
      BY <2>4, <3>1 DEF CancelsTicket, Types, TypeOK, seen
    <3> QED
      BY <2>0, <2>4, <3>2, CallsAdvance DEF CancelsTicket
  <2>5. CASE Reverses(p)
    BY <2>0, <2>5, CallsAdvance DEF Reverses
  <2> QED
    BY <1>4, <2>1, <2>2, <2>3, <2>4, <2>5 DEF Advances
<1>5. CASE StartJob
  <2>1. /\ proc'[Worker].pc = "job" /\ Moves(Worker) /\ UNCHANGED <<pay, ticket, lock>>
    <3> DEFINE c == [Idle EXCEPT !.pc = "job", !.seen = pay]
    <3>1. c \in Call /\ c.pc = "job"
      BY IdleIsCall DEF Call, Types, TypeOK
    <3>2. proc' = [proc EXCEPT ![Worker] = c]
      BY <1>5 DEF StartJob
    <3> QED
      BY <1>5, <3>1, <3>2 DEF StartJob, Types, TypeOK, Proc, Moves, dbVars, extVars
  <2>2. \A q \in Proc : proc'[q].pc \in Critical => proc'[q] = proc[q]
    BY <2>1 DEF Moves
  <2> QED
    BY <2>1, <2>2 DEF Calls, Exclusive, TicketKnown, Charged
<1>6. CASE LockExpires
  <2>1. lock # NoProc /\ lock \in Proc /\ proc[lock].pc = "idle"
    BY <1>6 DEF LockExpires, Types, TypeOK
  <2>2. \A q \in Proc : proc[q].pc \notin Critical
    BY <2>1 DEF Calls, Exclusive
  <2>3. proc' = proc
    BY <1>6 DEF LockExpires
  <2> QED
    BY <2>2, <2>3 DEF Calls, Exclusive, TicketKnown
<1>7. ASSUME NEW a \in Attempt, Gateway(a)
      PROVE  Calls'
  <2>1. UNCHANGED <<pay, proc, lock>>
    BY <1>7 DEF Gateway, CustomerPays, CustomerCancels, GatewayMoves, TicketMoves, histVars, dbVars
  <2>2. \A b \in Attempt :
          /\ ticket[b] \in {"done", "reversed"} => ticket'[b] \in {"done", "reversed"}
          /\ ticket[b] = "canceled" => ticket'[b] = "canceled"
          /\ Charged(b)' <=> Charged(b)
    BY <1>7 DEF Gateway, CustomerPays, CustomerCancels, GatewayMoves, TicketMoves, Charged, Types, TypeOK
  <2>3. \A p \in Proc : proc[p].pc \in {"verifyTicket", "outcome", "recallTx"} => proc[p].seen.attempt \in Attempt
    BY AttemptOfRow DEF Verifying
  <2>4. TicketKnown'
    BY <2>1, <2>2, <2>3 DEF Calls, TicketKnown, Charged
  <2> QED
    BY <2>1, <2>4 DEF Calls, Exclusive
<1>8. \A p \in Proc : CallStep(p) => QuietExit(p) \/ Advances(p) \/ Commits(p)
  BY DEF CallStep, Advances, Commits, Deposits
<1> QED
  BY <1>1, <1>2, <1>3, <1>4, <1>5, <1>6, <1>7, <1>8, CallsEntry, NextKinds

----------------------------------------------------------------------------
(* The accounts while no lock lapses.                                       *)

(* A step that leaves the database alone: a ticket may be charged for the   *)
(* payment that is processing, and given back for a full refund.            *)
LEMMA AccountsStill ==
  ASSUME Types, Books, Accounts, UNCHANGED dbVars, asked \subseteq asked',
         \A a \in Attempt : Charged(a)' => Charged(a) \/ (a = pay.attempt /\ pay.status = "processing"),
         \A a \in Attempt : Charged(a) =>
            Charged(a)' \/ "full" \in asked' \/ (refunded[a] = 0 /\ a # pay.attempt)
  PROVE  Accounts'
<1>1. pay.status = "paid" => pay.attempt \in Attempt
  BY AttemptOfRow
<1>2. PaidWhole'
  <2>1. pay'.status = "paid" /\ "full" \notin asked' => Whole(pay.attempt)'
    BY <1>1 DEF Accounts, PaidWhole, Whole, Charged, dbVars
  <2> QED
    BY <2>1 DEF Accounts, PaidWhole, Whole, Charged, dbVars
<1>3. RefundCovered'
  BY DEF Accounts, RefundCovered, Whole, Charged, dbVars
<1>4. Square'
  BY DEF Accounts, Square, dbVars
<1>5. ChargedKept'
  BY DEF Accounts, ChargedKept, Charged, dbVars
<1> QED
  BY <1>2, <1>3, <1>4, <1>5 DEF Accounts

LEMMA AccountsTaken ==
  ASSUME Types, Books, Accounts, NEW p \in Proc, PaysByWallet(p) \/ Charges(p)
  PROVE  Accounts'
<1>0. PICK a, amount, method : Takes(p, a, amount, method)
  BY TakesMoney DEF Books
<1>1. /\ pay.status = "pending" /\ a \in Attempt /\ Fresh(a) /\ pay'.attempt = a
      /\ refunded' = refunded /\ refunded'[a] = 0
      /\ withdrawn'[a] = amount /\ \A b \in Attempt : b # a => withdrawn'[b] = withdrawn[b]
      /\ pay'.status = "processing" \/ (pay'.status = "paid" /\ amount = Amount)
      /\ Amount \in Nat \ {0}
  BY <1>0, PaymentAssumption DEF Takes, Fresh, Types, TypeOK, PaymentAssumption
<1>2. /\ UNCHANGED <<ticket, asked>>
      /\ fulfillment' = fulfillment \/ pay'.status = "paid"
  <2>1. CASE PaysByWallet(p)
    BY <2>1, SettledTyped, PaymentAssumption
       DEF PaysByWallet, histVars, settle, Types, TypeOK, Payment, PaymentAssumption
  <2>2. CASE Charges(p)
    BY <2>2 DEF Charges, extVars, histVars
  <2> QED
    BY <2>1, <2>2
<1>3. PaidWhole'
  BY <1>1, <1>2 DEF Accounts, PaidWhole, Whole, Charged
<1>4. RefundCovered'
  <2> SUFFICES ASSUME "full" \notin asked', NEW b \in Attempt
               PROVE  refunded'[b] \in {0, withdrawn'[b]} \/ Whole(b)'
    BY DEF RefundCovered
  <2>1. CASE b = a
    BY <1>1, <2>1
  <2>2. CASE b # a
    BY <1>1, <1>2, <2>2 DEF Accounts, RefundCovered, Whole, Charged
  <2> QED
    BY <2>1, <2>2
<1>6. ChargedKept'
  BY <1>1, <1>2 DEF Accounts, ChargedKept, Charged
<1>7. Square'
  BY <1>1 DEF Accounts, Square
<1> QED
  BY <1>3, <1>4, <1>6, <1>7 DEF Accounts

LEMMA AccountsPaid ==
  ASSUME Types, Books, Exclusive, TicketKnown, Accounts, NEW p \in Proc, Pays(p)
  PROVE  Accounts'
<1>1. /\ proc[p].pc = "outcome" /\ proc[p].seen = pay /\ pay.status = "processing"
      /\ Charged(pay.attempt) /\ proc[p].pc \in Critical
  BY DEF Pays, Exclusive, TicketKnown, Books, SeenAtEntry, Verifying, Critical, todo
<1>2. /\ pay'.status = "paid" /\ pay'.attempt = pay.attempt
      /\ UNCHANGED <<withdrawn, refunded, ticket, asked>>
  BY UpdatedTyped DEF Pays, onPaid, updateStatus, noWallet, extVars, histVars, Types, TypeOK
<1>3. PaidWhole' /\ RefundCovered'
  BY <1>1, <1>2 DEF Accounts, PaidWhole, RefundCovered, Whole, Charged
<1>4. ChargedKept' /\ Square'
  BY <1>1, <1>2 DEF Accounts, ChargedKept, Charged, Square
<1> QED
  BY <1>3, <1>4 DEF Accounts

(* A payment that fails, is recalled or refunded has nothing left to square. *)
LEMMA AccountsGiven ==
  ASSUME Types, Books, Exclusive, TicketKnown, Accounts, NEW p \in Proc, Deposits(p)
  PROVE  Accounts'
<1> DEFINE a == pay.attempt
<1>0. /\ proc[p].pc \in {"outcome", "expireTx", "recallTx", "refundTx"} /\ proc[p].seen = pay
      /\ seen(p) = pay
  BY DEF Deposits, FailsPayment, Recalls, Refunds, Exclusive, Critical, Settling, Verifying, Refunding, seen
<1>1. Gives(p)
  BY GivesMoney DEF Books
<1>2. UNCHANGED <<fulfillment, ticket, asked, withdrawn>>
  BY <1>1 DEF Deposits, FailsPayment, Recalls, Refunds, onFailed, extVars, histVars, Gives
<1>3. \/ /\ pay.status = "pending" /\ pay'.status \in {"failure", "expired"}
         /\ proc[p].pc = "expireTx"
      \/ /\ pay.status = "processing" /\ pay'.status \in {"failure", "expired"}
         /\ ~QueuesSettlement => ~Charged(a)
         /\ proc[p].pc = "outcome"
      \/ /\ pay.status = "processing" /\ pay'.status = "pending"
         /\ ~Charged(a) /\ proc[p].pc = "recallTx"
      \/ /\ pay.status = "paid" /\ pay'.status = "refunded" /\ pay'.attempt = a
         /\ proc[p].pc = "refundTx"
  <2>1. CASE FailsPayment(p)
    <3>1. pay'.status \in {"failure", "expired"}
      BY <2>1, UpdatedTyped DEF FailsPayment, onFailed, updateStatus, Types, TypeOK
    <3> QED
      BY <1>0, <2>1, <3>1 DEF FailsPayment, Books, SeenAtEntry, Settling, Verifying, TicketKnown, todo
  <2>2. CASE Recalls(p)
    BY <1>0, <2>2, UpdatedTyped DEF Recalls, updateStatus, Books, SeenAtEntry, Verifying, TicketKnown, Charged,
                                   Types, TypeOK
  <2>3. CASE Refunds(p)
    BY <1>0, <2>3, UpdatedTyped DEF Refunds, updateStatus, Books, SeenAtEntry, Refunding, histVars, Types, TypeOK
  <2> QED
    BY <2>1, <2>2, <2>3 DEF Deposits
<1>4. PaidWhole'
  BY <1>2, <1>3 DEF Accounts, PaidWhole
<1>5. RefundCovered'
  <2> SUFFICES ASSUME "full" \notin asked, NEW b \in Attempt
               PROVE  refunded'[b] \in {0, withdrawn[b]} \/ Whole(b)
    BY <1>2 DEF RefundCovered, Whole, Charged
  <2>1. refunded[b] \in {0, withdrawn[b]} \/ Whole(b)
    BY DEF Accounts, RefundCovered
  <2>2. CASE refunded'[b] = refunded[b]
    BY <2>1, <2>2
  <2>3. CASE refunded'[b] # refunded[b]
    <3>1. /\ b = a /\ (refunded'[b] = withdrawn[b] \/ proc[p].pc = "refundTx")
      BY <1>0, <1>1, <2>3 DEF Gives, Types, TypeOK
    <3>2. proc[p].pc = "refundTx" => Whole(a)
      BY <1>3 DEF Accounts, PaidWhole
    <3> QED
      BY <3>1, <3>2
  <2> QED
    BY <2>2, <2>3
<1>6. ChargedKept'
  BY <1>2, <1>3 DEF Accounts, ChargedKept, Charged
<1>7. Square'
  <2> SUFFICES ASSUME NEW b \in Attempt, withdrawn[b] > 0, refunded'[b] = 0
               PROVE  FALSE
    BY <1>2 DEF Square
  <2>0. refunded \in [Attempt -> 0 .. Amount] /\ a = proc[p].seen.attempt /\ 0 \notin Attempt
    BY <1>0, PaymentAssumption DEF Types, TypeOK, Attempt, PaymentAssumption
  <2>1. refunded[b] = 0 /\ (b = a => refunded'[b] # 0 \/ withdrawn[b] = 0)
    <3>1. CASE refunded' = refunded /\ (withdrawn[a] = 0 \/ a = 0)
      BY <2>0, <3>1
    <3>2. ASSUME NEW amount \in 1 .. Amount, a \in Attempt, refunded' = [refunded EXCEPT ![a] = amount]
          PROVE  refunded[b] = 0 /\ b # a
      <4>1. refunded'[a] = amount /\ amount # 0
        BY <2>0, <3>2
      <4> QED
        BY <2>0, <3>2, <4>1
    <3> QED
      BY <1>1, <2>0, <3>1, <3>2 DEF Gives
  <2>2. b = a
    BY <2>1 DEF Accounts, Square
  <2> QED
    BY <2>1, <2>2
<1> QED
  BY <1>4, <1>5, <1>6, <1>7 DEF Accounts

LEMMA AccountsStep ==
  ASSUME Types, Books, Exclusive, TicketKnown, Accounts, [Next]_vars, ~lapsed'
  PROVE  Accounts'
<1>0. asked \subseteq asked'
  BY Frame
<1>1. ASSUME UNCHANGED <<dbVars, ticket>>
      PROVE  Accounts'
  BY <1>0, <1>1, AccountsStill DEF Charged
<1>2. ASSUME NEW p \in Proc, Creates(p)
      PROVE  Accounts'
  <2>1. next \in Attempt /\ Fresh(next) /\ pay.attempt # next /\ UNCHANGED dbVars
    BY <1>2, PaymentAssumption
       DEF PaymentAssumption, Creates, Advance, Attempt, Books, AttemptsFresh, RowsBacked, RowBacked,
           histVars, Types, TypeOK, Payment
  <2>2. ticket'[next] = "created" /\ \A b \in Attempt : b # next => ticket'[b] = ticket[b]
    BY <1>2, <2>1 DEF Creates, Types, TypeOK
  <2> QED
    BY <1>0, <2>1, <2>2, AccountsStill DEF Charged, Fresh
<1>3. ASSUME NEW p \in Proc, Captures(p) \/ CancelsTicket(p) \/ Reverses(p)
      PROVE  Accounts'
  <2>0. /\ proc[p].pc \in {"verifyTicket", "cancelTicket", "reverseTicket"} /\ UNCHANGED <<dbVars, asked>>
        /\ proc[p].seen = pay /\ proc[p].seen.attempt \in Attempt /\ seen(p) = pay
        /\ mine(p) = ticket[proc[p].seen.attempt]
    BY <1>3, AttemptOfRow
       DEF Captures, CancelsTicket, Reverses, Advance, Exclusive, Critical, Verifying, Refunding, histVars, seen, mine
  <2>1. PICK a \in Attempt :
          /\ a = proc[p].seen.attempt
          /\ proc[p].pc \in {"verifyTicket", "cancelTicket", "reverseTicket"} /\ UNCHANGED <<dbVars, asked>>
          /\ proc[p].seen = pay /\ seen(p) = pay /\ mine(p) = ticket[a]
    BY <2>0
  <2>2. \A b \in Attempt : b # a => ticket'[b] = ticket[b]
    BY <1>3, <2>1 DEF Captures, CancelsTicket, Reverses, Types, TypeOK
  <2>3. \/ pay.status = "processing" /\ (Charged(a) => Charged(a)')
        \/ "full" \in asked /\ ~Charged(a)'
    <3>1. CASE Captures(p)
      BY <2>1, <3>1 DEF Captures, Advance, Books, SeenAtEntry, Verifying, Charged, Types, TypeOK
    <3>2. CASE CancelsTicket(p)
      BY <2>1, <3>2 DEF CancelsTicket, Advance, Books, SeenAtEntry, Verifying, Charged
    <3>3. CASE Reverses(p)
      BY <2>1, <3>3 DEF Reverses, Advance, Books, SeenAtEntry, Refunding, Charged, Types, TypeOK
    <3> QED
      BY <1>3, <3>1, <3>2, <3>3
  <2>4. \A b \in Attempt : b # a => (Charged(b)' <=> Charged(b))
    BY <2>2 DEF Charged
  <2>5. a = pay.attempt
    BY <2>1
  <2>6. \A b \in Attempt : Charged(b)' => Charged(b) \/ (b = pay.attempt /\ pay.status = "processing")
    BY <2>3, <2>4, <2>5
  <2>7. \A b \in Attempt : Charged(b) => Charged(b)' \/ "full" \in asked'
    BY <1>0, <2>3, <2>4
  <2> QED
    BY <1>0, <2>1, <2>6, <2>7, AccountsStill
<1>4. ASSUME NEW b \in Attempt, Gateway(b)
      PROVE  Accounts'
  <2>1. UNCHANGED <<dbVars, asked>>
    BY <1>4 DEF Gateway, CustomerPays, CustomerCancels, GatewayMoves, TicketMoves, histVars
  <2>2. \A a \in Attempt : Charged(a)' <=> Charged(a)
    BY <1>4 DEF Gateway, CustomerPays, CustomerCancels, GatewayMoves, TicketMoves, Charged, Types, TypeOK
  <2> QED
    BY <1>0, <2>1, <2>2, AccountsStill
<1>5. ASSUME NEW p \in Proc, Entry(p) \/ QuietExit(p) \/ Reads(p)
      PROVE  UNCHANGED <<dbVars, ticket>>
  BY <1>5 DEF Entry, QuietExit, Reads, Advance, histVars, extVars
<1>6. StartJob \/ LockExpires \/ UNCHANGED vars => UNCHANGED <<dbVars, ticket>>
  BY DEF StartJob, LockExpires, extVars, histVars, vars
<1> QED
  BY <1>1, <1>2, <1>3, <1>4, <1>5, <1>6, NextKinds, AccountsTaken, AccountsPaid, AccountsGiven
     DEF CallStep, Deposits

----------------------------------------------------------------------------
(* The expiry job while no lock lapses.                                     *)

(* A commit needs the row it was begun on; a payment that is closed or paid *)
(* does not wait again.                                                     *)
LEMMA CommitsFrom ==
  ASSUME Types, Books, Exclusive, NEW p \in Proc, Commits(p)
  PROVE  Exit(p) /\ (pay.status \in Open \/ pay'.status = "refunded")
                 /\ pay.status \in {"pending", "processing", "paid"}
<1>1. CASE PaysByWallet(p) \/ Charges(p)
  BY <1>1 DEF PaysByWallet, Charges, settleOk, Open
<1>2. CASE Refunds(p)
  <2>1. Exit(p) /\ pay'.status = "refunded"
    BY <1>2, UpdatedTyped DEF Refunds, updateStatus, Types, TypeOK
  <2>2. proc[p].seen = pay /\ pay.status = "paid"
    BY <1>2 DEF Refunds, Exclusive, Books, SeenAtEntry, Critical, Refunding
  <2> QED
    BY <2>1, <2>2
<1>3. CASE Pays(p) \/ FailsPayment(p) \/ Recalls(p)
  <2>1. Exit(p) /\ proc[p].pc \in {"outcome", "expireTx", "recallTx"}
    BY <1>3 DEF Pays, FailsPayment, Recalls
  <2>2. proc[p].seen = pay /\ pay.status \in Open
    BY <2>1 DEF Exclusive, Books, SeenAtEntry, Critical, Settling, Verifying, Open
  <2> QED
    BY <2>1, <2>2 DEF Open
<1> QED
  BY <1>1, <1>2, <1>3 DEF Commits, Deposits

LEMMA JobKeptStep ==
  ASSUME Types, Books, Exclusive, JobKept, [Next]_vars, ~lapsed'
  PROVE  JobKept'
<1>0. Worker \in Proc /\ Idle.pc = "idle" /\ job \in Job
  BY IdleIsCall DEF Proc, Types, TypeOK
<1>1. ASSUME NEW p \in Proc, Entry(p) \/ Advances(p)
      PROVE  JobKept'
  <2>1. /\ pay' = pay /\ job' = job /\ Moves(p) /\ proc'[p].pc \notin {"dropJob", "job"}
    BY <1>1 DEF Entry, EntersAs, Advances, Reads, Creates, Captures, CancelsTicket, Reverses, Advance, dbVars
  <2> QED
    BY <1>0, <2>1 DEF JobKept, Moves
<1>2. ASSUME NEW p \in Proc, Exit(p), pay.status \notin Open => pay'.status \notin Open
      PROVE  JobKept'
  <2>1. CASE pay'.status \notin Open
    BY <2>1 DEF JobKept
  <2>2. CASE pay'.status \in Open
    <3>1. pay.status \in Open
      BY <1>2, <2>2
    <3>2. ~DropsJob(p)
      BY <1>2, <2>2, <3>1 DEF DropsJob, JobKept, seen
    <3>3. proc'[p] = Idle /\ ~(job'.state = "gone" /\ job.state # "gone")
      BY <1>2, <3>2, Zenon DEF Exit
    <3>4. job.state # "gone" /\ \A q \in Proc : proc[q].pc # "dropJob"
      BY <3>1 DEF JobKept
    <3>5. \A q \in Proc : q = p \/ proc'[q] = proc[q]
      BY <1>2, Zenon DEF Exit, Moves
    <3>6. \A q \in Proc : proc'[q].pc # "dropJob"
      BY <1>0, <3>3, <3>4, <3>5
    <3>7. proc'[Worker].pc = "job" => proc'[Worker] = proc[Worker]
      BY <1>0, <3>3, <3>5
    <3> QED
      BY <3>1, <3>3, <3>4, <3>6, <3>7 DEF JobKept
  <2> QED
    BY <2>1, <2>2
<1>3. ASSUME NEW p \in Proc, QuietExit(p)
      PROVE  JobKept'
  BY <1>2, <1>3 DEF QuietExit, dbVars
<1>4. ASSUME NEW p \in Proc, Commits(p)
      PROVE  JobKept'
  <2>1. Exit(p) /\ (pay.status \in Open \/ pay'.status = "refunded")
    BY <1>4, CommitsFrom
  <2> QED
    BY <1>2, <2>1 DEF Open
<1>5. CASE StartJob
  <2>1. /\ proc'[Worker].pc = "job" /\ proc'[Worker].seen = pay
        /\ \A q \in Proc \ {Worker} : proc'[q] = proc[q]
    <3> DEFINE c == [Idle EXCEPT !.pc = "job", !.seen = pay]
    <3>1. c.pc = "job" /\ c.seen = pay
      BY IdleIsCall DEF Call
    <3>2. proc' = [proc EXCEPT ![Worker] = c]
      BY <1>5 DEF StartJob
    <3> QED
      BY <1>0, <3>1, <3>2 DEF Types, TypeOK
  <2>2. pay' = pay /\ job'.state = "active"
    BY <1>0, <1>5 DEF StartJob, dbVars, Job
  <2> QED
    BY <2>1, <2>2 DEF JobKept
<1>6. ASSUME LockExpires \/ (\E a \in Attempt : Gateway(a)) \/ UNCHANGED vars
      PROVE  JobKept'
  <2>1. UNCHANGED <<pay, job, proc>>
    BY <1>6 DEF LockExpires, Gateway, CustomerPays, CustomerCancels, GatewayMoves, TicketMoves, vars, dbVars
  <2> QED
    BY <2>1 DEF JobKept
<1>7. \A p \in Proc : CallStep(p) => QuietExit(p) \/ Advances(p) \/ Commits(p)
  BY DEF CallStep, Advances, Commits, Deposits
<1> QED
  BY <1>1, <1>3, <1>4, <1>5, <1>6, <1>7, NextKinds

LEMMA InvInit ==
  Init => Inv
<1> SUFFICES ASSUME Init PROVE Inv
  OBVIOUS
<1>1. Types
  BY TypesInit
<1>2. /\ pay.status = "pending" /\ pay.method = "none" /\ pay.attempt = 0
      /\ next = 1 /\ fulfillment = "pending" /\ delivery = "pending" /\ asked = {}
      /\ \A a \in Attempt : withdrawn[a] = 0 /\ refunded[a] = 0 /\ ticket[a] = "none"
  BY DEF Init, NoRow
<1>3. \A p \in Proc : proc[p].pc = "idle" /\ proc[p].seen = NoRow
  BY IdleIsCall DEF Init
<1>4. RowBacked(pay) /\ RowBacked(NoRow)
  BY <1>2 DEF RowBacked, payments_status_method, NoRow
<1>5. Books
  BY <1>2, <1>3, <1>4, KnownUnderLock
     DEF Books, RowsBacked, SeenAtEntry, AttemptsFresh, Fresh, NoQueue, Critical
<1>6. WalletRefundExact
  BY <1>2 DEF WalletRefundExact
<1>7. Locked
  <2>1. Exclusive /\ TicketKnown
    BY <1>3, KnownUnderLock DEF Exclusive, TicketKnown
  <2>2. Accounts
    BY <1>2 DEF Accounts, PaidWhole, RefundCovered, ChargedKept, Charged, Square
  <2>3. JobKept
    <3>1. job.state = "delayed" /\ Worker \in Proc
      BY DEF Init, Proc
    <3> QED
      BY <1>3, <3>1 DEF JobKept
  <2> QED
    BY <2>1, <2>2, <2>3 DEF Locked, Calls
<1> QED
  BY <1>1, <1>5, <1>6, <1>7 DEF Inv

LEMMA InvStep ==
  Inv /\ [Next]_vars => Inv'
<1> SUFFICES ASSUME Inv, [Next]_vars PROVE Inv'
  OBVIOUS
<1>1. Types' /\ Books' /\ WalletRefundExact'
  BY TypesStep, BooksStep, ExactStep DEF Inv
<1>2. ASSUME ~lapsed' PROVE Locked'
  <2>1. Locked
    BY <1>2, Frame DEF Inv
  <2> QED
    BY <1>2, <2>1, CallsStep, AccountsStep, JobKeptStep DEF Inv, Locked, Calls
<1> QED
  BY <1>1, <1>2 DEF Inv

LEMMA Invariance ==
  Spec => []Inv
  BY InvInit, InvStep, PTL DEF Spec

----------------------------------------------------------------------------
(* Money taken from the wallet backs the payment or went back. *)
THEOREM WalletAlwaysSquare ==
  Spec => []WalletSquare
<1>1. Inv => WalletSquare
  BY DEF Inv, Locked, Accounts, Square, WalletSquare
<1> QED
  BY <1>1, Invariance, PTL

(* The wallet gets back exactly what an attempt took, once, even when locks *)
(* lapse.                                                                   *)
THEOREM RefundsAreExact ==
  Spec => []WalletRefundExact
<1>1. Inv => WalletRefundExact
  BY DEF Inv
<1> QED
  BY <1>1, Invariance, PTL

(* Refunds return no more than the shop holds of an attempt. *)
THEOREM NothingTwice ==
  Spec => []NothingCreditedTwice
<1>1. Inv => NothingCreditedTwice
  <2> SUFFICES ASSUME Inv, ~lapsed, asked # {"full", "partial"}, NEW a \in Attempt
               PROVE  Held(a) >= 0
    BY DEF NothingCreditedTwice
  <2>1. /\ withdrawn[a] \in Nat /\ refunded[a] \in Nat /\ Amount \in Nat
        /\ withdrawn[a] <= Amount /\ refunded[a] <= Amount
    BY PaymentAssumption DEF Inv, Types, TypeOK, PaymentAssumption
  <2>2. "full" \notin asked \/ "partial" \notin asked
    BY DEF Inv, Types, TypeOK
  <2>3. refunded[a] \in {0, withdrawn[a]} \/ Whole(a)
    BY <2>2 DEF Inv, WalletRefundExact, Locked, Accounts, RefundCovered
  <2>4. CASE refunded[a] \in {0, withdrawn[a]}
    BY <2>1, <2>4 DEF Held
  <2>5. CASE Whole(a)
    BY <2>1, <2>5 DEF Held, Whole
  <2> QED
    BY <2>3, <2>4, <2>5
<1> QED
  BY <1>1, Invariance, PTL

(* Goods are prepared for money only. *)
THEOREM GoodsAreForMoney ==
  Spec => []FulfilledIsPaid
<1>1. Inv => FulfilledIsPaid
  <2> SUFFICES ASSUME Inv, ~lapsed, fulfillment = "processing", asked = {}, pay.status = "paid"
               PROVE  Held(pay.attempt) = Amount
    BY DEF FulfilledIsPaid, Inv, Locked, Accounts, PaidWhole
  <2>1. pay.attempt \in Attempt
    BY AttemptOfRow DEF Inv
  <2>2. withdrawn[pay.attempt] \in Nat /\ Amount \in Nat
    BY <2>1, PaymentAssumption DEF Inv, Types, TypeOK, PaymentAssumption
  <2>3. Whole(pay.attempt) /\ refunded[pay.attempt] = 0
    BY DEF Inv, Locked, Accounts, PaidWhole
  <2> QED
    BY <2>2, <2>3 DEF Held, Whole
<1> QED
  BY <1>1, Invariance, PTL

(* A payment never fails, expires or starts again over money the shop took, *)
(* at a gateway without a settle queue.                                     *)
THEOREM ChargesAreKept ==
  ASSUME ~QueuesSettlement
  PROVE  Spec => []ChargedIsKept
<1>1. Inv => ChargedIsKept
  BY DEF Inv, Locked, Accounts, ChargedKept, ChargedIsKept
<1> QED
  BY <1>1, Invariance, PTL

(* As long as a payment waits, the job that is to end it is in the queue.   *)
THEOREM OpenPaymentKeepsJob ==
  Spec => []OpenKeepsItsJob
<1>1. Inv => OpenKeepsItsJob
  BY DEF Inv, Locked, JobKept, OpenKeepsItsJob, Open
<1> QED
  BY <1>1, Invariance, PTL

(* A failed, expired or refunded payment stays so. *)
THEOREM ClosedForGood ==
  Spec => ClosedStaysClosed
<1>1. ASSUME Inv, [Next]_vars, ~lapsed', pay.status \in {"failure", "expired", "refunded"}
      PROVE  pay'.status = pay.status
  <2>1. Exclusive /\ Books /\ Types
    BY <1>1, Frame DEF Inv, Locked, Calls
  <2>2. ASSUME NEW p \in Proc, Commits(p) PROVE FALSE
    BY <1>1, <2>1, <2>2, CommitsFrom
  <2> QED
    BY <1>1, <2>1, <2>2, Frame DEF dbVars
<1>2. Inv /\ [Next]_vars =>
        [~lapsed' /\ pay.status \in {"failure", "expired", "refunded"} => pay'.status = pay.status]_vars
  BY <1>1
<1> QED
  BY <1>2, Invariance, PTL DEF Spec, ClosedStaysClosed
=============================================================================
