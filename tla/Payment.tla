------------------------------ MODULE Payment ------------------------------
(***************************************************************************)
(* One payment of features/payment: PaymentService settles, verifies,      *)
(* cancels, refunds and expires it under a Redis lock; the gateway's       *)
(* callback and a delayed job drive it as well; wallet, fulfillment and    *)
(* delivery follow in the same database transaction.                       *)
(*                                                                         *)
(* An action is one request to the gateway, the queue or the database, or  *)
(* one database transaction, the units between which other calls run.      *)
(* Time is left out: a ticket may expire and a job may start at any        *)
(* moment.  A settle attempt is named by a number where the code uses its  *)
(* instant (settleRequestedAt), and a gateway ticket by its attempt.       *)
(*                                                                         *)
(* Three of the calls PaymentService makes do not fit what it calls in     *)
(* this commit: it passes {orderId} where fulfill takes a fulfillment id,  *)
(* an order id where cancelDelivery looks up a delivery's (not found, it   *)
(* throws), and it calls withdraw and deposit of a wallet that has debit   *)
(* and credit.  Served says which of the three are answered as the caller  *)
(* means them; the others throw, and their transactions roll back.         *)
(***************************************************************************)
EXTENDS Integers

CONSTANTS
  Caller,          \* API requests under way: customers, callbacks, staff
  Worker,          \* the job worker
  NoProc,
  Amount,          \* grandTotal of the order
  Balance,         \* what the customer's wallet holds at first
  RefundAmounts,   \* amounts of a partial refund
  OwnerRecorded,   \* SUBSET BOOLEAN: whether the row's customer_id is set
  supportsPartialPayment,
  Served,          \* of "fulfill", "cancelDelivery", "wallet": what is answered
  QueuesSettlement,\* TRUE: a verified ticket waits in the settle queue
  Lapses,          \* TRUE: work may outlast the lock's time to live
  MaxSettles,      \* bound: settle attempts
  MaxCalls,        \* bound: API requests
  MaxFaults        \* bound: crashes, failed requests to the gateway, lapses

JobAttempts == 3

ASSUME PaymentAssumption ==
  /\ Worker \notin Caller /\ NoProc \notin Caller \cup {Worker}
  /\ Amount \in Nat \ {0} /\ Balance \in Nat
  /\ RefundAmounts \subseteq 1 .. Amount
  /\ OwnerRecorded \subseteq BOOLEAN
  /\ supportsPartialPayment \in BOOLEAN
  /\ Served \subseteq {"fulfill", "cancelDelivery", "wallet"}
  /\ QueuesSettlement \in BOOLEAN /\ Lapses \in BOOLEAN
  /\ MaxSettles \in Nat /\ MaxCalls \in Nat /\ MaxFaults \in Nat

VARIABLES
  pay,           \* the row of order.payments
  balance,       \* the customer's wallet
  withdrawn,     \* [Attempt -> Nat]: transaction under the key ...:withdraw, or 0
  refunded,      \* [Attempt -> Nat]: transaction under the key ...:refund, or 0
  fulfillment,   \* status of the order's fulfillment
  delivery,      \* status of the order's delivery
  ticket,        \* [Attempt -> TicketStatus], at the gateway
  next,          \* the next settle attempt
  job,           \* the expiry job in the queue
  lock,          \* holder of the Redis lock payment:<id>
  proc,          \* [Proc -> where its call is]
  calls, faults,
  \* history, read by the properties only
  lapsed,        \* some call went on after its lock had expired
  asked          \* the types of refund asked for

dbVars == <<pay, balance, withdrawn, refunded, fulfillment, delivery>>
extVars == <<ticket, next>>
boundVars == <<calls, faults>>
histVars == <<lapsed, asked>>
vars == <<dbVars, extVars, job, lock, proc, boundVars, histVars>>

Proc    == Caller \cup {Worker}
Attempt == 1 .. MaxSettles

Payment == [status : {"pending", "processing", "paid", "failure", "expired", "refunded"},
            method : {"none", "wallet", "gateway", "partial"},
            customer : BOOLEAN,         \* customer_id IS NOT NULL
            attempt : 0 .. MaxSettles,  \* settle_requested_at, 0 for NULL
            walletAmount : 0 .. Amount]

TicketStatus == {"none", "created", "done", "verified", "settleQueued", "settled",
                 "canceled", "expired", "reversed", "failed"}

Job == [state : {"delayed", "active", "gone", "failed"}, attempts : 0 .. JobAttempts]

\* pc is the next step of a call, seen the row it read, todo what it decided.
Call == [pc : {"idle", "job", "walletTx", "moveJob", "createTicket", "chargeTx",
               "ticketStatus", "verifyTicket", "outcome", "cancelStatus",
               "cancelTicket", "recallTx", "refundStatus", "reverseTicket",
               "refundTx", "expireTx", "dropJob"},
         seen : Payment,
         todo : [amount : 0 .. Amount, attempt : 0 .. MaxSettles,
                 status : {"none", "full", "partial", "verified", "verified-before",
                           "canceled", "expired", "reversed", "failed"}]]

Nothing == [amount |-> 0, attempt |-> 0, status |-> "none"]
NoRow == [status |-> "pending", method |-> "none", customer |-> FALSE,
          attempt |-> 0, walletAmount |-> 0]
Idle == [pc |-> "idle", seen |-> NoRow, todo |-> Nothing]

-----------------------------------------------------------------------------
(* The queue: BullMQ jobs run at most three times *)

\* Mutant of Retried: a job has one attempt.
TriedOnce == [state |-> "gone", attempts |-> job.attempts + 1]

Retried == LET n == job.attempts + 1
           IN  [state |-> IF n = JobAttempts THEN "failed" ELSE "delayed", attempts |-> n]

\* remove() refuses a job that a worker holds, and the error is swallowed.
cancelJob == job' = IF job.state = "active" THEN job ELSE [job EXCEPT !.state = "gone"]

-----------------------------------------------------------------------------
(* Calls *)

unlock(p) == lock' = IF lock = p THEN NoProc ELSE lock

Goto(p, pc) == proc' = [proc EXCEPT ![p].pc = pc]

\* The call returns, or throws; a job that throws is tried again.
Return(p, ok) ==
  /\ proc' = [proc EXCEPT ![p] = Idle]
  /\ unlock(p)
  /\ job' = IF p # Worker THEN job
            ELSE IF ok THEN [job EXCEPT !.state = "gone"] ELSE Retried

\* executeExclusive: takes the lock, then reads the row.  A caller that finds
\* the lock taken, or another status than it expects, has an error and no effect.
Enter(p, pc, todo) ==
  /\ lock = NoProc
  /\ lock' = p
  /\ proc' = [proc EXCEPT ![p] = [pc |-> pc, seen |-> pay, todo |-> todo]]
  /\ UNCHANGED <<dbVars, extVars, faults, lapsed>>

Request(p) ==
  /\ p \in Caller /\ proc[p].pc = "idle"
  /\ calls < MaxCalls /\ calls' = calls + 1
  /\ UNCHANGED job

at(p, pc) == proc[p].pc = pc
seen(p)   == proc[p].seen
todo(p)   == proc[p].todo
mine(p)   == ticket[seen(p).attempt]

-----------------------------------------------------------------------------
(* The parts of a database transaction, each with the condition under which  *)
(* it does not throw.                                                        *)

\* The check constraint payments_status_method.
payments_status_method(row) ==
  /\ row.status = "pending" => row.method = "none"
  /\ row.status \in {"processing", "failure", "paid", "refunded"} => row.method # "none"

\* PaymentRepository.updateStatus: whatever the row's status is by now.
updated(status) ==
  IF status = "pending"
  THEN [pay EXCEPT !.status = status, !.method = "none", !.attempt = 0, !.walletAmount = 0]
  ELSE [pay EXCEPT !.status = status]

\* Mutant of updateStatusOk: the check constraint is dropped.
Unchecked(status) == TRUE

updateStatusOk(status) == payments_status_method(updated(status))
updateStatus(status)   == pay' = updated(status)

\* PaymentRepository.settle: compare and set on status = 'pending'.
settleOk == pay.status = "pending"
settle(p, status, method, attempt) ==
  pay' = [pay EXCEPT !.status = status, !.method = method, !.attempt = attempt,
                     !.walletAmount = todo(p).amount]

\* wallet.withdraw: an attempt's key is new; decreaseBalance checks the funds.
withdrawOk(amount) == "wallet" \in Served /\ pay.customer /\ amount <= balance
withdraw(attempt, amount) ==
  /\ balance' = balance - amount
  /\ withdrawn' = [withdrawn EXCEPT ![attempt] = amount]

\* refundToWallet: a key used before with the same amount is a replay, with
\* another amount a conflict.
depositOk(row, amount) ==
  /\ "wallet" \in Served /\ row.customer /\ row.attempt # 0
  /\ refunded[row.attempt] \in {0, amount}
\* Mutant of deposit: a replay is credited again.
DepositAgain(row, amount) ==
  /\ balance' = balance + amount
  /\ refunded' = [refunded EXCEPT ![row.attempt] = @ + amount]
  /\ UNCHANGED withdrawn

deposit(row, amount) ==
  /\ balance' = IF refunded[row.attempt] = 0 THEN balance + amount ELSE balance
  /\ refunded' = [refunded EXCEPT ![row.attempt] = amount]
  /\ UNCHANGED withdrawn
noWallet == UNCHANGED <<balance, withdrawn, refunded>>

fulfillOk == "fulfill" \in Served /\ fulfillment = "pending"
fulfill   == fulfillment' = "processing"

\* Of the order's delivery, once it is found: while it waits for its payment it
\* has not left the warehouse, and canceling it again changes nothing.
cancelDeliveryOk == "cancelDelivery" \in Served
cancelDelivery == delivery' = "canceled"

\* A transaction commits as a whole or throws.
Tx(ok, effect) == IF ok THEN effect ELSE UNCHANGED dbVars

onFailedOk(row, status) ==
  /\ updateStatusOk(status) /\ cancelDeliveryOk
  /\ row.method = "partial" => depositOk(row, row.walletAmount)
\* Mutant of onFailed: the wallet's part is kept.
FailedUnrefunded(row, status) ==
  updateStatus(status) /\ cancelDelivery /\ noWallet /\ UNCHANGED fulfillment

onFailed(row, status) ==
  /\ updateStatus(status) /\ cancelDelivery
  /\ IF row.method = "partial" THEN deposit(row, row.walletAmount) ELSE noWallet
  /\ UNCHANGED fulfillment

onPaidOk == updateStatusOk("paid") /\ fulfillOk
onPaid   == updateStatus("paid") /\ fulfill /\ noWallet /\ UNCHANGED delivery

-----------------------------------------------------------------------------
(* settle *)

\* allocate(): amount is the wallet's part; the first balance check.
allocateOk(amount) ==
  /\ amount > 0 => pay.customer /\ amount <= balance
  /\ amount \in 1 .. Amount - 1 => supportsPartialPayment

Settle(p, amount) ==
  /\ Request(p) /\ pay.status = "pending" /\ next <= MaxSettles
  /\ allocateOk(amount)
  /\ Enter(p, IF amount = Amount THEN "walletTx" ELSE "moveJob",
           [Nothing EXCEPT !.amount = amount])
  /\ UNCHANGED asked

\* settleWithWallet.
WalletTx(p) ==
  /\ at(p, "walletTx") /\ next <= MaxSettles
  /\ LET ok == withdrawOk(Amount) /\ settleOk /\ fulfillOk
     IN  /\ Tx(ok, /\ withdraw(next, Amount)
                   /\ settle(p, "paid", "wallet", next)
                   /\ fulfill
                   /\ UNCHANGED <<refunded, delivery>>)
         /\ IF ok THEN Goto(p, "dropJob") /\ UNCHANGED <<lock, job>>
                  ELSE Return(p, FALSE)
  /\ next' = next + 1
  /\ UNCHANGED <<ticket, boundVars, histVars>>

\* cancelExpirePaymentJob, the last step of a wallet payment and of a callback.
DropJob(p) ==
  /\ at(p, "dropJob")
  /\ cancelJob
  /\ proc' = [proc EXCEPT ![p] = Idle]
  /\ unlock(p)
  /\ UNCHANGED <<dbVars, extVars, boundVars, histVars>>

\* job.update: a job that is not delayed can no longer be rescheduled.
MoveJob(p) ==
  /\ at(p, "moveJob")
  /\ IF job.state = "delayed" THEN Goto(p, "createTicket") /\ UNCHANGED <<lock, job>>
                              ELSE Return(p, FALSE)
  /\ UNCHANGED <<dbVars, extVars, boundVars, histVars>>

CreateTicket(p) ==
  /\ at(p, "createTicket") /\ next <= MaxSettles
  /\ ticket' = [ticket EXCEPT ![next] = "created"]
  /\ next' = next + 1
  /\ proc' = [proc EXCEPT ![p].pc = "chargeTx", ![p].todo.attempt = next]
  /\ UNCHANGED <<dbVars, lock, job, boundVars, histVars>>

\* The transaction of settleWithGateway.
ChargeTx(p) ==
  /\ at(p, "chargeTx")
  /\ LET part == todo(p).amount
     IN  Tx((part > 0 => withdrawOk(part)) /\ settleOk,
            /\ IF part > 0 THEN withdraw(todo(p).attempt, part) /\ UNCHANGED refunded
                           ELSE noWallet
            /\ settle(p, "processing", IF part > 0 THEN "partial" ELSE "gateway",
                      todo(p).attempt)
            /\ UNCHANGED <<fulfillment, delivery>>)
  /\ Return(p, TRUE)
  /\ UNCHANGED <<extVars, boundVars, histVars>>

-----------------------------------------------------------------------------
(* verify, for the gateway's callback and for the job *)

\* Mutant of Callback: the status of the payment is not looked at.
CallbackAny(p) ==
  /\ Request(p) /\ pay.attempt # 0
  /\ Enter(p, "ticketStatus", Nothing)
  /\ UNCHANGED asked

Callback(p) ==
  /\ Request(p) /\ pay.status = "processing"
  /\ Enter(p, "ticketStatus", Nothing)
  /\ UNCHANGED asked

Answer(p, status) ==
  proc' = [proc EXCEPT ![p].pc = "outcome", ![p].todo.status = status]

\* Mutant of TicketStatusOf: a ticket verified before has failed.
StatusOnce(p) ==
  /\ at(p, "ticketStatus")
  /\ CASE mine(p) = "done" -> Goto(p, "verifyTicket")
       [] mine(p) \in {"canceled", "expired", "reversed"} -> Answer(p, mine(p))
       [] OTHER -> Answer(p, "failed")
  /\ UNCHANGED <<dbVars, extVars, lock, job, boundVars, histVars>>

\* verifyPayment: first the ticket's status...
TicketStatusOf(p) ==
  /\ at(p, "ticketStatus")
  /\ CASE mine(p) = "done" -> Goto(p, "verifyTicket")
       [] mine(p) \in {"canceled", "expired", "reversed"} -> Answer(p, mine(p))
       [] mine(p) \in {"verified", "settled"} -> Answer(p, "verified-before")
       [] OTHER -> Answer(p, "failed")
  /\ UNCHANGED <<dbVars, extVars, lock, job, boundVars, histVars>>

\* Mutant of VerifyTicket: the answer of the gateway is not looked at.
VerifiedAnyway(p) ==
  /\ at(p, "verifyTicket")
  /\ ticket' = [ticket EXCEPT ![seen(p).attempt] = IF @ = "done" THEN "verified" ELSE @]
  /\ Answer(p, "verified")
  /\ UNCHANGED <<dbVars, next, lock, job, boundVars, histVars>>

\* ... then the order to capture it.
VerifyTicket(p) ==
  /\ at(p, "verifyTicket")
  /\ ticket' = [ticket EXCEPT ![seen(p).attempt] = IF @ = "done" THEN "verified" ELSE @]
  /\ CASE mine(p) \in {"done", "verified"} -> Answer(p, "verified")
       [] mine(p) = "canceled" -> Answer(p, "canceled")
       [] OTHER -> Answer(p, "failed")
  /\ UNCHANGED <<dbVars, next, lock, job, boundVars, histVars>>

Outcome(p) ==
  /\ at(p, "outcome")
  /\ LET paid   == todo(p).status \in {"verified", "verified-before"}
         status == IF todo(p).status = "expired" THEN "expired" ELSE "failure"
         ok     == IF paid THEN onPaidOk ELSE onFailedOk(seen(p), status)
     IN  /\ Tx(ok, IF paid THEN onPaid ELSE onFailed(seen(p), status))
         /\ IF ok /\ p # Worker
            THEN Goto(p, "dropJob") /\ unlock(p) /\ UNCHANGED job
            ELSE Return(p, ok)
  /\ UNCHANGED <<extVars, boundVars, histVars>>

-----------------------------------------------------------------------------
(* cancel *)

Cancel(p) ==
  /\ Request(p) /\ pay.status = "processing"
  /\ Enter(p, "cancelStatus", Nothing)
  /\ UNCHANGED asked

CancelStatus(p) ==
  /\ at(p, "cancelStatus")
  /\ CASE mine(p) = "canceled" -> Goto(p, "recallTx") /\ UNCHANGED <<lock, job>>
       [] mine(p) = "created" -> Goto(p, "cancelTicket") /\ UNCHANGED <<lock, job>>
       [] OTHER -> Return(p, FALSE)
  /\ UNCHANGED <<dbVars, extVars, boundVars, histVars>>

CancelTicket(p) ==
  /\ at(p, "cancelTicket")
  /\ IF mine(p) = "created"
     THEN /\ ticket' = [ticket EXCEPT ![seen(p).attempt] = "canceled"]
          /\ Goto(p, "recallTx") /\ UNCHANGED <<lock, job>>
     ELSE Return(p, FALSE) /\ UNCHANGED ticket
  /\ UNCHANGED <<dbVars, next, boundVars, histVars>>

RecallTx(p) ==
  /\ at(p, "recallTx")
  /\ LET partial == seen(p).method = "partial"
         ok == cancelDeliveryOk /\ (partial => depositOk(seen(p), seen(p).walletAmount))
     IN  /\ Tx(ok, /\ IF partial THEN deposit(seen(p), seen(p).walletAmount) ELSE noWallet
                   /\ updateStatus("pending") /\ cancelDelivery
                   /\ UNCHANGED fulfillment)
         /\ Return(p, ok)
  /\ UNCHANGED <<extVars, boundVars, histVars>>

-----------------------------------------------------------------------------
(* refund *)

Refund(p, type, amount) ==
  /\ Request(p) /\ pay.status = "paid"
  /\ Enter(p, IF type = "partial" \/ pay.method = "wallet" THEN "refundTx"
                                                           ELSE "refundStatus",
           [Nothing EXCEPT !.status = type, !.amount = amount])
  /\ asked' = asked \cup {type}

RefundStatus(p) ==
  /\ at(p, "refundStatus")
  /\ CASE mine(p) = "reversed" -> Goto(p, "refundTx") /\ UNCHANGED <<lock, job>>
       [] mine(p) \in {"done", "verified"} ->
            Goto(p, "reverseTicket") /\ UNCHANGED <<lock, job>>
       [] OTHER -> Return(p, FALSE)
  /\ UNCHANGED <<dbVars, extVars, boundVars, histVars>>

ReverseTicket(p) ==
  /\ at(p, "reverseTicket")
  /\ IF mine(p) \in {"done", "verified"}
     THEN /\ ticket' = [ticket EXCEPT ![seen(p).attempt] = "reversed"]
          /\ Goto(p, "refundTx") /\ UNCHANGED <<lock, job>>
     ELSE Return(p, FALSE) /\ UNCHANGED ticket
  /\ UNCHANGED <<dbVars, next, boundVars, histVars>>

\* Mutant of walletRefund: the gateway's part goes to the wallet as well.
WholeRefund(p) == IF todo(p).status = "partial" THEN todo(p).amount ELSE Amount

\* What goes back to the wallet.
walletRefund(p) == CASE todo(p).status = "partial" -> todo(p).amount
                     [] todo(p).status # "partial" /\ seen(p).method = "wallet" -> Amount
                     [] OTHER -> seen(p).walletAmount

RefundTx(p) ==
  /\ at(p, "refundTx")
  /\ LET back == walletRefund(p)
         ok   == updateStatusOk("refunded") /\ (back > 0 => depositOk(seen(p), back))
     IN  /\ Tx(ok, /\ IF back > 0 THEN deposit(seen(p), back) ELSE noWallet
                   /\ updateStatus("refunded")
                   /\ UNCHANGED <<fulfillment, delivery>>)
         /\ Return(p, ok)
  /\ UNCHANGED <<extVars, boundVars, histVars>>

-----------------------------------------------------------------------------
(* The expiry job, which reads the row without the lock *)

StartJob ==
  /\ job.state = "delayed" /\ at(Worker, "idle")
  /\ job' = [job EXCEPT !.state = "active"]
  /\ proc' = [proc EXCEPT ![Worker] = [Idle EXCEPT !.pc = "job", !.seen = pay]]
  /\ UNCHANGED <<dbVars, extVars, lock, boundVars, histVars>>

\* handle(): expire() or verify(), which read the row again under the lock.
RunJob ==
  /\ at(Worker, "job")
  /\ seen(Worker).status \in {"pending", "processing"}
  /\ pay.status = seen(Worker).status
  /\ Enter(Worker, IF pay.status = "pending" THEN "expireTx" ELSE "ticketStatus", Nothing)
  /\ UNCHANGED <<job, calls, asked>>

\* Mutant of SkipJob: a payment whose status has changed is taken for done.
ConflictIsDone ==
  /\ at(Worker, "job")
  /\ LET done == \/ seen(Worker).status \notin {"pending", "processing"}
                 \/ pay.status # seen(Worker).status
     IN  /\ done \/ lock # NoProc
         /\ Return(Worker, done)
  /\ UNCHANGED <<dbVars, extVars, boundVars, histVars>>

\* Nothing to do; or the lock is taken, or the status has changed, which throws.
SkipJob ==
  /\ at(Worker, "job")
  /\ LET none == seen(Worker).status \notin {"pending", "processing"}
     IN  /\ none \/ lock # NoProc \/ pay.status # seen(Worker).status
         /\ Return(Worker, none)
  /\ UNCHANGED <<dbVars, extVars, boundVars, histVars>>

ExpireTx ==
  /\ at(Worker, "expireTx")
  /\ LET ok == onFailedOk(seen(Worker), "expired")
     IN  /\ Tx(ok, onFailed(seen(Worker), "expired"))
         /\ Return(Worker, ok)
  /\ UNCHANGED <<extVars, boundVars, histVars>>

-----------------------------------------------------------------------------
(* Faults, and the gateway's own steps *)

\* A request to the gateway fails (or its answer is lost) and the call throws,
\* or its process dies and leaves the lock behind.
Fail(p) ==
  /\ proc[p].pc # "idle" /\ faults < MaxFaults
  /\ faults' = faults + 1
  /\ proc' = [proc EXCEPT ![p] = Idle]
  /\ UNCHANGED lock \/ unlock(p)
  /\ job' = IF p = Worker THEN Retried ELSE job
  /\ UNCHANGED <<dbVars, extVars, calls, histVars>>

\* The lock's time to live runs out: after a crash, or under a call still at work.
LockExpires ==
  /\ lock # NoProc /\ lock' = NoProc
  /\ IF proc[lock].pc = "idle" THEN UNCHANGED <<faults, lapsed>>
     ELSE /\ Lapses /\ faults < MaxFaults /\ faults' = faults + 1
          /\ lapsed' = TRUE
  /\ UNCHANGED <<dbVars, extVars, job, proc, calls, asked>>

TicketMoves(a, from, to) ==
  /\ ticket[a] = from
  /\ ticket' = [ticket EXCEPT ![a] = to]
  /\ UNCHANGED <<dbVars, next, job, lock, proc, boundVars, histVars>>

CustomerPays(a) == TicketMoves(a, "created", "done")

CustomerCancels(a) == TicketMoves(a, "created", "canceled")

\* Tickets expire; money the shop did not verify goes back; verified money is
\* paid out.
GatewayMoves(a) ==
  \/ TicketMoves(a, "created", "expired")
  \/ TicketMoves(a, "created", "failed")
  \/ TicketMoves(a, "done", "reversed")
  \/ TicketMoves(a, "verified", IF QueuesSettlement THEN "settleQueued" ELSE "settled")
  \/ TicketMoves(a, "settleQueued", "settled")

-----------------------------------------------------------------------------

Init ==
  /\ \E recorded \in OwnerRecorded : pay = [NoRow EXCEPT !.customer = recorded]
  /\ balance = Balance
  /\ withdrawn = [a \in Attempt |-> 0] /\ refunded = [a \in Attempt |-> 0]
  /\ fulfillment = "pending" /\ delivery = "pending"
  /\ ticket = [a \in Attempt |-> "none"] /\ next = 1
  /\ job = [state |-> "delayed", attempts |-> 0]
  /\ lock = NoProc
  /\ proc = [p \in Proc |-> Idle]
  /\ calls = 0 /\ faults = 0
  /\ lapsed = FALSE /\ asked = {}

\* The next step of a call.
Step(p) ==
  \/ WalletTx(p) \/ DropJob(p) \/ MoveJob(p) \/ CreateTicket(p) \/ ChargeTx(p)
  \/ TicketStatusOf(p) \/ VerifyTicket(p) \/ Outcome(p)
  \/ CancelStatus(p) \/ CancelTicket(p) \/ RecallTx(p)
  \/ RefundStatus(p) \/ ReverseTicket(p) \/ RefundTx(p)

JobStep == StartJob \/ RunJob \/ SkipJob \/ ExpireTx \/ Step(Worker)

Next ==
  \/ \E p \in Caller :
       \/ \E amount \in 0 .. Amount : Settle(p, amount)
       \/ Callback(p) \/ Cancel(p)
       \/ Refund(p, "full", 0)
       \/ \E amount \in RefundAmounts : Refund(p, "partial", amount)
       \/ Step(p)
  \/ JobStep
  \/ \E p \in Proc : Fail(p)
  \/ LockExpires
  \/ \E a \in Attempt : CustomerPays(a) \/ CustomerCancels(a) \/ GatewayMoves(a)

Spec == Init /\ [][Next]_vars

\* Calls and the worker go on until they return, and Redis expires its locks.
Fairness ==
  /\ WF_vars(JobStep)
  /\ \A p \in Caller : WF_vars(Step(p))
  /\ WF_vars(LockExpires)

FairSpec == Spec /\ Fairness

-----------------------------------------------------------------------------
(* Properties *)

(* The row, the ledger, the queue and the calls hold values of their type,   *)
(* and the row satisfies its check constraint whatever call wrote it last.   *)
TypeOK ==
  /\ pay \in Payment /\ payments_status_method(pay)
  /\ balance \in Nat
  /\ withdrawn \in [Attempt -> 0 .. Amount] /\ refunded \in [Attempt -> 0 .. Amount]
  /\ fulfillment \in {"pending", "processing"}
  /\ delivery \in {"pending", "canceled"}
  /\ ticket \in [Attempt -> TicketStatus] /\ next \in 1 .. MaxSettles + 1
  /\ job \in Job /\ lock \in Proc \cup {NoProc}
  /\ proc \in [Proc -> Call]
  /\ calls \in 0 .. MaxCalls /\ faults \in 0 .. MaxFaults
  /\ lapsed \in BOOLEAN
  /\ asked \subseteq {"full", "partial"}

Charged(a) == ticket[a] \in {"verified", "settleQueued", "settled"}

\* What the shop holds of attempt a's money.
Held(a) == withdrawn[a] - refunded[a]
             + IF Charged(a) \/ ticket[a] = "done" THEN Amount - withdrawn[a] ELSE 0

(* Money taken from the wallet is never stranded: it backs the payment as    *)
(* it stands, or it went back.  Retries, crashes between two steps and a     *)
(* gateway that fails half way do not change that, while locks last.         *)
WalletSquare ==
  ~lapsed => \A a \in Attempt :
    withdrawn[a] > 0 /\ refunded[a] = 0 =>
      pay.attempt = a /\ pay.status \in {"processing", "paid"}

(* "Cancel, failure and refund ... share a key": even when locks lapse and   *)
(* two of them run together, the wallet gets back exactly what the attempt   *)
(* took from it, once (a partial refund gives back what it was asked for).   *)
WalletRefundExact ==
  "partial" \notin asked => \A a \in Attempt : refunded[a] \in {0, withdrawn[a]}

(* "Nothing is credited twice on retry": a refund repeated after crashes and *)
(* lost answers returns no more than the shop holds of the attempt.          *)
NothingCreditedTwice ==
  ~lapsed /\ asked # {"full", "partial"} => \A a \in Attempt : Held(a) >= 0

(* Goods are prepared for money only: the order's fulfillment has started    *)
(* only if its payment is paid, with the whole amount held, or was refunded. *)
FulfilledIsPaid ==
  ~lapsed /\ fulfillment = "processing" =>
    \/ pay.status = "paid" /\ (Held(pay.attempt) = Amount \/ asked # {})
    \/ pay.status = "refunded"

(* A ticket whose money the shop took belongs to the payment's current       *)
(* attempt, and the payment never fails, expires or starts again over it:    *)
(* the reason verifyPayment has the answer verified-before.                  *)
ChargedIsKept ==
  ~lapsed => \A a \in Attempt : Charged(a) =>
    pay.attempt = a /\ pay.status \in {"processing", "paid", "refunded"}

(* "Keep the expiry job while the gateway is still pending": as long as the  *)
(* payment waits for the customer or the gateway, the job is there to end it *)
(* (or has failed three times), although a callback removes the job after it *)
(* gave the lock back and the job chooses what to do before it takes it.     *)
OpenKeepsItsJob ==
  ~lapsed /\ pay.status \in {"pending", "processing"} => job.state # "gone"

(* A failed, expired or refunded payment stays so, although updateStatus     *)
(* does not look at the status it replaces.                                  *)
ClosedStaysClosed ==
  [][~lapsed' /\ pay.status \in {"failure", "expired", "refunded"}
       => pay'.status = pay.status]_vars

(* "... otherwise the payment could stay in processing forever": it leaves   *)
(* processing, unless the job's attempts all failed or some lock lapsed.     *)
LeavesProcessing ==
  pay.status = "processing"
    ~> (pay.status # "processing" \/ job.state = "failed" \/ lapsed)

(* "If the session expires without a successful payment, the order is marked *)
(* as expired": the job, which ends the session, does not give up on it.     *)
ExpiredIsMarked ==
  job.state = "failed" => pay.status # "pending"
=============================================================================
