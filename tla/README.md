# TLA+ models of the shop back end

This directory holds TLA+ specifications of the back end of a car-parts shop (NestJS, PostgreSQL
through Drizzle, Redis, BullMQ), the TLC configurations that check them on small instances, and
proofs checked by TLAPS. A specification is translated from the TypeScript, SQL and Lua in the
repository, never from the documents beside them; where a document or a comment says something else
than the code, a run shows the difference (see *Findings*). Packages that are not in the repository
(`@nestjs/outbox`, `@nestjs/idempotency`, BullMQ, the Azkivam gateway, PostgreSQL, Redis) are
modelled from how the repository uses them, and marked external in `PROJECT.json`.

The repository has no tests, and parts of it are in the middle of a refactoring. Two generations of
a service sometimes stand side by side (event handlers with `markAs`, and services that update rows
directly); the models follow the generation whose methods exist.

## Parts of the system

| Part | State | Operations | What is hard | What makes it correct |
|---|---|---|---|---|
| Transactional outbox (`infrastructure/messaging/outbox`) | `outbox_messages`, `outbox_dead_letters`, `outbox_inbox`; advisory locks per key and for claims | add, claim, markPublished, reschedule, deadLetter, release, requeue, purge, inbox | producers commit in another order than they insert; relays run together, with clocks of their own; leases run out under a slow publisher; SKIP LOCKED; requeues race claims | per key in commit order, one relay per key, nothing lost, everything published in the end |
| Idempotency store (`infrastructure/idempotency`) | one Redis hash per key with a time to live | ACQUIRE, COMPLETE, RELEASE, EXTEND | retries, late scripts of dead attempts, lost replies, expiring locks | one effect per key, genuine replays, no lock for ever |
| Payment (`features/payment`) | `order.payments` row, Redlock, expiry job, gateway ticket | settle, verify, cancel, refund, expire, gateway callback | every call talks to the gateway, Redis and the database in turn and may die between two of them; the callback races the job; locks may lapse | no money stranded, none credited twice, goods only for money, money never for a failed payment |
| Wallet (`features/payment/wallet`) | balance, transactions by idempotency key, frozen amounts | withdraw, deposit, freeze, commitFreeze, releaseFreeze | replays with another amount, two spenders of one balance | balance is the sum of its transactions, never negative |
| Fulfillment, delivery, order (`features/order`, `features/delivery`) | a status each, reservations, events | placeOrder, cancelOrder, fulfill, complete, cancel, deliver, pickup, attempt, return; six event handlers | events arrive at least once and out of order; handlers check the status outside the transaction | refunds once, no delivery of a refunded order |
| Warehouse (`features/warehouse`) | stocks, reservations, movements | reserve, release, receive, issue, adjust, purge | a trigger deletes empty stocks; movements are replayed by key | stock is the sum of its movements |
| Settlement (`features/finance/settlement`) | withdrawal and refund requests over the wallet | request, markAsPaid, reject | the status is not checked | money leaves once |
| Label numbers (migration `label_infra`, `create-label-table.ts`) | a counter row, a pool of released numbers, the labels, per owner table | insert, delete, owner cascade, moving the ceilings | sessions side by side at READ COMMITTED, rollbacks, the switch to released numbers at the ceiling | every number on one label or in the pool, a printed number keeps its meaning |
| Rate limit (`infrastructure/rate-limit`) | counters and timestamps in Redis | check, consume under four algorithms | several rules consumed all or nothing, a moving clock | never over the limit |
| Job scheduler and SMS (`infrastructure/messaging`, `apps/worker`) | BullMQ jobs | schedule, update, cancel; process with retries | a job that runs while it is moved or canceled; half-failed SMS batches | a job runs, a recipient gets one message |
| Catalog (`features/store/catalog`): products, brands, fitments, categories; markup policies (`features/store/pricing/markup`) | rows that refer to each other by id, without foreign keys | define, redefine, delete; the owners' deletions; handlers of their events | references checked before the write, handlers that read before their transaction and write rows back whole, redelivered events, handlers that throw | a reference to something deleted has a known cause, search text follows the references |
| Pricing, discounts, cashback, point of sale, returns (`features/store/pricing`, `features/marketing`, `features/store/pos`, `features/store/return`) | discount usages, the cashback setting, recorded sales and returns | priceInvoice, commitDiscountUsages, recordSale, recordReturn | a usage limit checked under a lock that ends before the commit, display prices raised to carry display discounts, several returns of one sale | the customer pays the real price less the real discount, limits hold, refunds stay within what was paid |
| Store schedule, media, customers, procurement, identity | relational rows, one settings document | CRUD | little | |

Calls go down the table: an order is placed with its payment and its expiry job in one transaction;
the payment drives the wallet, the fulfillment and the delivery inside its own transactions;
fulfillment and delivery report through the outbox; the HTTP layer puts the idempotency store in
front of wallet operations. Shared state is the database; Redis holds the locks (`executeExclusive`),
the idempotency records, the rate limits and the queues. `PROJECT.json` lists every part with its
status, and every hazard at its line.

## Modules

| Module | Models | Role |
|---|---|---|
| `KeyedQueue` | what an outbox promises: append, receive in key order, set aside | abstract specification |
| `Outbox` | `DrizzleOutboxStore` with its producers, relays and operators | detailed specification, implements `KeyedQueue` |
| `MCOutbox` | key, lock and clock functions of the instances | TLC |
| `OutboxProofs` | inductive invariant and theorems of `Outbox` | TLAPS |
| `Idempotency`, `MCIdempotency` | `RedisIdempotencyStore` and the interceptor's use of it | specification, TLC |
| `IdempotencyProofs` | inductive invariant and theorems of `Idempotency` | TLAPS |
| `Labels` | the triggers and tables that number the product labels | specification |
| `LabelsProofs` | inductive invariant and theorems of `Labels` | TLAPS |
| `RateLimit`, `MCRateLimit` | the rate-limit script and the calls of `RedisRateLimitService` | specification, TLC |
| `RateLimitProofs` | inductive invariant and theorems of `RateLimit` | TLAPS |
| `Catalog`, `MCCatalog` | products, the entities they refer to, markup policies, the deletion events and their handlers | specification, TLC |
| `CatalogProofs` | inductive invariant and theorems of `Catalog` | TLAPS |
| `Sums` | sums over finite sets, induction over finite sets as a property of sets | lemmas, extended by `RateLimitProofs` and `SalesProofs` |
| `Pricing` | markup lookup, display prices, discounts, invoices, flattening, refund lines | operators, extended by `Sales` |
| `Sales`, `MCSales` | `recordSale`, `recordReturn`, discount usages and the cashback setting | specification, TLC |
| `SalesProofs` | inductive invariants and theorems of `Sales` | TLAPS |
| `Payment` | `PaymentService`, its repository, the expiry job, the callback, the lock, the Azkivam adapter, and what they do to wallet, fulfillment and delivery | specification |
| `PaymentProofs` | inductive invariant and theorems of `Payment` | TLAPS |

Definitions carry the names of the source (`settleOk`, `onFailed`, `keyLocks`, `toWholeMs`); `map` in
`PROJECT.json` gives the lines each one stands for. A comment *Mutant of X* marks a variant of X with
a plausible bug. No specification uses it: it is there to show that a property notices.

### Outbox

The rows are functions from messages to columns; `rows` and `deadLetters` are the committed tables.
The code compares absolute instants with `now()`; here they are kept relative to the present (`CountDown`, a device
of the model, which `Tick` applies), so the state space is finite; a relay whose clock runs ahead (`ClockAhead`) sees a lease end early. Actions are SQL statements:

* `BeginAdd`, `LockKey`, `Insert`, `Commit`, `Rollback`: `add()` in the caller's transaction. The locks
  are taken one by one in ascending order and kept until the transaction ends.
* `ClaimScan`, `ClaimLock`, `ClaimCommit`: the three statements of `claim()`. READ COMMITTED gives the
  scan a snapshot; `FOR UPDATE SKIP LOCKED` reads each row again, but not its older siblings; the last
  look gives back what stands behind a row that is not the relay's own. CLAIM_LOCK makes claims take
  turns, but not the relay writes and requeues that run between the statements.
* `Publish`, `PublishFails`, `LockRow`, `MarkPublished`, `Reschedule`, `DeadLetter`, `Release`,
  `Shutdown`, `Crash`: the relay, external. It publishes a batch in order within each key, stops a key
  at its first failure, and writes each outcome with the statement that `leasedBy` fences.
* `RequeueDeadLetters`, `PurgeDeadLetters`: operators.

History variables (`before`, `committed`, `delivered`, `parked`, `purged`) are read by properties only.

### Idempotency

One action per script. What the interceptor sends may be executed late (`sent`, `Execute`), also after
its process died; a reply may be lost (`AcquireUnanswered`). Durations are given in half milliseconds,
so that `toWholeMs` has something to round and `Pexpire` something to refuse.

### Payment

One payment. `proc` says where each call is (`pc`), which row it read under the lock (`seen`) and what it
decided (`todo`); a step is one request to the gateway, the queue or Redis, or one database
transaction. `Fail` ends a call at any step: the request failed, its answer was lost or the process
died, with the lock released or left behind. `LockExpires` frees a lock that was left behind, and,
with `Lapses`, one whose holder is still at work: Redlock's 5 s are not extended while a call waits for
the gateway, which counts as one of the faults. `Tx(ok, effect)` is a transaction: all parts or none. Settle attempts are numbered where
the code uses their instant in the wallet's idempotency keys.

`PaymentService` belongs to another generation than what it calls, and three of its calls do not fit in this commit:

* `fulfill({ orderId })` (lines 267 and 385), where `FulfillmentService.fulfill` takes a fulfillment's id
  (`fulfillment.service.ts:51`): not found.
* `cancelDelivery(payment.orderId)` (lines 150 and 396), which looks its argument up in `deliveries.id`, a uuid of its own
  (`delivery.service.ts:175`): it throws, so the transactions of `cancel`, of a failed callback and of the expiry job roll back.
* `wallet.withdraw` and `wallet.deposit` (lines 248, 312 and 410), where the wallet has `debit` and `credit`; and `DeliveryService`
  and `FulfillmentService` are imported from paths that do not exist.

The constant `Served` names those of the three that are answered the way `PaymentService` means them; the others throw, and their
transaction rolls back. `Served = {}` is the commit as it stands, `Served = {"fulfill", "cancelDelivery", "wallet"}` the service with its
calls repaired, which is where its own logic can be seen. The theorems hold for every `Served`. The run `Payment` takes
the repaired calls, `PaymentUnserved` the ones of this commit, and finding 2 is what they cost. (With one caller, three calls and one
fault, TLC also finds no error in the safety properties for each of the eight values of `Served`.)

These facts shaped the model as well:

* `order.repository.ts:100` inserts a payment without `customer_id`, and `settle` passes
  `payment.customerId!` on, not the `orderCustomerId` that `findSettleContext` selects. With a null
  customer the wallet refuses. `OwnerRecorded = {TRUE, FALSE}` covers both rows the schema allows.
* `supportsPartialPayment` is false for Azkivam, the only gateway. The run takes TRUE, which contains
  the behaviours of FALSE, so that the partial method's code is checked as well.
* `updateStatus` does not look at the status it replaces; only the lock keeps calls apart.
* Once `cancelDelivery` finds the delivery of an order, `cancel()` cancels it although the payment goes back to pending and can be
  settled again (lines 149-150): a payment taken after that is for an order whose delivery is canceled. The model reaches this; no
  property claims otherwise.
* A callback removes the expiry job after it gave the lock back, and the job decides what to do before it takes the lock. While no lock
  lapses, the job of a payment that waits is never removed (`OpenKeepsItsJob`). After a lapse it can be: a failed callback waits to remove the
  job, `cancel`, whose lock lapsed before, reopens the payment, a new settle takes it to processing, and then the job is removed. No job takes
  that payment out of processing any more, so `LeavesProcessing` too leaves such histories aside.
* A job that throws runs at most three times; after that only a callback or the customer takes a payment out of processing.
  `LeavesProcessing` leaves that case aside, and `OpenKeepsItsJob` says *not removed*, not *still to run*.
* A full refund that crashed after reversing the ticket, followed by a partial one, pays twice;
  `NothingCreditedTwice` is about a refund repeated as it was asked for.

### Labels

The state of one owner table: `counter`, `free`, `labels`, `owners` are the committed rows, `tx` is what each open
transaction wrote (its inserted and deleted rows, the numbers it took and released, the owner rows it deleted), and
`holder` the session with the row lock that `SELECT ... FOR UPDATE` on the counter takes. A statement sees the
committed rows of that moment with its own writes (`LabelsSeen`, `FreeSeen`, `LastSeen`): READ COMMITTED, where a
statement that waited for a lock reads again. `Insert` is the statement with both BEFORE INSERT triggers in the order of
their names; `Delete` and `DeleteOwner` include the AFTER DELETE trigger, the latter for every row of the cascade.
A trigger that raises ends the transaction (`InsertRefused`, `Update`), as do `Rollback` and a dead session.
`WithSlots` says whether the label table has a `slot` column: the triggers provide for it, the tables that
`createLabelTables` makes today have none.

A label that is "moved" (deleted and inserted again in one transaction) gets a fresh number below the ceiling
only; at the ceiling it may draw the number it just gave back.

### Rate limit

`store` is what Redis holds per key, `now` its clock, `rules` the rules a behaviour's callers use. `Decision` is
the script up to its answer (each rule judged on the same instant, the tightest or the worst one chosen), `attempt` adds
the commits; a rejected request and `check()` change nothing and have no action. `admitted` is a history for the
properties. Time is counted in ticks, tokens in parts, so that fractions of both occur without floating point: the
rounding of `%.6f` and the `1e-9` are left out, and so is a clock that steps back. A key counts as gone at the
instant it expires. `assertValidRules` accepts a bucket with less than one token; it never lets a request pass and the wait
it answers never ends, so the instances have buckets of at least one token.

### Catalog

`products` holds a row, `Undefined` or `Deleted` per product id, `live` the brands, fitments and categories that exist,
`events` what the event bus has still to deliver, `task` the calls under way. An action is one read or one transaction:
`define` and `redefine` validate (`Validate`), resolve the search text (`ResolveText`) and write (`Define`, `Redefine`); a handler reads
the affected products (`Read`) and rewrites them whole in its transaction (`Rewrite`), with the acknowledgement maybe lost
(`Acknowledge`), a throw retried or given up (`Fail`), or its process dead (`Crash`). `late`, `twin`, `unannounced` are histories: a
reference that was already gone when its row was written, a second policy for one reference, what was deleted without an event
that names it. Repositories and the event bus are interfaces in this repository; the model takes a row update of a missing row
as no effect, and at-least-once delivery in any order.

What reading the code showed, and the model follows:

* `FitmentService.delete` saves `{ fitmentsId }` where the handler reads `fitmentsIds`: nothing is cleaned. The handlers of the single
  `FitmentDeleted` and `FitmentUpdated` events never run, nothing emits them.
* Deleting a category deletes its descendants, but the event names the root only; and the handler's filter keeps exactly the deleted
  category instead of removing it. `DanglingIsExplained` therefore leaves categories aside. The handler does not await its updates; they
  use the transaction's connection, so they still run before its commit.
* No handler cleans `manufacturerId`; it, bundle items and the warehouse's answer are not modelled (validation may refuse for their sake).
* `define` checks that the good has no product before it writes, `redefine` does not check: two products of one good are possible.
* `product-deletion.md` says a delete request only marks a product; `CatalogService.delete` deletes it.
* A markup policy of scope product cannot be created: `CatalogService.find` throws *Method not implemented*.

### Pricing and sales

`Pricing` is a module of operators, `Sales` the state machine over them. A sale takes three steps: it prices its cart from the usages and the
setting of that moment (`Price`), it looks at the setting again and validates the usages under the Redis lock (`Consume`), and it commits
(`Commit`), when its usages become visible. `Rollback` ends it at any step. `Return` is `recordReturn`. Money is decimal and unrounded in
the code; here it is an integer in a unit small enough for every division to be exact, and a rate is a number of `One`-ths (tenths
in the run). What `recordReturn` deducts and pays out, and the cashback, are kept in `One`-ths of that unit and never rounded.

Two assumptions go with this. `ExactPrices` says the unit is small enough for the discounts at hand, a discounted bundle has a price
above zero (the code divides by it) and a specific discount is not larger than the price. `DiscountsAssumption` is what the owner of the
shop enters and the code does not check: a discount shows at least what it really gives, a campaign shows less than the whole price.

What reading the code showed, and the model follows:

* Markup policies are re-keyed by their own id and then looked up by the id of what they refer to (`markup.service.ts:62-132`): the
  global rate is always used, contrary to the note at line 97.
* No sale can be priced in this commit: `recordSale` (`sale.service.ts:72`) and the markup lookup (`markup.service.ts:66`) call
  `CatalogService.findMany`, and the purchase prices come from `PurchaseRecordService.findManyLatestRecordByGoodId`; both throw *Method not
  implemented*. `Price` is what the code does with the answers once they are there.
* `commitDiscountUsages` spreads `requestedUsages.keys()` four times (lines 57-73), and `LineItems`, from a package that is not here, may
  answer with an array or with a Map's iterator, which is empty the second time. `KeysReusable` is this choice. With an iterator only the
  specific discounts are looked up: every campaign is *not found*, so its sale is refused, and earlier usages count as none, so a
  specific discount is limited per sale only. `OveruseIsBounded` is stated for keys that can be spread again.
* It passes `upsertMany` the quantity requested now; "going to update if discountId existed" (line 83) does not say whether the
  repository, an interface, adds it to the row or puts it in its place. `UpsertAdds` is this choice. The run adds. When it replaces, the limit
  bounds what the *latest* sale of each customer used: a later request, of no unit even, forgets what was used before.
* The lock `commitDiscountUsages` takes ends before the transaction of the sale commits, so sales that overlap in that window do not see each
  other's usage and together exceed a limit. `crowd` is the largest number of sales that were ever in the window at once, and
  `OveruseIsBounded` says what the overlap can cost: a limit is used at most `crowd` times over, in total and by each customer. For sales
  one after the other that is the limit itself. The run has overlapping sales that reach twice the limit.
* The POS passes a product's id as its good's id. Once a limit is exceeded, even a request for no unit is refused.
* `flattenInvoiceItems` keys lines by leaf: a leaf sold alone and inside a bundle keeps one of its lines, and the other's units do not leave
  the stock (`IssuedIsSold`). A component of a bundle is returnable as if one bundle had been sold.
* `recordReturn` does not look at earlier returns of the sale. `RefundsWithinPaid` is stated for returns that together return no unit
  twice; nothing in the code refuses the others. Cashback kept back is computed on every line, the discounted ones included, which earned none.
* A reversal policy with value 0 is refused as missing, so only `DeductFromRefund` reaches the code; the `cashback-reversal` key is never used twice.
* Expiry of usages is stored and never read. Wallet, tax, warehouse and catalog are interfaces that may refuse.

## Runs

| Run | Checks | Instance and bounds |
|---|---|---|
| `OutboxOrder` | `TypeOK`, `SeqFollowsCommit`, `PublishedInOrder`, `NoMessageLost`, `ImplementsQueue` | 2 messages of one key, 2 producers, 2 relays one tick apart, 2 attempts, a restart, a requeue; 554,562 states |
| `OutboxLeases` | `OneRelayPerKey`, `LeaseRespected` | 2 messages of one key, 2 relays with equal clocks, 2 attempts (so a reschedule), a crash, a requeue; 459,278 states |
| `OutboxLive` | `Drains` under `FairSpec` | 2 messages, 2 relays, 2 attempts, a restart, a requeue, `Prompt` relays; 39,790 states |
| `OutboxTwoAdds` | `NoLockCycle`, violated | 4 messages of 2 keys, 2 transactions with 2 adds |
| `Idempotency` | `TypeOK`, `OneEffectPerLife`, `ReplayIsGenuine`, `OnlyOwnerWrites`, `LocksEnd` | 3 attempts on one key, 2 fingerprints, odd durations; 92,161 states |
| `Payment` | `TypeOK`, `WalletSquare`, `WalletRefundExact`, `NothingCreditedTwice`, `FulfilledIsPaid`, `ChargedIsKept`, `OpenKeepsItsJob`, `ClosedStaysClosed`, `LeavesProcessing` | two callers and the worker, 2 settle attempts, 4 calls, a fault (crash, lost answer or lapse), amount 2, the repaired calls; 804,120 states |
| `PaymentUnserved` | `ExpiredIsMarked`, violated | the expiry job alone, `Served = {}`, no fault |
| `Labels` | `TypeOK`, `NumbersAccounted`, `OwnersExist`, `SlotsUnique`, `ReuseOnlyAtCeiling`, `NumberKeepsMeaning` | 2 owner rows, 2 sessions, ceilings 2 and 3, up to 2 labels per row, slots; 147,780 states |
| `RateLimit` | `TypeOK`, `NeverOverLimit`, `AnswersExact` | three pairs of rules over the four algorithms, 2 ticks a second, windows of 3 ticks, limit 2, a bucket of 2.5 tokens, 8 instants; 84,149 states |
| `Catalog` | `TypeOK`, `DanglingIsExplained`, `TextFollowsRefs`, and `BrandDeletionPropagates` under `FairSpec` | one product, a brand, a fitment, a category with a child, 2 callers, 2 handlers, 2 calls, 2 deletions, a fault; 542,107 states |
| `Sales` | `TypeOK`, `OveruseIsBounded`, `PaidIsRealDiscount`, `RefundsWithinPaid`, `IssuedIsSold` | two leaves and a bundle, a limited campaign, a limited and a hidden discount, 2 cashiers, 2 consumers and a merchant, 2 sales, 2 returns, a change of the setting, reusable keys, an upsert that adds; 296,786 states under symmetry |
| `SalesBeyondLimit` | `RegularPriceBeyondLimit`, violated | as `Sales` |

Why the bounds are enough. *Outbox*: the order within a key needs two siblings and two relays; two attempts
give a reschedule and a dead letter; one requeue is one old number that comes back. A third message of a key, a
middle row whose predecessor is skipped, is left to the theorems, which cover every other size.
*Idempotency*: an attempt that lost its lock, the one that took it over, and a retry. *Payment*: two
settle attempts are an old key and a new one; two callers and the worker are three calls at once, of which one may wait to remove the job while
the others go on; four calls are settle, cancel, settle again and a callback. One fault interrupts a call or takes its lock away;
two faults, and every other number of callers and calls, are left to the theorems. *Labels*: ceilings of 2 and 3 are
reached, so released numbers are used, and raised and lowered again; two sessions are an allocator and one that
releases meanwhile. The theorems cover every size. *Rate limit*: eight instants are more than two windows, so a count is
carried over and then dropped, keys expire, and the wait of a full window ends in the next; a window of 1.5 s makes the
rounding to seconds matter, and two rules of a request reject for different lengths of time. *Catalog*: two deletions let one
handler write back what the other removed, or throw for a fitment that is gone; two calls are a stale `redefine` next to them, or two
policies for one reference. A second product would meet the same handlers in a loop of its own. *Sales*: two sales are enough to race for a
limit; two returns return a sale in parts; the carts hold a leaf alone, twice, in a bundle, and both at once.

`CHECK_DEADLOCK FALSE` is set except for `Labels` and `RateLimit`, which never stop: with bounded inputs the other systems come to
rest, when every message is published, every request answered, the payment closed or every sale recorded. `Sales` uses symmetry of
cashiers and of consumers of one type; it checks no liveness.

### Fairness

* *Outbox*: relays take their next step (`OutboxModule` polls every second), transactions end, time
  passes. `Drains` also assumes `Prompt`, a batch done within its lease: the lease is 30 s, a
  publish is given up after 10 s. Without it a relay can lose every lease to its own slowness.
* *Idempotency*: handlers end or their process dies, Redis executes what reaches it, its clock runs.
* *Payment*: the worker and every call go on until they return or fail (a finite number of times,
  `MaxFaults`); Redis expires locks. No fairness of the customer, the gateway or the callback.

* *Catalog*: each consumer goes on with its events (the event bus keeps delivering what is not acknowledged); faults are finite
  (`MaxFaults`). Nothing is assumed of callers: a request may stop between two steps.

## Theorems (TLAPS)

### `OutboxProofs`

For every set of messages, keys, relays and producers, every clock difference, lease, limit and bound
(the assumption `ConstantsAssumption`):

* `TypeCorrect`: `Spec => []TypeOK`.
* `NumberedInCommitOrder`: `Spec => []SeqFollowsCommit`.
* `NothingLost`: `Spec => []NoMessageLost`.
* `KeyOrderKept`: `Spec => []PublishedInOrder`.
* `OutboxIsKeyedQueue`: `Spec => ImplementsQueue`, the refinement of `KeyedQueue`.
* `KeyHeldByOneRelay` and `LiveLeaseKept`, for relays whose clocks agree (`Synchronised`): `Spec => []OneRelayPerKey` and
  `Spec => LeaseRespected`.
* `OneAddNeverDeadlocks`: with one `add()` per transaction (`MaxAdds <= 1`), `Spec => [](NoWaitCycle /\ NoLockCycle)`: no group of
  transactions, of any size, waits in a circle. It is the case in which the comment of finding 1 is right.

The argument. `SeqFollowsCommit` is inductive with the facts in `SeqInv`: the advisory lock of a key is
held by the transaction with rows or a pending insert of that key, so whatever is inserted and not yet
visible has a larger number than whatever is visible. `RowInv` says where a message may be: rows,
dead letters, batches and writes hold visible messages, and a leased batch belongs to its relay.
`PublishedInOrder` is not inductive: leases may end at any time, and a relay may publish a message it
no longer owns. The strengthening is that *what a relay holds it holds from the front of the key*:
for a message in a relay's batch, every earlier message of its key is in the same batch, is being
written by that relay, was given back, or had its turn before (`BatchInOrder`, `WriteInOrder`,
`SettledInOrder`; together with `OwnRowsTogether`, which carries the same fact through the claim
transaction, they are `QueueOrder`). The claim establishes it: `LimitTakesOldest` says LIMIT takes the
oldest, `PredecessorExists` and `ClaimKeepsOlder` that the last look at the predecessors leaves a
front of the key. It does not use the leases, so the theorem holds for clocks that disagree and for
leases that end under their owner; these cost duplicates, never order.

The two theorems about leases add `LeaseInv`: a row that is being claimed has no lease left; a relay that gives a message back or sets
one aside keeps nothing else of its key; and the lease on an older row of a key outlasts the one on a row at work, because the
claim that took both gave them one end. What the holder is at work on (`AtWork`) is in its batch or in a write; a message it is giving
back is not, for its older sibling may have been rescheduled, whose lease ends with that write. Clocks that disagree break both:
a relay that runs ahead takes a lease its owner still counts on.

The locks: a transaction holds key locks only while its one `add()` is under way or done, and each is below every lock it still wants
(`LocksAscend`). In a group in which each waits for another, one waits for the highest lock; its holder would want a higher one.

### `LabelsProofs`

For every set of owner rows and sessions, every set of ceilings, with slots or without (`LabelsAssumption`):

* `Invariance`: `Spec => []Inv`; from it `TypeCorrect`, `NumbersAlwaysAccounted`, `OwnersAlwaysExist`,
  `SlotsAlwaysUnique`, and the action properties `ReusesOnlyAtCeiling` and `NumbersKeepMeaning`.

The argument. That the committed tables add up says nothing of what open transactions hold. `Inv` adds that the
*view of the session that holds the counter* adds up in the same way (`HolderAccounted`), that no other session
inserts or takes a number (`OnlyHolderInserts`: it only deletes committed rows, and releases their numbers), and that
no two sessions delete one row (`RowLocks`). A commit of the holder makes its view the committed state; a commit of
another moves released numbers from the labels to the pool, in the committed state and in the holder's view alike
(`Release`). An insert extends the view by a fresh number (`AddFresh`) or by one of the pool (`AddReleased`).
`OwnersLocked` and `HolderSlots` do the same for owner rows and slots. `ReuseOnlyAtCeiling` follows because a view in which
a number was taken from the pool is at its ceiling, which cannot move while the counter is locked.

### `CatalogProofs`

For every set of products, references, callers and consumers, every set of definitions and every bound (`CatalogAssumption`):

* `TypeCorrect`: `Spec => []TypeOK`.
* `TextAlwaysFollows`: `Spec => []TextFollowsRefs`.
* `DanglingAlwaysExplained`: `Spec => []DanglingIsExplained`.

The argument for the text: what exists only shrinks (`LiveShrinks`), so a row, or a row about to be written, whose text follows its
references goes on doing so however long it waits (`FollowsStill`); a stale row is as good as a fresh one, and the order in which
handlers and redefinitions overwrite one another does not matter (`TextInv`). The argument for dangling references: what an event
names is gone (`EventsGone`); a handler that has read holds every row, or a policy, that refers to what its event names, except those written after
the deletion, which say so (`RowsReadFirst`, and `PolicyReadFirst` with `Twins`: the handler of markup finds one policy per
reference). So an event that leaves the queue leaves nothing unexplained (`RowsExplained`, `PoliciesExplained`): what is
unexplained has its event still to come, and when none is left there is nothing.

### `IdempotencyProofs`

For every set of keys, attempts and fingerprints and every lock and response lifetime (`IdempotencyAssumption`):

* `TypeCorrect`: `Spec => []TypeOK`.
* `OneEffectPerLifetime`: `Spec => []OneEffectPerLife`.
* `ReplaysAreGenuine`: `Spec => []ReplayIsGenuine`.
* `OnlyOwnersWrite`: `Spec => OnlyOwnerWrites`.

The argument. Every record is the lock of an attempt on its own key, or the response of one that took effect (`RecordsMeant`); only an
attempt that took effect ever sends `complete`, and only one that did not sends `release` (`ScriptsMeant`). From its lock to its
expiry an attempt that took effect, or may, keeps the key (`KeyKept`), whatever scripts arrive late or twice: two effects
on a key without a lapse would be two owners of one record.

### `PaymentProofs`

For every set of callers, every amount, balance and bound, every set of served interfaces, with and without partial payment, lapsing locks
or recorded owners (`PaymentAssumption`):

* `TypeCorrect`: `Spec => []TypeOK`.
* `RefundsAreExact`: `Spec => []WalletRefundExact`.
* `WalletAlwaysSquare`, `NothingTwice`, `GoodsAreForMoney`, `OpenPaymentKeepsJob`: the invariants `WalletSquare`,
  `NothingCreditedTwice`, `FulfilledIsPaid`, `OpenKeepsItsJob`.
* `ChargesAreKept`: `~QueuesSettlement` implies `Spec => []ChargedIsKept`. A ticket in a settle queue is answered `failed` (see *Findings*).
* `ClosedForGood`: `Spec => ClosedStaysClosed`.

The argument has two layers. The first does not need the lock. A row of the payment, in the table or in the hands of a call, says what
its attempt took from the wallet (`RowsBacked`); an attempt to come, or one whose ticket was not charged yet, took nothing and no row
names it (`AttemptsFresh`). So money is taken for a fresh attempt only (`TakesMoney`), and what a call gives back it reads from a row
that is right about it (`GivesMoney`); the wallet's keys refuse the second time. That is `WalletRefundExact`, lapses included.
The second layer holds until a lock lapses. Calls exclude one another (`Exclusive`), so the row a call read is still the row
(`SeenAtEntry`), and what it learned of its ticket stays so until it acts on it (`TicketKnown`). Each transaction then keeps the books
(`Accounts`): a paid row has the whole amount, a refund is covered, a charged ticket is
the current attempt's. `JobKept` is the part for the expiry job: while the payment waits, its job is not gone, no call is about to
remove it, and the worker does not hold a row it read when the payment no longer waited. A call gets there only by closing the payment
(`DropsJob`), a closed payment is not opened again: `cancel` does that, and the row it read is the row, which is in processing.

### `Sums` and `SalesProofs`

For every set of products, bundles, markup policies, discounts, customers, cashiers and carts, every rate and every bound, under
`PricingAssumption`, `DiscountsAssumption`, `ExactPrices` and `SalesAssumption`:

* `SalesInvariance`: `Spec => []SalesInv`; from it `TypeCorrect`, `GoodsIssuedAreSold` (`IssuedIsSold`), `RealDiscountIsPaid`
  (`PaidIsRealDiscount`) and `RefundsBounded` (`RefundsWithinPaid`).
* `OveruseAlwaysBounded`: `Spec => []OveruseIsBounded`, for both readings of the upsert.

`SalesInv` says that every invoice, under way or recorded, is one that `priceInvoice` makes (`InvoiceOK`, line by line `LineOK`), although
the usages and the setting it was computed from are gone, and that every recorded return was computed from its sale (`Books`).
What a line costs is then arithmetic: the raised price less the larger discount is the real price less the real one (`ShownPrice`,
`PerUnit`), and a bundle's shares of the raise add up to the raise (`SharesAddUp`, `BundlePrice`). *Limits*: a sale that has validated its usages
requests no more than the limit (`Claim`), and was checked against everything committed by then; `LimitInv` says that what is committed and
what the sales in the window still want is together at most `crowd` times the limit. When a sale enters a window of *n* sales, each of
these adds at most one limit to the committed usage it saw (`ConsumeBounded`); a commit turns a claim into usage, or into less
(`CommitBounded`).
*Refunds*: the sum over the returns of what each refunds is, leaf by leaf, the unit price times what came back (`SumSwap`), hence
at most the refundable total, which is at most the total of the lines a leaf belongs to (`SumGrouped`); the cashback kept back is
computed on the same amounts at the rate of the sale (`KeptBackOfRefunded`).

The library defines a sum by a recursion over a CHOOSE of elements, and its induction theorems cannot be instantiated here. `Sums` proves
induction over the subsets of a finite set with the property given as a *set* (`FiniteInduction`), that the recursion has exactly one solution
(`FoldExists`, `FoldUnique`) and so that an element may be taken out of a sum in any order (`SumRemove`); the rest follows.

### `RateLimitProofs`

For every set of rules, every list of them, every limit, window, refill, resolution of the clock and horizon (`RateLimitAssumption`):

* `TypeCorrect`: `Spec => []TypeOK`.
* `NeverOver`: `Spec => []NeverOverLimit`.
* `AnswersAreExact`: `Spec => []AnswersExact`, when every bucket holds at least one token (`WholeTokens`). The code accepts a smaller one,
  which never lets a request pass; no wait is then the right answer.

The argument for the limits goes key by key. A step lets a request pass a key, resets it, lets it grow a tick older or leaves it alone (`Kinds`),
whatever else is in the list of rules; each algorithm relates what Redis holds under the key to the history of what passed. A *bucket*: for every past
instant, what passed since then and what the bucket holds now are within its capacity and the refill since then (`BucketCovers`);
the key does not expire before the bucket is full again (`BucketLives`), so an expiry gives no tokens away. A *fixed window*: the key
expires with its last window and counts what passed since that began (`InLast`). The *log* ends the list of all that passed, and
what it has not is too old for any window that contains the present (`LogEnds`, `RecentEnds`). The *counters* are those of the window
written last and of the one before, and the key outlives the window in which they still matter (`CounterCounts`, `WindowsCount`).

The answers are judged rule by rule: if nothing else happens, a rule that rejects lets the request in after `s` seconds exactly from
`s = retry` on (`LetsInAfter`), and one that lets it in goes on doing so (`LetsInFromNow`). A bucket refills (`BucketWaits`), a fixed
window ends (`FixedWaits`), the oldest entry of the log falls out (`LogWaits`); the counter's estimate falls within this window and, when
that is not enough, within the next, where this window's count is the one carried over (`CounterWaits`). The script answers with the
rule that rejects longest (`FirstBestExists`, `WorstExists`), so with the wait of all (`RetryIsExact`). A request that passes takes exactly one from every rule
(`RuleTakes`), and a rule lets a request in exactly if it has one available (`AvailableIsRoom`): so as many more pass
as the tightest rule answered (`RemainingIsExact`).

### What is model-checked only

Liveness: `BrandDeletionPropagates`, `LocksEnd`, `Drains` and `LeavesProcessing`, which is out of the prover's reach. Every invariant and every
action property of a passing run is proved.

## Findings

1. `OutboxTwoAdds`: "sorted, so two transactions locking the same keys can't deadlock"
   (`drizzle-outbox.store.ts:407`) holds within one `add()` only; `FulfillmentService.complete` adds
   twice in a transaction. Messages carry no key today, which hides it.
2. `PaymentUnserved`: "If the session expires without a successful payment, the order is marked as expired"
   (`payment.service.ts:28`). `expire()` marks it in one transaction with `cancelDelivery(payment.orderId)` (line 396), which looks the order's id
   up among the deliveries' ids (`delivery.service.ts:175`) and throws: the mark is rolled back, the job is tried three times and gives up, and
   the payment stays pending.
3. `SalesBeyondLimit`: "Any additional units purchased by the same customer are charged at the regular price"
   (`discount_is_a_value_not_an_entity.api.ts:19`). The units beyond a discount's limit are charged at the raised display price
   (`pricing.service.ts:355-377`): two bundles with a limit of one cost 1440 where two without any discount cost 1200.

Seen while reading, without a run of their own:

* `verifyPayment` answers `failed` for ticket status 9, the settle queue (`azkivam.gateway.ts:120`): when the process died between the
  gateway's verify and the transaction that records it, a later call takes a payment whose money was taken for a failed one. In this commit
  `cancelDelivery` throws before that is written. `QueuesSettlement = TRUE` is this gateway; `ChargesAreKept` excludes it.
* The note at `payment.service.ts:22` says the session survives a customer who cancels on the gateway's page; `verify` ends it as a
  failure (line 126).
* "owner_id is UNIQUE: an owner row has at most one label" (`create-label-table.ts:138`) has no counterpart: the constraint is
  commented out (line 183), and without a `slot` column no trigger limits the labels of a row, so `max_per_owner` is never read.
* The weekly schedule is a tuple that starts on Saturday and is indexed with `Date.getDay()`, whose zero is Sunday
  (`schedule.service.ts:91`).
* `markAsPaid` and `reject` of a settlement do not look at the request's status (`settlement.service.ts:95`).
* `FulfillmentService.cancel` leaves a pending or processing fulfillment as it is, and compares with `canceled_by_manager` where
  `cancelByManager` writes `canceled_by_merchant`.
* A stock row is deleted by a trigger when it reaches zero, and `StockRepository.increase` is a plain UPDATE: a release or a receipt that
  follows updates no row, and the goods are gone from the books. `decrease` sums repeated stocks for its check but its CASE takes
  the first of them only.
* The other markup, catalog and sales observations are in the sections of their modules.

## Not modelled

Reads without effect (`stats`, listings), formatting, validation of input shapes, HTTP wiring,
payload contents. PostgreSQL's own guarantees (atomic commit, advisory and row locks, READ
COMMITTED) and Redis's atomic scripts are assumed. Eviction and failover of Redis are left out: the
store asks for `noeviction`, and a failover that forgets a lock is a lapse of that lock. The parts
marked `not_modelled` in `PROJECT.json` are either in the plan below, or plain CRUD and I/O.

Parts of the repository that are unfinished in this commit are left out, because a model would have to invent what they do:

* *Order.* `OrderRepository.find` and `markAs` have no body; `cancelOrder` calls a payment, a fulfillment and a delivery that its class
  does not have, and refunds by a `sessionId` which `PaymentService.refund` does not take.
* *Delivery.* `deliver` sets no status and `confirmPickup` a courier without a status, which the check `deliveries_status_fields`
  refuses: a delivery cannot leave `pending`.
* *Warehouse.* Two generations stand side by side; items are written with a `stockId` that `movement_items` and `reservation_items` no
  longer have, `return` restocks a quantity of zero, the query API does not parse, and the purge job reads a column that is gone.
* *Procurement.* Editing and deleting a supply call methods that throw *Method not implemented*; `createManySuppliedRecord` drops the
  document's id.

## Plan

What is left, in this order:

1. `WarehouseFlow`, `OrderFlow`, `Delivery`, once their services fit the schema: stock is the sum of the movements, an order ends in one outcome
   with the money on the side the outcome says.
2. `Settlement` with the wallet's freezes.
3. Proofs about those; of what is modelled today, all safety properties are proved.
