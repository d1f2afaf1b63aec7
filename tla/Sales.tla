------------------------------- MODULE Sales -------------------------------
(***************************************************************************)
(* The point of sale: recordSale prices a cart, grants cashback and uses   *)
(* up discounts in one database transaction; recordReturn refunds items of *)
(* a sale.  The discount limits are checked under a Redis lock which is    *)
(* released before the sale's transaction commits.                         *)
(*                                                                         *)
(* A sale takes three actions: it prices (reading the usages and the       *)
(* cashback setting), it consumes (cashback.grant's second look at the     *)
(* setting, then commitDiscountUsages under the lock) and it commits.      *)
(* Catalog, warehouse, wallet and tax answer from interfaces: each may     *)
(* refuse, which rolls the transaction back.  Two of the lookups a price   *)
(* needs, CatalogService.findMany and findManyLatestRecordByGoodId, throw  *)
(* "Method not implemented." today: Price is what follows once they answer.*)
(*                                                                         *)
(* What commitDiscountUsages does rests on two things the repository does  *)
(* not hold: whether LineItems.keys(), which it spreads four times, can be *)
(* spread again, and whether upsertMany adds the quantity it is given to a *)
(* row or puts it in its place.  Both readings are constants.              *)
(***************************************************************************)
EXTENDS Pricing

CONSTANTS
  Cashier,
  Customers,     \* registered customers
  TypeOf,        \* [Customers -> {"consumer", "merchant"}]
  Carts,         \* the carts rung up: functions from products to quantities
  CashbackRates, \* settings the cashback rate is set to, in One-ths
  TaxRate,       \* what calculateTax takes, in One-ths
  KeysReusable,  \* TRUE: keys() is an array, FALSE: a Map's iterator, spread once
  UpsertAdds,    \* TRUE: upsertMany adds to the row, FALSE: replaces its quantity
  MaxSales,      \* bound: sales begun
  MaxReturns,    \* bound: returns recorded
  MaxSettings    \* bound: changes of the cashback setting

ASSUME SalesAssumption ==
  /\ IsFiniteSet(Cashier) /\ KeysReusable \in BOOLEAN /\ UpsertAdds \in BOOLEAN
  /\ IsFiniteSet(Customers) /\ None \notin Customers /\ TypeOf \in [Customers -> {"consumer", "merchant"}]
  /\ \A cart \in Carts : DOMAIN cart \subseteq Product /\ DOMAIN cart # {}
                         /\ \A p \in DOMAIN cart : cart[p] \in Nat \ {0}
  /\ CashbackRates \subseteq 0 .. One /\ TaxRate \in 0 .. One
  /\ MaxSales \in Nat /\ MaxReturns \in Nat /\ MaxSettings \in Nat

VARIABLES
  used,      \* [Customers \X DiscountIds -> Nat]: committed usages
  rate,      \* the cashback rate of consumers
  at,        \* [Cashier -> the sale under way]
  sales,     \* sequence of recorded sales
  returns,   \* sequence of recorded returns
  begun, settings,
  crowd      \* history: the most sales that were between check and commit at once

vars == <<used, rate, at, sales, returns, begun, settings, crowd>>

Idle == [step |-> "idle"]

Init ==
  /\ used = [u \in Customers \X DiscountIds |-> 0]
  /\ rate \in CashbackRates
  /\ at = [c \in Cashier |-> Idle]
  /\ sales = <<>> /\ returns = <<>>
  /\ begun = 0 /\ settings = 0 /\ crowd = 0

Put(c, s) == at' = [at EXCEPT ![c] = s]

----------------------------------------------------------------------------
(* Discount limits.                                                        *)

TotalUsed(id) == SumFunction([u \in Customers |-> used[<<u, id>>]])

(* calculateApplicableQuantity: never below zero. *)
Applicable(customer, d) ==
  IF d.maxTotal <= TotalUsed(d.id) \/ d.maxPerCustomer <= used[<<customer, d.id>>] THEN 0
  ELSE MinOf(d.maxTotal - TotalUsed(d.id), d.maxPerCustomer - used[<<customer, d.id>>])

(* collectRequestedUsages. *)
Requested(invoice, id) ==
  SumFunction([p \in DOMAIN invoice |-> IF id \in invoice[p].discount THEN invoice[p].offQty ELSE 0])

RequestedIds(invoice) == UNION {invoice[p].discount : p \in DOMAIN invoice}

\* Mutant of UsagesAllowed: what is requested now is not counted.
EarlierAllowed(customer, invoice) ==
  \A id \in RequestedIds(invoice) : LET d == DiscountOf(id) IN
    IsLimited(d) => TotalUsed(id) <= d.maxTotal /\ used[<<customer, id>>] <= d.maxPerCustomer

(* The lookups and validateRequestedUsages.  Once a limit is exceeded even *)
(* a request for no unit is refused.  The first spread of keys() goes to   *)
(* the specific discounts: of an iterator nothing is left for the others,  *)
(* so a campaign is "not found" and no earlier usage is.                   *)
UsagesAllowed(customer, invoice) ==
  \A id \in RequestedIds(invoice) :
    LET d == DiscountOf(id)
        total == IF KeysReusable THEN TotalUsed(id) ELSE 0
        own == IF KeysReusable THEN used[<<customer, id>>] ELSE 0
    IN /\ KeysReusable \/ d.kind = "specific"
       /\ IsLimited(d) => /\ Requested(invoice, id) + total <= d.maxTotal
                          /\ Requested(invoice, id) + own <= d.maxPerCustomer

----------------------------------------------------------------------------
(* recordSale.                                                             *)

CashbackRate(customer) ==
  IF customer = None \/ TypeOf[customer] = "merchant" THEN 0 ELSE rate

Price(c) ==
  /\ at[c] = Idle /\ begun < MaxSales /\ begun' = begun + 1
  /\ \E cart \in Carts, customer \in Customers \cup {None} :
       LET type == IF customer = None THEN "none" ELSE TypeOf[customer]
           left == [id \in DiscountIds |-> IF customer = None THEN 0 ELSE Applicable(customer, DiscountOf(id))]
           invoice == PriceInvoice(cart, type, left)
       IN Put(c, [step |-> "priced", customer |-> customer, invoice |-> invoice,
                  rate |-> CashbackRate(customer)])
  /\ UNCHANGED <<used, rate, sales, returns, settings, crowd>>

(* Sales that have validated their usages and not committed. *)
Validated == {c \in Cashier : at[c].step = "consumed"}

(* grant() refuses when the setting is no longer the previewed one, and    *)
(* commitDiscountUsages when a usage exceeds what the commits so far left. *)
Consume(c) ==
  /\ at[c].step = "priced"
  /\ at[c].customer # None => /\ CashbackRate(at[c].customer) = at[c].rate
                              /\ UsagesAllowed(at[c].customer, at[c].invoice)
  /\ Put(c, [at[c] EXCEPT !.step = "consumed"])
  /\ crowd' = IF Cardinality(Validated) < crowd THEN crowd ELSE Cardinality(Validated) + 1
  /\ UNCHANGED <<used, rate, sales, returns, begun, settings>>

(* Everything the transaction wrote becomes visible, upsertMany's rows     *)
(* included.                                                               *)
Commit(c) ==
  LET s == at[c] IN
  /\ s.step = "consumed"
  /\ \E last \in [LeavesOf(s.invoice) -> DOMAIN s.invoice] :
       /\ \A l \in DOMAIN last : last[l] \in LinesOf(s.invoice, l)
       /\ sales' = Append(sales,
            [customer |-> s.customer, invoice |-> s.invoice, rate |-> s.rate,
             cashback |-> EligibleAmount(s.invoice) * s.rate,
             issued |-> FlattenInvoice(s.invoice, last),
             refundable |-> Refundable(s.invoice, last)])
  /\ used' = [u \in DOMAIN used |->
       IF u[1] = s.customer /\ u[2] \in RequestedIds(s.invoice)
       THEN Requested(s.invoice, u[2]) + IF UpsertAdds THEN used[u] ELSE 0
       ELSE used[u]]
  /\ Put(c, Idle)
  /\ UNCHANGED <<rate, returns, begun, settings, crowd>>

(* A refusal, an error or a crash before the commit: rolled back. *)
Rollback(c) ==
  /\ at[c] # Idle /\ Put(c, Idle)
  /\ UNCHANGED <<used, rate, sales, returns, begun, settings, crowd>>

(* The owner changes the setting between two steps of a sale. *)
SetCashbackRate(r) ==
  /\ settings < MaxSettings /\ settings' = settings + 1
  /\ r # rate /\ rate' = r
  /\ UNCHANGED <<used, at, sales, returns, begun, crowd>>

----------------------------------------------------------------------------
(* recordReturn.  What is a share of an amount, cashback, tax and what is   *)
(* payable after them, is in One-ths of the unit of money: never rounded.  *)

\* Mutant: nothing is deducted for the cashback granted.
NothingDeducted(sale, refund) == 0

(* processCashbackReversal gets lines without their discount: every line   *)
(* counts.  DeductFromRefund is the only policy a request can carry: the   *)
(* other one's value is 0, which the check takes for none.                 *)
Deducted(sale, refund) == IF sale.customer = None THEN 0 ELSE refund * sale.rate

(* The tax in grandTotal's proportion is kept back. *)
KeptTax(refund) == refund * TaxRate

(* A payable amount below zero is refused; nothing looks at the returns    *)
(* recorded before.  Money goes out by payoff, or to the customer's        *)
(* wallet, which refuses a deposit of zero.                                *)
Return(s, items, payoff) ==
  LET sale == sales[s]
      refund == RefundOf(sale.refundable, items)
      deducted == Deducted(sale, refund)
      payable == refund * One - deducted - KeptTax(refund)
  IN
  /\ Len(returns) < MaxReturns
  /\ \A l \in DOMAIN items : items[l] <= sale.refundable[l].qty
  /\ payable >= 0
  /\ payoff \/ (sale.customer # None /\ payable > 0)
  /\ returns' = Append(returns, [sale |-> s, items |-> items, refund |-> refund,
                                 deducted |-> deducted, payable |-> payable])
  /\ UNCHANGED <<used, rate, at, sales, begun, settings, crowd>>

(* Requests for one leaf or all of them, one unit or all. *)
ReturnItems(sale) ==
  LET all == DOMAIN sale.refundable IN
  {[l \in ls |-> IF whole THEN sale.refundable[l].qty ELSE 1] :
     ls \in {{l} : l \in all} \cup {all}, whole \in BOOLEAN}

Next ==
  \/ \E c \in Cashier : Price(c) \/ Consume(c) \/ Commit(c) \/ Rollback(c)
  \/ \E r \in CashbackRates : SetCashbackRate(r)
  \/ \E s \in DOMAIN sales : \E items \in ReturnItems(sales[s]), payoff \in BOOLEAN :
       Return(s, items, payoff)

Spec == Init /\ [][Next]_vars

----------------------------------------------------------------------------
TypeOK ==
  /\ used \in [Customers \X DiscountIds -> Nat]
  /\ rate \in CashbackRates
  /\ \A c \in Cashier : at[c].step \in {"idle", "priced", "consumed"}
  /\ \A i \in DOMAIN sales : LET s == sales[i] IN
       /\ s.customer \in Customers \cup {None}
       /\ \A p \in DOMAIN s.invoice : s.invoice[p].total \in Nat /\ s.invoice[p].off \in Nat
       /\ DOMAIN s.issued = LeavesOf(s.invoice) /\ DOMAIN s.refundable = LeavesOf(s.invoice)
  /\ \A i \in DOMAIN returns : returns[i].sale \in DOMAIN sales /\ returns[i].payable \in Nat
  /\ begun \in 0 .. MaxSales /\ settings \in 0 .. MaxSettings /\ crowd \in Nat

(* The lock of commitDiscountUsages ends before the commit, so sales that  *)
(* overlap may together use a discount beyond its limits; but each limit   *)
(* at most as many times over as there ever were sales between check and   *)
(* commit at once.  Sales one after the other never exceed it, however old *)
(* the quantities they were priced with are.                               *)
OveruseIsBounded ==
  KeysReusable => \A d \in Discounts : IsLimited(d) =>
    /\ TotalUsed(d.id) <= crowd * d.maxTotal
    /\ \A c \in Customers : used[<<c, d.id>>] <= crowd * d.maxPerCustomer

(* What a customer pays for units the discount covers is the real price    *)
(* less the real discount, although the invoice shows a raised price and a *)
(* larger discount; and a bundle costs what its components add up to.      *)
PaidIsRealDiscount ==
  \A i \in DOMAIN sales : \A p \in DOMAIN sales[i].invoice :
    LET s == sales[i]  line == s.invoice[p]
        type == IF s.customer = None THEN "consumer" ELSE TypeOf[s.customer]
        real == RealPrice(p, resolvePolicy(type)) IN
    /\ line.discount = {} => line.total = real * line.qty
    /\ \A id \in line.discount : line.offQty = line.qty =>
         LET d == DiscountOf(id) IN
         line.total = IF d.kind = "campaign" THEN (real * (One - d.real) * line.qty) \div One
                      ELSE (real - d.real) * line.qty
    /\ p \in Bundle => line.unit = BundleUnitPrice(line.kids)

ReturnsOf(s) == {i \in DOMAIN returns : returns[i].sale = s}
Returned(s, l) ==
  SumFunction([i \in ReturnsOf(s) |-> IF l \in DOMAIN returns[i].items THEN returns[i].items[l] ELSE 0])
Refunded(s) == SumFunction([i \in ReturnsOf(s) |-> returns[i].refund])
KeptBack(s) == SumFunction([i \in ReturnsOf(s) |-> returns[i].deducted])

(* As long as no unit is returned twice, a sale's refunds never exceed     *)
(* what was paid for it; and when everything has come back, the cashback   *)
(* kept back covers what was granted.  recordReturn does not look at       *)
(* earlier returns, a component of a bundle is returnable once however     *)
(* many bundles were sold, and a leaf in two lines at one line's price.    *)
RefundsWithinPaid ==
  \A s \in DOMAIN sales :
    LET sale == sales[s]  sold == sale.refundable IN
    (\A l \in DOMAIN sold : Returned(s, l) <= sold[l].qty) =>
      /\ Refunded(s) <= GrandTotal(sale.invoice)
      /\ Refunded(s) = GrandTotal(sale.invoice) => KeptBack(s) >= sale.cashback

(* The goods issued for a sale are the units it sold, unless a leaf is in  *)
(* two of its lines: then only the later line's units leave the stock.     *)
IssuedIsSold ==
  \A i \in DOMAIN sales : \A l \in DOMAIN sales[i].issued :
    LET s == sales[i]  lines == LinesOf(s.invoice, l)
        sold == SumFunction([p \in lines |-> UnitsIn(s.invoice, p, l)]) IN
    /\ s.issued[l] <= sold
    /\ Cardinality(lines) = 1 => s.issued[l] = sold

(* Units beyond a discount's limit are charged at the regular price, as    *)
(* discount.api says; in the code they cost the raised display price.      *)
RegularPriceBeyondLimit ==
  \A i \in DOMAIN sales : \A p \in DOMAIN sales[i].invoice :
    \A id \in sales[i].invoice[p].discount :
      LET line == sales[i].invoice[p] IN
      line.offQty < line.qty =>
        line.total <= line.qty * RealPrice(p, resolvePolicy(TypeOf[sales[i].customer]))

=============================================================================
