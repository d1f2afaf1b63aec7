------------------------------ MODULE Pricing ------------------------------
(***************************************************************************)
(* How features/store prices an invoice: markup of each leaf product,      *)
(* discounts shown larger than they are (a "display" discount on a raised  *)
(* price gives the "real" one), the components of a bundle, and what a     *)
(* return of sold items refunds.                                           *)
(*                                                                         *)
(* Money in the code is decimal and not rounded.  Here it is an integer in *)
(* a unit small enough that every division is exact, and a rate is an      *)
(* integer number of One-ths.  The point of sale takes a product's id for  *)
(* its good's, so does this.                                               *)
(***************************************************************************)
EXTENDS Naturals, Sequences, FiniteSets, Functions

CONSTANTS
  Leaf,           \* leaf products
  Bundle,         \* bundle products
  Items,          \* [Bundle -> [a set of leaves -> quantity]]
  PurchasePrice,  \* [Leaf -> Nat]
  References,     \* [Leaf -> [brand, categories (a sequence)]]
  MarkupPolicies, \* set of [id, scope, ref, rate, priority], one per id
  GlobalRate,     \* [{"retail", "wholesale"} -> Nat]
  Discounts,      \* set of [id, product, kind, display, real, maxTotal, maxPerCustomer]
  Unlimited,      \* maxTotal of a discount without a limit
  One,            \* the rate 1: rates are in One-ths
  None

Product  == Leaf \cup Bundle

ASSUME PricingAssumption ==
  /\ IsFiniteSet(Leaf) /\ IsFiniteSet(Bundle)
  /\ Leaf \cap Bundle = {} /\ None \notin Leaf \cup Bundle /\ One \in Nat \ {0}
  /\ PurchasePrice \in [Leaf -> Nat] /\ GlobalRate \in [{"retail", "wholesale"} -> Nat]
  /\ \A m \in MarkupPolicies : m.rate \in Nat
  /\ \A b \in Bundle : /\ DOMAIN Items[b] \subseteq Leaf /\ DOMAIN Items[b] # {}
                       /\ \A l \in DOMAIN Items[b] : Items[b][l] \in Nat \ {0}

(* What the owner of the shop enters; the code checks none of it.  A       *)
(* discount shows at least what it really gives, and a campaign less than  *)
(* the whole price.                                                        *)
ASSUME DiscountsAssumption ==
  /\ \A x, y \in Discounts : x.id = y.id => x = y
  /\ \A x \in Discounts :
       /\ x.product \in Product /\ x.kind \in {"specific", "campaign"}
       /\ x.real \in Nat /\ x.display \in Nat /\ x.real <= x.display
       /\ x.maxTotal \in Nat /\ x.maxPerCustomer \in Nat
       /\ x.kind = "campaign" => x.display < One

DiscountIds == {d.id : d \in Discounts}
DiscountOf(id) == CHOOSE d \in Discounts : d.id = id
IsLimited(d) == d.maxTotal # Unlimited

MinOf(a, b) == IF a <= b THEN a ELSE b

resolvePolicy(customerType) == IF customerType = "merchant" THEN "wholesale" ELSE "retail"

----------------------------------------------------------------------------
(* MarkupPolicyService.resolveMany: product, then the category or brand of *)
(* higher priority, then global.  The policies found are keyed by their    *)
(* own id and looked up by the id of what they refer to.                   *)

Policy(scope, key) == {m \in MarkupPolicies : m.scope = scope /\ m.id = key}

(* The first of the categories' policies of highest priority, in a set. *)
CategoryPolicy(categories) ==
  LET found == {i \in DOMAIN categories : Policy("category", categories[i]) # {}}
      at(i) == CHOOSE m \in Policy("category", categories[i]) : TRUE
      best == {i \in found : \A j \in found :
                 \/ at(i).priority > at(j).priority
                 \/ at(i).priority = at(j).priority /\ i <= j}
  IN {at(i) : i \in best}

HigherPriority(a, b) ==
  IF a = {} THEN b ELSE IF b = {} THEN a
  ELSE IF \E m \in a, n \in b : m.priority >= n.priority THEN a ELSE b

MarkupRate(leaf, variant) ==
  LET refs == References[leaf]
      own == Policy("product", leaf)
      scoped == HigherPriority(CategoryPolicy(refs.categories), Policy("brand", refs.brand))
      chosen == IF own # {} THEN own ELSE scoped
  IN IF variant = "wholesale" \/ chosen = {} THEN GlobalRate[variant]
     ELSE (CHOOSE m \in chosen : TRUE).rate

----------------------------------------------------------------------------
(* Prices.  A discount is {} or {d}.                                       *)

RealUnitPrice(leaf, variant) == (PurchasePrice[leaf] * (One + MarkupRate(leaf, variant))) \div One

RealPrice(product, variant) ==
  IF product \in Leaf THEN RealUnitPrice(product, variant)
  ELSE SumFunction([l \in DOMAIN Items[product] |-> RealUnitPrice(l, variant) * Items[product][l]])

\* Mutant: the raised price makes up for the display discount alone.
DisplayForgetsReal(real, d) ==
  IF d.kind = "campaign" THEN (real * One) \div (One - d.display)
  ELSE real + d.display

calculateDisplayPrice(real, d) ==
  IF d.kind = "campaign" THEN (real * (One - d.real)) \div (One - d.display)
  ELSE real + (d.display - d.real)

The(discount) == CHOOSE d \in discount : TRUE

DisplayPrice(real, discount) ==
  IF discount = {} THEN real ELSE calculateDisplayPrice(real, The(discount))

(* calculateBundleDisplayItems: with a discount, the rise goes to the      *)
(* components by value.                                                    *)
DisplayUnitPrice(leaf, bundle, variant, discount) ==
  LET real == RealPrice(bundle, variant)
      rise == DisplayPrice(real, discount) - real
      unit == RealUnitPrice(leaf, variant)
  IN IF discount = {} THEN unit ELSE unit + (rise * unit) \div real

DisplayComponents(bundle, variant, discount) ==
  [l \in DOMAIN Items[bundle] |->
     [qty |-> Items[bundle][l], unit |-> DisplayUnitPrice(l, bundle, variant, discount)]]

BundleUnitPrice(kids) == SumFunction([l \in DOMAIN kids |-> kids[l].unit * kids[l].qty])

(* The unit of money is as small as the header says, a discounted bundle   *)
(* costs something (the code divides by its price) and a discount per unit *)
(* is at most the price, which the code does not check either.             *)
ASSUME ExactPrices ==
  \A d \in Discounts :
    LET real == RealPrice(d.product, "retail")
        shown == calculateDisplayPrice(real, d)
    IN
    /\ d.kind = "campaign" => /\ (real * (One - d.real)) % (One - d.display) = 0
                              /\ (shown * d.display) % One = 0
    /\ d.kind = "specific" => d.real <= real
    /\ d.product \in Bundle =>
         /\ real > 0
         /\ \A l \in DOMAIN Items[d.product] :
              ((shown - real) * RealUnitPrice(l, "retail")) % real = 0

(* findManyApplicableDiscount: none for merchants, a specific discount     *)
(* before a campaign; of several of a kind for one product, one.           *)
DiscountFor(product, variant) ==
  LET of(kind) == {d \in Discounts : d.product = product /\ d.kind = kind}
      found == IF of("specific") # {} THEN of("specific") ELSE of("campaign")
  IN IF variant = "wholesale" \/ found = {} THEN {} ELSE {CHOOSE d \in found : TRUE}

(* How many of qty units a discount covers, applicable[id] being what a    *)
(* limited one may still be used for, and what it takes off a unit.        *)
DiscountedQuantity(d, qty, applicable) ==
  IF IsLimited(d) THEN MinOf(applicable[d.id], qty) ELSE qty

DiscountPerUnit(d, unit) ==
  IF d.kind = "campaign" THEN (unit * d.display) \div One ELSE d.display

PriceLine(product, qty, variant, discount, applicable) ==
  LET kids == IF product \in Bundle THEN DisplayComponents(product, variant, discount) ELSE <<>>
      unit == IF product \in Bundle THEN BundleUnitPrice(kids)
              ELSE DisplayPrice(RealPrice(product, variant), discount)
      offQty == IF discount = {} THEN 0 ELSE DiscountedQuantity(The(discount), qty, applicable)
      off == IF discount = {} THEN 0 ELSE DiscountPerUnit(The(discount), unit) * offQty
  IN [qty |-> qty, unit |-> unit, kids |-> kids, discount |-> {d.id : d \in discount},
      offQty |-> offQty, off |-> off, total |-> unit * qty - off]

(* priceInvoice for a customer, or None: no customer, no discount. *)
PriceInvoice(cart, customerType, applicable) ==
  LET variant == resolvePolicy(customerType) IN
  [p \in DOMAIN cart |->
     PriceLine(p, cart[p], variant,
               IF customerType = "none" THEN {} ELSE DiscountFor(p, variant), applicable)]

GrandTotal(invoice) == SumFunction([p \in DOMAIN invoice |-> invoice[p].total])

(* resolveCashbackEligibleAmount over an invoice: undiscounted lines only. *)
EligibleAmount(invoice) ==
  SumFunction([p \in DOMAIN invoice |-> IF invoice[p].off > 0 THEN 0 ELSE invoice[p].total])

----------------------------------------------------------------------------
(* Items of an invoice by leaf.  Both functions build LineItems keyed by   *)
(* the leaf: a later line for a leaf replaces an earlier one.  The order   *)
(* of the lines is the catalog's answer's: any line may be the last.       *)

LinesOf(invoice, leaf) ==
  {p \in DOMAIN invoice : p = leaf \/ (p \in Bundle /\ leaf \in DOMAIN invoice[p].kids)}

LeavesOf(invoice) == {l \in Leaf : LinesOf(invoice, l) # {}}

(* Units of a leaf that line p sells. *)
UnitsIn(invoice, p, leaf) ==
  IF p = leaf THEN invoice[p].qty ELSE invoice[p].qty * invoice[p].kids[leaf].qty

\* Mutant: a component's units are not multiplied by the bundles sold.
FlattenOneBundle(invoice, last) ==
  [l \in DOMAIN last |-> IF last[l] = l THEN invoice[l].qty ELSE invoice[last[l]].kids[l].qty]

(* flattenInvoiceItems, last[leaf] being the line that comes last. *)
FlattenInvoice(invoice, last) == [l \in DOMAIN last |-> UnitsIn(invoice, last[l], l)]

\* Mutant: the components of bundles are forgotten.
RefundableNoComponents(invoice, last) ==
  [l \in {k \in DOMAIN last : last[k] = k} |-> [qty |-> invoice[l].qty, total |-> invoice[l].total]]

(* flattenRefundableItems: a component keeps its quantity in ONE bundle    *)
(* and gets the bundle's average discount.                                 *)
Refundable(invoice, last) ==
  [l \in DOMAIN last |->
     LET p == last[l]  line == invoice[p] IN
     IF p = l THEN [qty |-> line.qty, total |-> line.total]
     ELSE LET childTotal == line.kids[l].unit * line.kids[l].qty IN
          [qty |-> line.kids[l].qty,
           total |-> IF line.discount = {} THEN childTotal
                     ELSE (childTotal * line.total) \div (line.unit * line.qty)]]

(* computeRefundableLine, summed over the returned items. *)
RefundOf(refundable, items) ==
  SumFunction([l \in DOMAIN items |-> (refundable[l].total * items[l]) \div refundable[l].qty])

=============================================================================
