----------------------------- MODULE SalesProofs -----------------------------
(***************************************************************************)
(* Proofs about Sales, for any catalog, prices, markups, discounts, carts, *)
(* customers and cashiers: what a line of an invoice costs, what a sale    *)
(* issues and refunds, and how far sales that overlap can take a discount  *)
(* beyond its limits.                                                      *)
(***************************************************************************)
EXTENDS Sales, Sums, SequenceTheorems, TLAPS

Assumptions == PricingAssumption /\ DiscountsAssumption /\ ExactPrices /\ SalesAssumption

LEMMA AssumptionsHold == Assumptions
BY PricingAssumption, DiscountsAssumption, ExactPrices, SalesAssumption DEF Assumptions

-----------------------------------------------------------------------------
(* Arithmetic: divisions that leave no rest, and divisions that round.     *)
LEMMA ProductNat ==
  ASSUME NEW a \in Nat, NEW b \in Nat
  PROVE  a * b \in Nat
OBVIOUS

LEMMA ProductMono ==
  ASSUME NEW a \in Int, NEW b \in Int, NEW c \in Nat, a <= b
  PROVE  a * c <= b * c /\ c * a <= c * b
OBVIOUS

LEMMA ProductCancel ==
  ASSUME NEW a \in Int, NEW b \in Int, NEW c \in Nat \ {0}, c * a <= c * b
  PROVE  a <= b
<1> SUFFICES ASSUME a >= b + 1 PROVE FALSE
  OBVIOUS
<1>1. c * a >= c * (b + 1)
  BY ProductMono
<1>2. c * (b + 1) = c * b + c
  OBVIOUS
<1> QED
  BY <1>1, <1>2

LEMMA ProductCancelEqual ==
  ASSUME NEW a \in Int, NEW b \in Int, NEW c \in Nat \ {0}, c * a = c * b
  PROVE  a = b
<1>1. a <= b
  BY ProductCancel
<1>2. b <= a
  BY ProductCancel
<1> QED
  BY <1>1, <1>2

LEMMA DivExact ==
  ASSUME NEW a \in Int, NEW b \in Nat \ {0}, a % b = 0
  PROVE  a \div b \in Int /\ b * (a \div b) = a
OBVIOUS

LEMMA DivFloor ==
  ASSUME NEW a \in Nat, NEW b \in Nat \ {0}
  PROVE  a \div b \in Nat /\ b * (a \div b) <= a
OBVIOUS

(* Shares of a whole, rounded down, add up to no more than the whole.      *)
LEMMA SharesAddUp ==
  ASSUME NEW S, IsFiniteSet(S), NEW whole \in Nat, NEW parts \in Nat \ {0},
         NEW x, \A i \in S : x[i] \in Nat, SumFunctionOnSet(x, S) <= parts,
         NEW share, \A i \in S : share[i] = (whole * x[i]) \div parts
  PROVE  SumFunctionOnSet(share, S) <= whole
<1> DEFINE ps == [i \in S |-> parts * share[i]]
           wx == [i \in S |-> whole * x[i]]
           a == SumFunctionOnSet(share, S)
           b == SumFunctionOnSet(x, S)
<1>1. ASSUME NEW i \in S PROVE share[i] \in Nat /\ parts * share[i] <= whole * x[i] /\ whole * x[i] \in Nat
  <2>1. whole * x[i] \in Nat
    BY ProductNat
  <2> QED
    BY <2>1, DivFloor
<1>2. \A i \in S : ps[i] \in Int /\ wx[i] \in Int /\ ps[i] <= wx[i]
  <2> SUFFICES ASSUME NEW i \in S PROVE ps[i] \in Int /\ wx[i] \in Int /\ ps[i] <= wx[i]
    OBVIOUS
  <2>1. share[i] \in Nat /\ parts * share[i] <= whole * x[i] /\ whole * x[i] \in Nat
    BY <1>1
  <2>2. parts * share[i] \in Nat
    BY <2>1, ProductNat
  <2> QED
    BY <2>1, <2>2
<1>3. \A i \in S : ps[i] = parts * share[i] /\ wx[i] = whole * x[i] /\ share[i] \in Int /\ x[i] \in Int
  BY <1>1
<1> HIDE DEF ps, wx
<1>4. SumFunctionOnSet(ps, S) = parts * a /\ SumFunctionOnSet(wx, S) = whole * b
  <2>1. SumFunctionOnSet(ps, S) = parts * SumFunctionOnSet(share, S)
    BY <1>3, SumTimes
  <2>2. whole \in Int /\ \A i \in S : x[i] \in Int /\ wx[i] = whole * x[i]
    BY <1>3
  <2>3. SumFunctionOnSet(wx, S) = whole * SumFunctionOnSet(x, S)
    BY <2>2, SumTimes
  <2> QED
    BY <2>1, <2>3
<1>5. SumFunctionOnSet(ps, S) <= SumFunctionOnSet(wx, S)
  BY <1>2, SumMono
<1>6. a \in Int /\ b \in Nat /\ b <= parts
  BY <1>3, SumType, SumNat
<1> HIDE DEF a, b
<1>7. whole * b <= whole * parts
  BY <1>6, ProductMono
<1>8. parts * a <= parts * whole
  <2>1. parts * a <= whole * b
    BY <1>4, <1>5
  <2> QED
    BY <2>1, <1>6, <1>7
<1>9. a <= whole
  BY <1>6, <1>8, ProductCancel
<1> QED
  BY <1>9 DEF a

LEMMA DivOfMultiple ==
  ASSUME NEW a \in Int, NEW b \in Nat \ {0}
  PROVE  (b * a) \div b = a
OBVIOUS

-----------------------------------------------------------------------------
(* Prices.                                                                 *)
LEMMA FiniteProducts ==
  /\ \A S \in SUBSET Product : IsFiniteSet(S)
  /\ \A b \in Bundle : IsFiniteSet(DOMAIN Items[b]) /\ DOMAIN Items[b] \subseteq Leaf
<1>1. IsFiniteSet(Product)
  BY AssumptionsHold, FS_Union DEF Assumptions, PricingAssumption, Product
<1>2. \A S \in SUBSET Product : IsFiniteSet(S)
  BY <1>1, FS_Subset
<1> QED
  BY <1>2, AssumptionsHold DEF Assumptions, PricingAssumption, Product

LEMMA MarkupRateType ==
  ASSUME NEW leaf \in Leaf, NEW variant \in {"retail", "wholesale"}
  PROVE  MarkupRate(leaf, variant) \in Nat
<1> DEFINE refs == References[leaf]
           own == Policy("product", leaf)
           category == CategoryPolicy(refs.categories)
           brand == Policy("brand", refs.brand)
           scoped == HigherPriority(category, brand)
           chosen == IF own # {} THEN own ELSE scoped
<1>1. own \subseteq MarkupPolicies /\ brand \subseteq MarkupPolicies
  BY DEF Policy
<1>2. category \subseteq MarkupPolicies
  <2> DEFINE cs == refs.categories
             found == {i \in DOMAIN cs : Policy("category", cs[i]) # {}}
             at1(i) == CHOOSE m \in Policy("category", cs[i]) : TRUE
  <2>1. \A i \in found : at1(i) \in MarkupPolicies
    BY DEF Policy
  <2> QED
    BY <2>1 DEF CategoryPolicy
<1>3. scoped \subseteq MarkupPolicies
  <2> HIDE DEF category, brand
  <2> QED
    BY <1>1, <1>2 DEF HigherPriority
<1>4. chosen \subseteq MarkupPolicies
  BY <1>1, <1>3
<1>5. MarkupRate(leaf, variant) = IF variant = "wholesale" \/ chosen = {} THEN GlobalRate[variant]
                                  ELSE (CHOOSE m \in chosen : TRUE).rate
  BY DEF MarkupRate
<1> HIDE DEF chosen
<1> QED
  BY <1>4, <1>5, AssumptionsHold DEF Assumptions, PricingAssumption

LEMMA RealUnitPriceType ==
  ASSUME NEW leaf \in Leaf, NEW variant \in {"retail", "wholesale"}
  PROVE  RealUnitPrice(leaf, variant) \in Nat
<1>1. One \in Nat \ {0} /\ PurchasePrice[leaf] \in Nat
  BY AssumptionsHold DEF Assumptions, PricingAssumption
<1>2. One + MarkupRate(leaf, variant) \in Nat
  BY <1>1, MarkupRateType
<1>3. PurchasePrice[leaf] * (One + MarkupRate(leaf, variant)) \in Nat
  BY <1>1, <1>2, ProductNat
<1> QED
  BY <1>1, <1>3, DivFloor DEF RealUnitPrice

LEMMA RealPriceType ==
  ASSUME NEW p \in Product, NEW variant \in {"retail", "wholesale"}
  PROVE  RealPrice(p, variant) \in Nat
<1>1. CASE p \in Leaf
  BY <1>1, RealUnitPriceType DEF RealPrice
<1>2. CASE p \notin Leaf
  <2> DEFINE f == [l \in DOMAIN Items[p] |-> RealUnitPrice(l, variant) * Items[p][l]]
  <2>1. p \in Bundle
    BY <1>2 DEF Product
  <2>2. \A l \in DOMAIN Items[p] : f[l] \in Nat
    <3> SUFFICES ASSUME NEW l \in DOMAIN Items[p] PROVE RealUnitPrice(l, variant) * Items[p][l] \in Nat
      OBVIOUS
    <3>1. l \in Leaf /\ Items[p][l] \in Nat
      BY <2>1, AssumptionsHold DEF Assumptions, PricingAssumption
    <3> QED
      BY <3>1, RealUnitPriceType, ProductNat
  <2>3. RealPrice(p, variant) = SumFunctionOnSet(f, DOMAIN Items[p])
    BY <1>2 DEF RealPrice, SumFunction
  <2> HIDE DEF f
  <2> QED
    BY <2>1, <2>2, <2>3, SumNat, FiniteProducts
<1> QED
  BY <1>1, <1>2

(* The raised price: never below the real one, and the discount shown takes *)
(* from it what the real discount takes from the real one.                  *)
LEMMA ShownPrice ==
  ASSUME NEW d \in Discounts, NEW real, real = RealPrice(d.product, "retail"),
         NEW shown, shown = calculateDisplayPrice(real, d)
  PROVE  /\ real \in Nat /\ shown \in Nat /\ real <= shown
         /\ d.kind = "campaign" => shown * (One - d.display) = real * (One - d.real)
         /\ d.kind = "specific" => shown = real + (d.display - d.real)
<1>1. real \in Nat
  BY RealPriceType, AssumptionsHold DEF Assumptions, DiscountsAssumption
<1>2. /\ One \in Nat \ {0} /\ d.real \in Nat /\ d.display \in Nat /\ d.real <= d.display
      /\ d.kind \in {"specific", "campaign"}
      /\ d.kind = "campaign" => d.display < One
  BY AssumptionsHold DEF Assumptions, PricingAssumption, DiscountsAssumption
<1>3. CASE d.kind = "campaign"
  <2> DEFINE k == One - d.display
             n == real * (One - d.real)
  <2>1. k \in Nat \ {0} /\ One - d.real \in Nat /\ k <= One - d.real
    BY <1>2, <1>3
  <2>2. n \in Nat /\ real * k <= n
    BY <1>1, <2>1, ProductNat, ProductMono
  <2>3. n % k = 0 /\ shown = n \div k
    BY <1>3, AssumptionsHold DEF Assumptions, ExactPrices, calculateDisplayPrice
  <2> HIDE DEF k, n
  <2>4. shown \in Nat /\ k * shown = n
    <3>1. n \div k \in Nat
      BY <2>1, <2>2, DivFloor
    <3>2. k * (n \div k) = n
      BY <2>1, <2>2, <2>3, DivExact
    <3> QED
      BY <2>3, <3>1, <3>2
  <2>5. k * real <= k * shown
    BY <1>1, <2>1, <2>2, <2>4
  <2>6. real <= shown
    BY <1>1, <2>1, <2>4, <2>5, ProductCancel
  <2>7. shown * k = n
    BY <2>1, <2>4
  <2> QED
    BY <1>1, <1>3, <2>4, <2>6, <2>7 DEF k, n
<1>4. CASE d.kind = "specific"
  <2>1. shown = real + (d.display - d.real)
    BY <1>4 DEF calculateDisplayPrice
  <2> QED
    BY <1>1, <1>2, <1>4, <2>1
<1> QED
  BY <1>2, <1>3, <1>4

(* The discount findManyApplicableDiscount may give for a product.         *)
Applies(discount, p, variant) ==
  \/ discount = {}
  \/ variant = "retail" /\ \E d \in Discounts : d.product = p /\ discount = {d}

LEMMA DiscountForApplies ==
  ASSUME NEW p, NEW variant \in {"retail", "wholesale"}
  PROVE  Applies(DiscountFor(p, variant), p, variant)
<1> DEFINE of(kind) == {d \in Discounts : d.product = p /\ d.kind = kind}
           found == IF of("specific") # {} THEN of("specific") ELSE of("campaign")
<1>1. \A d \in found : d \in Discounts /\ d.product = p
  OBVIOUS
<1>2. DiscountFor(p, variant) = IF variant = "wholesale" \/ found = {} THEN {} ELSE {CHOOSE d \in found : TRUE}
  BY DEF DiscountFor
<1> HIDE DEF found
<1> QED
  BY <1>1, <1>2 DEF Applies

LEMMA TheOnly ==
  ASSUME NEW d
  PROVE  The({d}) = d
BY DEF The

LEMMA ComponentPrice ==
  ASSUME NEW b \in Bundle, NEW l \in DOMAIN Items[b], NEW variant \in {"retail", "wholesale"},
         NEW discount, Applies(discount, b, variant)
  PROVE  LET unit == DisplayUnitPrice(l, b, variant, discount)
             real == RealPrice(b, variant)
             shown == DisplayPrice(real, discount)
         IN /\ unit \in Nat
            /\ discount = {} => unit = RealUnitPrice(l, variant)
            /\ discount # {} => real \in Nat \ {0} /\ real * unit = RealUnitPrice(l, variant) * shown
<1> DEFINE unit == DisplayUnitPrice(l, b, variant, discount)
           real == RealPrice(b, variant)
           shown == DisplayPrice(real, discount)
           own == RealUnitPrice(l, variant)
<1>1. own \in Nat
  BY FiniteProducts, RealUnitPriceType
<1>2. CASE discount = {}
  <2>1. unit = own
    BY <1>2 DEF DisplayUnitPrice
  <2> HIDE DEF unit, own
  <2> QED
    BY <1>1, <1>2, <2>1 DEF unit, own
<1>3. CASE discount # {}
  <2>1. PICK d \in Discounts : d.product = b /\ discount = {d} /\ variant = "retail"
    BY <1>3 DEF Applies
  <2>2. shown = calculateDisplayPrice(real, d)
    BY <2>1, TheOnly DEF DisplayPrice
  <2>3. real > 0 /\ ((shown - real) * own) % real = 0
    BY <2>1, <2>2, AssumptionsHold DEF Assumptions, ExactPrices
  <2>4. unit = own + ((shown - real) * own) \div real
    BY <1>3 DEF DisplayUnitPrice
  <2>5. real \in Nat /\ shown \in Nat /\ real <= shown
    BY <2>1, <2>2, ShownPrice
  <2> HIDE DEF unit, real, shown, own
  <2> DEFINE n == (shown - real) * own
             q == n \div real
  <2>6. n \in Nat
    BY <1>1, <2>5, ProductNat
  <2>7. q \in Nat /\ real * q = n
    <3> HIDE DEF n
    <3> QED
      BY <2>3, <2>5, <2>6, DivExact, DivFloor DEF n
  <2>8. unit = own + q
    BY <2>4
  <2> HIDE DEF q
  <2>9. real * unit = real * own + n
    BY <1>1, <2>5, <2>6, <2>7, <2>8
  <2>10. n = shown * own - real * own
    BY <1>1, <2>5
  <2> HIDE DEF n
  <2>11. real * unit = own * shown
    <3>1. real * own \in Int /\ shown * own \in Int /\ shown * own = own * shown
      BY <1>1, <2>5
    <3> QED
      BY <2>9, <2>10, <3>1
  <2>12. unit \in Nat /\ real \in Nat \ {0}
    BY <1>1, <2>3, <2>5, <2>7, <2>8
  <2> QED
    BY <1>3, <2>11, <2>12 DEF unit, real, shown, own
<1> QED
  BY <1>2, <1>3

(* The components of a bundle add up to what the bundle shows.             *)
LEMMA BundlePrice ==
  ASSUME NEW b \in Bundle, NEW variant \in {"retail", "wholesale"},
         NEW discount, Applies(discount, b, variant),
         NEW kids, kids = DisplayComponents(b, variant, discount)
  PROVE  BundleUnitPrice(kids) = DisplayPrice(RealPrice(b, variant), discount)
<1> DEFINE D == DOMAIN Items[b]
           f == [l \in D |-> kids[l].unit * kids[l].qty]
           g == [l \in D |-> RealUnitPrice(l, variant) * Items[b][l]]
           real == RealPrice(b, variant)
           shown == DisplayPrice(real, discount)
<1>1. /\ IsFiniteSet(D) /\ D \subseteq Leaf
      /\ \A l \in D : Items[b][l] \in Nat
  BY FiniteProducts, AssumptionsHold DEF Assumptions, PricingAssumption
<1>2. BundleUnitPrice(kids) = SumFunctionOnSet(f, D)
  BY DEF BundleUnitPrice, SumFunction, DisplayComponents
<1>3. real = SumFunctionOnSet(g, D)
  BY AssumptionsHold DEF RealPrice, SumFunction, Assumptions, PricingAssumption
<1>4. \A l \in D : /\ f[l] = DisplayUnitPrice(l, b, variant, discount) * Items[b][l]
                   /\ g[l] = RealUnitPrice(l, variant) * Items[b][l]
                   /\ DisplayUnitPrice(l, b, variant, discount) \in Nat
                   /\ RealUnitPrice(l, variant) \in Nat
  BY <1>1, ComponentPrice, RealUnitPriceType DEF DisplayComponents
<1>5. \A l \in D : f[l] \in Int /\ g[l] \in Int
  <2> SUFFICES ASSUME NEW l \in D PROVE f[l] \in Int /\ g[l] \in Int
    OBVIOUS
  <2> HIDE DEF f, g
  <2> QED
    BY <1>1, <1>4
<1>6. CASE discount = {}
  <2>1. \A l \in D : DisplayUnitPrice(l, b, variant, discount) = RealUnitPrice(l, variant)
    BY <1>6, ComponentPrice, Zenon
  <2>2. \A l \in D : f[l] = g[l]
    <3> HIDE DEF f, g
    <3> QED
      BY <1>4, <2>1
  <2>3. SumFunctionOnSet(f, D) = SumFunctionOnSet(g, D)
    <3> HIDE DEF f, g
    <3> QED
      BY <1>1, <1>5, <2>2, SumSame
  <2> QED
    BY <1>2, <1>3, <1>6, <2>3 DEF DisplayPrice
<1>7. CASE discount # {}
  <2> DEFINE h == [l \in D |-> real * f[l]]
  <2>1. real \in Nat \ {0} /\ shown \in Int
    <3>1. PICK d \in Discounts : d.product = b /\ discount = {d} /\ variant = "retail"
      BY <1>7 DEF Applies
    <3>2. shown = calculateDisplayPrice(real, d)
      BY <3>1, TheOnly DEF DisplayPrice
    <3>3. real > 0
      BY <3>1, AssumptionsHold DEF Assumptions, ExactPrices
    <3> HIDE DEF real, shown
    <3> QED
      BY <3>1, <3>2, <3>3, ShownPrice DEF real
  <2>2. ASSUME NEW l \in D PROVE h[l] = shown * g[l]
    <3> DEFINE u == DisplayUnitPrice(l, b, variant, discount)
               o == RealUnitPrice(l, variant)
               q == Items[b][l]
    <3>1. real * u = o * shown /\ u \in Nat /\ o \in Nat /\ q \in Nat
      BY <1>1, <1>4, <1>7, ComponentPrice
    <3>2. f[l] = u * q /\ g[l] = o * q /\ h[l] = real * f[l]
      BY <1>4
    <3> HIDE DEF u, o, q, f, g, h, real, shown
    <3>3. real * (u * q) = (real * u) * q /\ (o * shown) * q = shown * (o * q)
      BY <2>1, <3>1
    <3> QED
      BY <3>1, <3>2, <3>3
  <2>3. \A l \in D : h[l] = real * f[l]
    OBVIOUS
  <2> HIDE DEF f, g, h, real, shown
  <2>4. SumFunctionOnSet(h, D) = real * SumFunctionOnSet(f, D)
    BY <1>1, <1>5, <2>1, <2>3, SumTimes
  <2>5. SumFunctionOnSet(h, D) = shown * SumFunctionOnSet(g, D)
    BY <1>1, <1>5, <2>1, <2>2, SumTimes
  <2>6. SumFunctionOnSet(f, D) \in Int
    BY <1>1, <1>5, SumType
  <2>7. real * SumFunctionOnSet(f, D) = real * shown
    BY <1>3, <2>1, <2>4, <2>5
  <2>8. SumFunctionOnSet(f, D) = shown
    BY <2>1, <2>6, <2>7, ProductCancelEqual
  <2> QED
    BY <1>2, <2>8 DEF real, shown
<1> QED
  BY <1>6, <1>7

LEMMA DiscountOfId ==
  ASSUME NEW d \in Discounts
  PROVE  d.id \in DiscountIds /\ DiscountOf(d.id) = d
BY AssumptionsHold DEF Assumptions, DiscountsAssumption, DiscountIds, DiscountOf

LEMMA DiscountOfType ==
  ASSUME NEW id \in DiscountIds
  PROVE  DiscountOf(id) \in Discounts /\ DiscountOf(id).id = id
BY DEF DiscountIds, DiscountOf

(* What a discount takes off a unit: with it, the real price less the real  *)
(* discount is paid.                                                        *)
LEMMA PerUnit ==
  ASSUME NEW d \in Discounts, NEW real, real = RealPrice(d.product, "retail"),
         NEW unit, unit = calculateDisplayPrice(real, d), NEW per, per = DiscountPerUnit(d, unit)
  PROVE  /\ real \in Nat /\ unit \in Nat /\ per \in Nat /\ per <= unit
         /\ d.kind = "campaign" => One * (unit - per) = real * (One - d.real)
         /\ d.kind = "specific" => unit - per = real - d.real
<1>1. /\ One \in Nat \ {0} /\ d.real \in Nat /\ d.display \in Nat /\ d.real <= d.display
      /\ d.kind \in {"specific", "campaign"}
      /\ d.kind = "campaign" => d.display < One
  BY AssumptionsHold DEF Assumptions, PricingAssumption, DiscountsAssumption
<1>2. /\ real \in Nat /\ unit \in Nat
      /\ d.kind = "campaign" => unit * (One - d.display) = real * (One - d.real)
      /\ d.kind = "specific" => unit = real + (d.display - d.real)
  BY ShownPrice
<1>3. CASE d.kind = "campaign"
  <2> DEFINE n == unit * d.display
  <2>1. n % One = 0 /\ per = n \div One
    BY <1>3, AssumptionsHold DEF Assumptions, ExactPrices, DiscountPerUnit
  <2>2. n \in Nat /\ n <= unit * One
    BY <1>1, <1>2, <1>3, ProductNat, ProductMono
  <2> HIDE DEF n
  <2>3. per \in Nat /\ One * per = n
    <3>1. n \div One \in Nat
      BY <1>1, <2>2, DivFloor
    <3>2. One * (n \div One) = n
      BY <1>1, <2>1, <2>2, DivExact
    <3> QED
      BY <2>1, <3>1, <3>2
  <2>4. One * per <= One * unit
    BY <1>1, <1>2, <2>2, <2>3
  <2>5. per <= unit
    BY <1>1, <1>2, <2>3, <2>4, ProductCancel
  <2>6. One * (unit - per) = unit * One - n
    BY <1>1, <1>2, <2>3
  <2>7. unit * One - n = unit * (One - d.display)
    BY <1>1, <1>2 DEF n
  <2> QED
    BY <1>2, <1>3, <2>3, <2>5, <2>6, <2>7
<1>4. CASE d.kind = "specific"
  <2>1. per = d.display
    BY <1>4 DEF DiscountPerUnit
  <2>2. d.real <= real
    BY <1>4, AssumptionsHold DEF Assumptions, ExactPrices
  <2> QED
    BY <1>1, <1>2, <1>4, <2>1, <2>2
<1> QED
  BY <1>1, <1>3, <1>4

(* What the proofs need to know of a line for product p.                    *)
PaidFor(p, variant, line) ==
  LET real == RealPrice(p, variant) IN
  /\ line.discount = {} => line.total = real * line.qty
  /\ \A id \in line.discount : line.offQty = line.qty =>
       LET d == DiscountOf(id) IN
       line.total = IF d.kind = "campaign" THEN (real * (One - d.real) * line.qty) \div One
                    ELSE (real - d.real) * line.qty

Amounts(line) ==
  /\ line.qty \in Nat \ {0} /\ line.unit \in Nat /\ line.off \in Nat /\ line.total \in Nat
  /\ line.discount \subseteq DiscountIds /\ line.offQty \in Nat
  /\ line.discount = {} => line.total = line.unit * line.qty

Components(b, line) ==
  /\ DOMAIN line.kids = DOMAIN Items[b]
  /\ \A l \in DOMAIN line.kids : line.kids[l].qty \in Nat \ {0} /\ line.kids[l].unit \in Nat
  /\ line.unit = BundleUnitPrice(line.kids)
  /\ line.discount # {} => line.unit > 0

LineOK(p, variant, line) ==
  /\ Amounts(line)
  /\ PaidFor(p, variant, line)
  /\ p \in Bundle => Components(p, line)

LEMMA LineUnit ==
  ASSUME NEW p \in Product, NEW qty, NEW variant \in {"retail", "wholesale"},
         NEW discount, Applies(discount, p, variant), NEW applicable
  PROVE  PriceLine(p, qty, variant, discount, applicable).unit
           = DisplayPrice(RealPrice(p, variant), discount)
<1>1. CASE p \in Bundle
  BY <1>1, BundlePrice DEF PriceLine
<1>2. CASE p \notin Bundle
  BY <1>2 DEF PriceLine
<1> QED
  BY <1>1, <1>2

LEMMA LineAmounts ==
  ASSUME NEW p \in Product, NEW qty \in Nat \ {0}, NEW variant \in {"retail", "wholesale"},
         NEW discount, Applies(discount, p, variant), NEW applicable \in [DiscountIds -> Nat],
         NEW line, line = PriceLine(p, qty, variant, discount, applicable)
  PROVE  Amounts(line) /\ PaidFor(p, variant, line)
<1> DEFINE real == RealPrice(p, variant)
<1>1. real \in Nat /\ One \in Nat \ {0}
  BY RealPriceType, AssumptionsHold DEF Assumptions, PricingAssumption
<1>2. line.qty = qty /\ line.unit = DisplayPrice(real, discount) /\ line.discount = {d.id : d \in discount}
  BY LineUnit DEF PriceLine
<1>3. CASE discount = {}
  <2>1. line.offQty = 0 /\ line.off = 0 /\ line.total = line.unit * qty - 0 /\ line.discount = {}
    BY <1>2, <1>3 DEF PriceLine
  <2>2. line.unit = real
    BY <1>2, <1>3 DEF DisplayPrice
  <2> HIDE DEF real
  <2>3. real * qty \in Nat
    BY <1>1, ProductNat
  <2>4. line.total = real * qty
    BY <2>1, <2>2, <2>3
  <2>5. Amounts(line)
    BY <1>1, <1>2, <2>1, <2>2, <2>3, <2>4 DEF Amounts
  <2>6. PaidFor(p, variant, line)
    BY <1>2, <2>1, <2>4 DEF PaidFor, real
  <2> QED
    BY <2>5, <2>6
<1>4. CASE discount # {}
  <2>1. PICK d \in Discounts : d.product = p /\ discount = {d} /\ variant = "retail"
    BY <1>4 DEF Applies
  <2> DEFINE unit == calculateDisplayPrice(real, d)
             per == DiscountPerUnit(d, unit)
             k == DiscountedQuantity(d, qty, applicable)
  <2>2. line.unit = unit /\ line.discount = {d.id} /\ d.id \in DiscountIds /\ DiscountOf(d.id) = d
    BY <1>2, <2>1, TheOnly, DiscountOfId DEF DisplayPrice
  <2>3. line.offQty = k /\ line.off = DiscountPerUnit(d, line.unit) * k /\ line.total = line.unit * qty - line.off
    BY <2>1, TheOnly DEF PriceLine
  <2>4. k \in Nat /\ k <= qty
    BY <2>2 DEF DiscountedQuantity, MinOf
  <2>5. /\ unit \in Nat /\ per \in Nat /\ per <= unit
        /\ d.kind = "campaign" => One * (unit - per) = real * (One - d.real)
        /\ d.kind = "specific" => unit - per = real - d.real
    BY <2>1, PerUnit
  <2>6. d.kind \in {"specific", "campaign"} /\ d.real \in Nat
    BY AssumptionsHold DEF Assumptions, DiscountsAssumption
  <2>7. line.off = per * k /\ line.total = unit * qty - per * k
    BY <2>2, <2>3
  <2> HIDE DEF unit, per, k, real
  <2>8. per * k \in Nat /\ per * k <= unit * k /\ unit * k <= unit * qty /\ unit * qty \in Nat /\ unit * k \in Nat
    BY <2>4, <2>5, ProductNat, ProductMono
  <2>9. line.off \in Nat /\ line.total \in Nat
    BY <2>7, <2>8
  <2>10. Amounts(line)
    BY <1>2, <2>2, <2>3, <2>4, <2>5, <2>9 DEF Amounts
  <2>11. ASSUME line.offQty = line.qty
         PROVE  line.total = IF d.kind = "campaign" THEN (real * (One - d.real) * qty) \div One
                             ELSE (real - d.real) * qty
    <3>1. line.total = (unit - per) * qty
      BY <1>2, <2>3, <2>5, <2>7, <2>11
    <3>2. CASE d.kind = "campaign"
      <4> DEFINE w == unit - per
                 n == real * (One - d.real)
      <4>1. w \in Int /\ One * w = n
        BY <2>5, <3>2
      <4> HIDE DEF w, n
      <4>2. n * qty = One * (w * qty)
        BY <1>1, <4>1
      <4>3. (n * qty) \div One = w * qty
        BY <1>1, <4>1, <4>2, DivOfMultiple
      <4> QED
        BY <3>1, <3>2, <4>3 DEF w, n
    <3>3. CASE d.kind = "specific"
      BY <2>5, <3>1, <3>3
    <3> QED
      BY <2>6, <3>2, <3>3
  <2>12. PaidFor(p, variant, line)
    BY <1>2, <2>2, <2>11 DEF PaidFor, real
  <2> QED
    BY <2>10, <2>12
<1> QED
  BY <1>3, <1>4

LEMMA LineComponents ==
  ASSUME NEW b \in Bundle, NEW qty, NEW variant \in {"retail", "wholesale"},
         NEW discount, Applies(discount, b, variant), NEW applicable,
         NEW line, line = PriceLine(b, qty, variant, discount, applicable)
  PROVE  Components(b, line)
<1>1. /\ line.kids = DisplayComponents(b, variant, discount)
      /\ line.unit = BundleUnitPrice(line.kids)
      /\ line.discount = {d.id : d \in discount}
  BY DEF PriceLine
<1>2. \A l \in DOMAIN Items[b] : DisplayUnitPrice(l, b, variant, discount) \in Nat /\ Items[b][l] \in Nat \ {0}
  BY ComponentPrice, AssumptionsHold DEF Assumptions, PricingAssumption
<1>3. ASSUME line.discount # {} PROVE line.unit > 0
  <2>1. PICK d \in Discounts : d.product = b /\ discount = {d} /\ variant = "retail"
    BY <1>1, <1>3 DEF Applies
  <2> DEFINE real == RealPrice(b, variant)
             shown == calculateDisplayPrice(real, d)
  <2>2. line.unit = shown
    <3>1. BundleUnitPrice(line.kids) = DisplayPrice(RealPrice(b, variant), discount)
      BY <1>1, BundlePrice
    <3>2. DisplayPrice(RealPrice(b, variant), discount) = shown
      BY <2>1, TheOnly DEF DisplayPrice
    <3> QED
      BY <1>1, <3>1, <3>2
  <2>3. real > 0
    BY <2>1, AssumptionsHold DEF Assumptions, ExactPrices
  <2>4. real \in Nat /\ shown \in Nat /\ real <= shown
    BY <2>1, ShownPrice
  <2> HIDE DEF real, shown
  <2> QED
    BY <2>2, <2>3, <2>4
<1> QED
  BY <1>1, <1>2, <1>3 DEF Components, DisplayComponents

LEMMA LineFacts ==
  ASSUME NEW p \in Product, NEW qty \in Nat \ {0}, NEW variant \in {"retail", "wholesale"},
         NEW discount, Applies(discount, p, variant), NEW applicable \in [DiscountIds -> Nat]
  PROVE  LineOK(p, variant, PriceLine(p, qty, variant, discount, applicable))
BY LineAmounts, LineComponents DEF LineOK

-----------------------------------------------------------------------------
(* Invoices.                                                               *)
Variant(customer) == resolvePolicy(IF customer = None THEN "consumer" ELSE TypeOf[customer])

InvoiceOK(customer, invoice) ==
  /\ DOMAIN invoice \subseteq Product
  /\ \A p \in DOMAIN invoice : LineOK(p, Variant(customer), invoice[p])

LEMMA InvoiceFacts ==
  ASSUME NEW cart \in Carts, NEW customer \in Customers \cup {None},
         NEW applicable \in [DiscountIds -> Nat],
         NEW type, type = (IF customer = None THEN "none" ELSE TypeOf[customer])
  PROVE  InvoiceOK(customer, PriceInvoice(cart, type, applicable))
<1> DEFINE variant == resolvePolicy(type)
           discount(p) == IF type = "none" THEN {} ELSE DiscountFor(p, variant)
           invoice == PriceInvoice(cart, type, applicable)
<1>1. variant \in {"retail", "wholesale"} /\ variant = Variant(customer)
  BY DEF resolvePolicy, Variant
<1>2. /\ DOMAIN cart \subseteq Product
      /\ \A p \in DOMAIN cart : cart[p] \in Nat \ {0}
  BY AssumptionsHold DEF Assumptions, SalesAssumption
<1>3. /\ DOMAIN invoice = DOMAIN cart
      /\ \A p \in DOMAIN cart : invoice[p] = PriceLine(p, cart[p], variant, discount(p), applicable)
  BY DEF PriceInvoice
<1>4. ASSUME NEW p PROVE Applies(discount(p), p, variant)
  <2> HIDE DEF variant
  <2> QED
    BY <1>1, DiscountForApplies DEF Applies
<1> HIDE DEF variant, discount, invoice
<1>5. \A p \in DOMAIN cart : LineOK(p, variant, invoice[p])
  BY <1>1, <1>2, <1>3, <1>4, LineFacts
<1> QED
  BY <1>1, <1>2, <1>3, <1>5 DEF InvoiceOK, invoice

LEMMA InvoiceAmounts ==
  ASSUME NEW customer, NEW invoice, InvoiceOK(customer, invoice)
  PROVE  /\ IsFiniteSet(DOMAIN invoice)
         /\ GrandTotal(invoice) \in Nat /\ EligibleAmount(invoice) \in Nat
         /\ EligibleAmount(invoice) <= GrandTotal(invoice)
<1> DEFINE D == DOMAIN invoice
           t == [p \in D |-> invoice[p].total]
           e == [p \in D |-> IF invoice[p].off > 0 THEN 0 ELSE invoice[p].total]
<1>1. IsFiniteSet(D)
  BY FiniteProducts DEF InvoiceOK
<1>2. \A p \in D : t[p] \in Nat /\ e[p] \in Nat /\ e[p] <= t[p]
  BY DEF InvoiceOK, LineOK, Amounts
<1>3. GrandTotal(invoice) = SumFunctionOnSet(t, D) /\ EligibleAmount(invoice) = SumFunctionOnSet(e, D)
  BY DEF GrandTotal, EligibleAmount, SumFunction
<1> HIDE DEF t, e
<1>4. SumFunctionOnSet(t, D) \in Nat /\ SumFunctionOnSet(e, D) \in Nat
  BY <1>1, <1>2, SumNat
<1>5. SumFunctionOnSet(e, D) <= SumFunctionOnSet(t, D)
  BY <1>1, <1>2, SumMono
<1> QED
  BY <1>1, <1>3, <1>4, <1>5

LEMMA RequestedFacts ==
  ASSUME NEW customer, NEW invoice, InvoiceOK(customer, invoice), NEW id
  PROVE  /\ Requested(invoice, id) \in Nat
         /\ (\A p \in DOMAIN invoice : id \notin invoice[p].discount) => Requested(invoice, id) = 0
<1> DEFINE D == DOMAIN invoice
           r == [p \in D |-> IF id \in invoice[p].discount THEN invoice[p].offQty ELSE 0]
<1>1. IsFiniteSet(D) /\ Requested(invoice, id) = SumFunctionOnSet(r, D)
  BY InvoiceAmounts DEF Requested, SumFunction
<1>2. \A p \in D : r[p] \in Nat
  BY DEF InvoiceOK, LineOK, Amounts
<1>3. SumFunctionOnSet(r, D) \in Nat
  <2> HIDE DEF r
  <2> QED
    BY <1>1, <1>2, SumNat
<1>4. ASSUME \A p \in DOMAIN invoice : id \notin invoice[p].discount PROVE SumFunctionOnSet(r, D) = 0
  <2>1. \A p \in D : r[p] = 0
    BY <1>4
  <2> HIDE DEF r
  <2> QED
    BY <1>1, <2>1, SumZero
<1> QED
  BY <1>1, <1>3, <1>4

(* A choice of the line that comes last for each leaf.                      *)
LastLines(invoice, last) ==
  /\ last \in [LeavesOf(invoice) -> DOMAIN invoice]
  /\ \A l \in DOMAIN last : last[l] \in LinesOf(invoice, l)

LEMMA LineOfLeaf ==
  ASSUME NEW customer, NEW invoice, InvoiceOK(customer, invoice),
         NEW l \in Leaf, NEW p \in LinesOf(invoice, l)
  PROVE  /\ p \in DOMAIN invoice
         /\ p = l <=> p \notin Bundle
         /\ p \in Bundle => l \in DOMAIN invoice[p].kids
BY AssumptionsHold DEF LinesOf, InvoiceOK, Product, Assumptions, PricingAssumption

LEMMA UnitsInType ==
  ASSUME NEW customer, NEW invoice, InvoiceOK(customer, invoice),
         NEW l \in Leaf, NEW p \in LinesOf(invoice, l)
  PROVE  UnitsIn(invoice, p, l) \in Nat
<1>1. invoice[p].qty \in Nat
  BY LineOfLeaf DEF InvoiceOK, LineOK, Amounts
<1>2. ASSUME p # l PROVE invoice[p].kids[l].qty \in Nat
  BY <1>2, LineOfLeaf DEF InvoiceOK, LineOK, Components
<1> QED
  BY <1>1, <1>2, ProductNat DEF UnitsIn

(* What flattenInvoiceItems issues of a leaf is at most what its lines sell, *)
(* and all of it when there is one line.                                     *)
LEMMA IssuedFacts ==
  ASSUME NEW customer, NEW invoice, InvoiceOK(customer, invoice), NEW last, LastLines(invoice, last),
         NEW l \in DOMAIN last
  PROVE  LET sold == SumFunction([p \in LinesOf(invoice, l) |-> UnitsIn(invoice, p, l)])
             issued == FlattenInvoice(invoice, last)[l]
         IN issued <= sold /\ (Cardinality(LinesOf(invoice, l)) = 1 => issued = sold)
<1> DEFINE L == LinesOf(invoice, l)
           u == [p \in L |-> UnitsIn(invoice, p, l)]
<1>1. l \in Leaf /\ last[l] \in L
  BY DEF LastLines, LeavesOf
<1>2. IsFiniteSet(L)
  BY InvoiceAmounts, FS_Subset DEF LinesOf
<1>3. \A p \in L : u[p] \in Nat
  BY <1>1, UnitsInType
<1>4. FlattenInvoice(invoice, last)[l] = u[last[l]]
  BY <1>1 DEF FlattenInvoice
<1>5. SumFunction(u) = SumFunctionOnSet(u, L)
  BY DEF SumFunction
<1>6. u[last[l]] <= SumFunctionOnSet(u, L)
  <2> HIDE DEF u, L
  <2> QED
    BY <1>1, <1>2, <1>3, SumBounds
<1>7. ASSUME Cardinality(L) = 1 PROVE u[last[l]] = SumFunctionOnSet(u, L)
  <2>1. L = {last[l]}
    <3> HIDE DEF L
    <3> QED
      BY <1>1, <1>2, <1>7, FS_Singleton
  <2>2. u[last[l]] \in Int
    BY <1>1, <1>3
  <2> HIDE DEF u, L
  <2>3. SumFunctionOnSet(u, {last[l]}) = u[last[l]]
    BY <2>2, SumSingleton
  <2> QED
    BY <2>1, <2>3
<1> QED
  BY <1>4, <1>5, <1>6, <1>7

(* What flattenRefundableItems makes refundable of one line is at most what *)
(* was paid for it.                                                         *)
LEMMA RefundableItem ==
  ASSUME NEW customer, NEW invoice, InvoiceOK(customer, invoice), NEW last, LastLines(invoice, last),
         NEW l \in DOMAIN last, NEW item, item = Refundable(invoice, last)[l]
  PROVE  /\ item.qty \in Nat \ {0} /\ item.total \in Nat
         /\ last[l] \notin Bundle => last[l] = l /\ item.total = invoice[l].total
         /\ last[l] \in Bundle =>
              LET line == invoice[last[l]]
                  child == line.kids[l].unit * line.kids[l].qty
              IN /\ l \in DOMAIN line.kids
                 /\ item.total = IF line.discount = {} THEN child
                                 ELSE (child * line.total) \div (line.unit * line.qty)
<1> DEFINE p == last[l]
           line == invoice[p]
           child == line.kids[l].unit * line.kids[l].qty
<1>1. l \in Leaf /\ p \in LinesOf(invoice, l)
  BY DEF LastLines, LeavesOf
<1>2. p \in DOMAIN invoice /\ (p = l <=> p \notin Bundle) /\ (p \in Bundle => l \in DOMAIN line.kids)
  BY <1>1, LineOfLeaf
<1>3. LineOK(p, Variant(customer), line)
  BY <1>2 DEF InvoiceOK
<1>4. item = IF p = l THEN [qty |-> line.qty, total |-> line.total]
             ELSE [qty |-> line.kids[l].qty,
                   total |-> IF line.discount = {} THEN child
                             ELSE (child * line.total) \div (line.unit * line.qty)]
  BY DEF Refundable
<1>5. line.qty \in Nat \ {0} /\ line.unit \in Nat /\ line.total \in Nat
  BY <1>3 DEF LineOK, Amounts
<1>6. CASE p = l
  BY <1>2, <1>4, <1>5, <1>6
<1>7. CASE p # l
  <2>1. line.kids[l].qty \in Nat \ {0} /\ line.kids[l].unit \in Nat /\ (line.discount # {} => line.unit > 0)
    BY <1>2, <1>3, <1>7 DEF LineOK, Components
  <2> DEFINE n == child * line.total
             b == line.unit * line.qty
  <2>2. child \in Nat
    BY <2>1, ProductNat
  <2>3. n \in Nat
    BY <2>2, <1>5, ProductNat
  <2>4. line.discount # {} => b \in Nat \ {0}
    BY <2>1, <1>5
  <2>5. line.discount # {} => n \div b \in Nat
    <3> HIDE DEF n, b
    <3> QED
      BY <2>3, <2>4, DivFloor
  <2>6. item.qty = line.kids[l].qty /\ item.total = IF line.discount = {} THEN child ELSE n \div b
    BY <1>4, <1>7
  <2>7. item.qty \in Nat \ {0} /\ item.total \in Nat
    <3> HIDE DEF n, b, child
    <3> QED
      BY <2>1, <2>2, <2>5, <2>6
  <2> QED
    BY <1>2, <1>7, <2>6, <2>7
<1> QED
  BY <1>6, <1>7

LEMMA RefundableOfLine ==
  ASSUME NEW customer, NEW invoice, InvoiceOK(customer, invoice), NEW last, LastLines(invoice, last),
         NEW p \in DOMAIN invoice,
         NEW f, \A l \in DOMAIN last : f[l] = Refundable(invoice, last)[l].total
  PROVE  SumFunctionOnSet(f, Members(DOMAIN last, last, p)) <= invoice[p].total
<1> DEFINE G == Members(DOMAIN last, last, p)
           line == invoice[p]
           T == line.total
<1>1. Amounts(line) /\ (p \in Bundle => Components(p, line))
  BY DEF InvoiceOK, LineOK
<1>2. T \in Nat /\ line.qty \in Nat \ {0} /\ line.unit \in Nat
  BY <1>1 DEF Amounts
<1>3. IsFiniteSet(G) /\ G \subseteq Leaf
  <2>1. IsFiniteSet(Leaf) /\ G \subseteq Leaf
    BY AssumptionsHold DEF Assumptions, PricingAssumption, LastLines, LeavesOf, Members
  <2> QED
    BY <2>1, FS_Subset
<1>4. \A l \in G : f[l] \in Nat
  BY RefundableItem DEF Members
<1>5. CASE p \notin Bundle
  <2>1. \A l \in G : l = p /\ f[l] = T
    BY <1>5, RefundableItem DEF Members
  <2>2. CASE G = {}
    BY <1>2, <2>2, SumEmpty
  <2>3. CASE G # {}
    <3>1. G = {p} /\ f[p] = T
      BY <2>1, <2>3
    <3>2. SumFunctionOnSet(f, {p}) = f[p]
      BY <1>2, <3>1, SumSingleton
    <3> HIDE DEF G, T
    <3>3. SumFunctionOnSet(f, G) <= T
      BY <1>2, <3>1, <3>2
    <3> QED
      BY <3>3 DEF G, T
  <2> QED
    BY <2>2, <2>3
<1>6. CASE p \in Bundle
  <2> DEFINE K == DOMAIN line.kids
             child == [l \in K |-> line.kids[l].unit * line.kids[l].qty]
             B == line.unit * line.qty
  <2>1. /\ IsFiniteSet(K) /\ line.unit = SumFunctionOnSet(child, K)
        /\ \A l \in K : line.kids[l].qty \in Nat \ {0} /\ line.kids[l].unit \in Nat
        /\ line.discount # {} => line.unit > 0
    BY <1>1, <1>6, FiniteProducts DEF Components, BundleUnitPrice, SumFunction
  <2>2. \A l \in K : child[l] \in Nat
    BY <2>1, ProductNat
  <2>3. G \subseteq K
    BY <1>6, RefundableItem DEF Members
  <2>4. \A l \in G : f[l] = IF line.discount = {} THEN child[l] ELSE (child[l] * T) \div B
    BY <1>6, <2>3, RefundableItem DEF Members
  <2>5. SumFunctionOnSet(child, G) <= line.unit /\ SumFunctionOnSet(child, G) \in Nat
    <3> HIDE DEF child, K, G
    <3> QED
      BY <1>3, <2>1, <2>2, <2>3, SumPart, SumNat
  <2>6. SumFunctionOnSet(f, G) \in Nat
    <3> HIDE DEF G
    <3> QED
      BY <1>3, <1>4, SumNat
  <2>7. line.unit <= B /\ B \in Nat
    <3>1. line.unit * 1 <= line.unit * line.qty
      BY <1>2, ProductMono
    <3> QED
      BY <1>2, <3>1
  <2>8. CASE line.discount = {}
    <3>1. SumFunctionOnSet(f, G) = SumFunctionOnSet(child, G)
      <4> HIDE DEF child, G, K, T, B
      <4>1. \A l \in G : child[l] \in Int /\ f[l] = child[l]
        BY <2>2, <2>3, <2>4, <2>8
      <4> QED
        BY <1>3, <4>1, SumSame
    <3>2. T = B
      BY <1>1, <2>8 DEF Amounts
    <3> HIDE DEF child, G, B, T
    <3>3. SumFunctionOnSet(f, G) <= T
      BY <1>2, <2>5, <2>6, <2>7, <3>1, <3>2
    <3> QED
      BY <3>3 DEF G, T
  <2>9. CASE line.discount # {}
    <3>1. B \in Nat \ {0}
      <4>1. line.unit > 0
        BY <2>1, <2>9
      <4> HIDE DEF B
      <4> QED
        BY <1>2, <2>7, <4>1
    <3>2. ASSUME NEW l \in G PROVE child[l] \in Nat /\ f[l] = (T * child[l]) \div B
      <4> HIDE DEF G, K, T, B, child
      <4>1. l \in K /\ child[l] \in Nat /\ f[l] = (child[l] * T) \div B
        BY <2>2, <2>3, <2>4, <2>9
      <4>2. child[l] * T = T * child[l]
        BY <1>2, <4>1
      <4> QED
        BY <4>1, <4>2
    <3> HIDE DEF child, K, G, B, T
    <3>3. SumFunctionOnSet(child, G) <= B
      BY <1>2, <2>5, <2>7
    <3>4. SumFunctionOnSet(f, G) <= T
      BY <1>2, <1>3, <3>1, <3>2, <3>3, SharesAddUp
    <3> QED
      BY <3>4 DEF G, T
  <2> QED
    BY <2>8, <2>9
<1> QED
  BY <1>5, <1>6

LEMMA RefundableTotal ==
  ASSUME NEW customer, NEW invoice, InvoiceOK(customer, invoice), NEW last, LastLines(invoice, last),
         NEW f, \A l \in DOMAIN last : f[l] = Refundable(invoice, last)[l].total
  PROVE  SumFunctionOnSet(f, DOMAIN last) <= GrandTotal(invoice)
<1> DEFINE S == DOMAIN last
           T == DOMAIN invoice
           parts == [p \in T |-> SumFunctionOnSet(f, Members(S, last, p))]
           t == [p \in T |-> invoice[p].total]
<1>1. IsFiniteSet(S) /\ IsFiniteSet(T) /\ last \in [S -> T]
  <2>1. IsFiniteSet(Leaf) /\ S \subseteq Leaf
    BY AssumptionsHold DEF Assumptions, PricingAssumption, LastLines, LeavesOf
  <2> QED
    BY <2>1, FS_Subset, InvoiceAmounts DEF LastLines
<1>2. \A l \in S : f[l] \in Int
  BY RefundableItem
<1>3. SumFunctionOnSet(f, S) = SumFunctionOnSet(parts, T)
  <2>1. \A p \in T : parts[p] = SumFunctionOnSet(f, Members(S, last, p))
    OBVIOUS
  <2> HIDE DEF S, T, parts
  <2> QED
    BY <1>1, <1>2, <2>1, SumGrouped
<1>4. \A p \in T : t[p] \in Int /\ parts[p] <= t[p] /\ parts[p] \in Int
  <2> SUFFICES ASSUME NEW p \in T PROVE t[p] \in Int /\ parts[p] <= t[p] /\ parts[p] \in Int
    OBVIOUS
  <2>1. t[p] \in Int
    BY DEF InvoiceOK, LineOK, Amounts
  <2>2. parts[p] <= t[p]
    BY RefundableOfLine
  <2>3. parts[p] \in Int
    <3>1. Members(S, last, p) \in SUBSET S
      BY DEF Members
    <3>2. IsFiniteSet(Members(S, last, p)) /\ \A l \in Members(S, last, p) : f[l] \in Int
      BY <1>1, <1>2, <3>1, FS_Subset
    <3>3. SumFunctionOnSet(f, Members(S, last, p)) \in Int
      BY <3>2, SumType
    <3> QED
      BY <3>3
  <2> QED
    BY <2>1, <2>2, <2>3
<1>5. GrandTotal(invoice) = SumFunctionOnSet(t, T)
  BY DEF GrandTotal, SumFunction
<1>6. SumFunctionOnSet(parts, T) <= SumFunctionOnSet(t, T)
  <2> HIDE DEF T, parts, t
  <2> QED
    BY <1>1, <1>4, SumMono
<1> QED
  BY <1>3, <1>5, <1>6

-----------------------------------------------------------------------------
(* The inductive invariant: what the sales under way, the sales recorded    *)
(* and the returns recorded are.                                            *)
IsSeq(s) == s \in Seq(Range(s))

UnderWay(s) ==
  /\ s = [step |-> s.step, customer |-> s.customer, invoice |-> s.invoice,
          rate |-> s.rate]
  /\ s.step \in {"priced", "consumed"}
  /\ s.customer \in Customers \cup {None}
  /\ s.rate \in Nat /\ (s.customer = None => s.rate = 0)
  /\ InvoiceOK(s.customer, s.invoice)

Recorded(s) ==
  /\ s.customer \in Customers \cup {None}
  /\ s.rate \in Nat /\ (s.customer = None => s.rate = 0)
  /\ InvoiceOK(s.customer, s.invoice)
  /\ s.cashback = EligibleAmount(s.invoice) * s.rate
  /\ \E last : /\ LastLines(s.invoice, last)
               /\ s.issued = FlattenInvoice(s.invoice, last)
               /\ s.refundable = Refundable(s.invoice, last)

Returnable(sale, items) ==
  /\ DOMAIN items \subseteq DOMAIN sale.refundable
  /\ \A l \in DOMAIN items : items[l] \in Nat

TakenBack(r) ==
  /\ r.sale \in DOMAIN sales /\ r.payable \in Nat
  /\ LET sale == sales[r.sale] IN
     /\ Returnable(sale, r.items)
     /\ r.refund = RefundOf(sale.refundable, r.items)
     /\ r.deducted = Deducted(sale, r.refund)

Settings ==
  /\ used \in [Customers \X DiscountIds -> Nat]
  /\ rate \in CashbackRates
  /\ begun \in 0 .. MaxSales /\ settings \in 0 .. MaxSettings /\ crowd \in Nat

Tills ==
  /\ at = [c \in Cashier |-> at[c]]
  /\ \A c \in Cashier : at[c] = Idle \/ UnderWay(at[c])

Books ==
  /\ IsSeq(sales) /\ IsSeq(returns)
  /\ \A i \in DOMAIN sales : Recorded(sales[i])
  /\ \A i \in DOMAIN returns : TakenBack(returns[i])

SalesInv == Settings /\ Tills /\ Books

(* t is s with e at its end.                                               *)
Appended(s, e, t) ==
  /\ IsSeq(t) /\ Len(s) \in Nat
  /\ DOMAIN s = 1 .. Len(s) /\ DOMAIN t = 1 .. Len(s) + 1
  /\ \A i \in DOMAIN s : t[i] = s[i]
  /\ t[Len(s) + 1] = e

LEMMA AppendSeq ==
  ASSUME NEW s, IsSeq(s), NEW e, NEW t, t = Append(s, e)
  PROVE  Appended(s, e, t)
<1> DEFINE R == Range(s) \cup {e}
<1>1. s \in Seq(R) /\ e \in R
  <2>1. Range(s) \subseteq R /\ e \in R
    OBVIOUS
  <2> HIDE DEF R
  <2> QED
    BY <2>1 DEF IsSeq
<1>2. /\ t \in Seq(R) /\ Len(s) \in Nat /\ DOMAIN s = 1 .. Len(s) /\ DOMAIN t = 1 .. Len(s) + 1
      /\ \A i \in DOMAIN s : t[i] = s[i]
      /\ t[Len(s) + 1] = e
  <2> HIDE DEF R
  <2> QED
    BY <1>1
<1>3. t \in [1 .. Len(t) -> R] /\ Len(t) \in Nat
  <2> HIDE DEF R
  <2> QED
    BY <1>2, LenProperties
<1>4. t \in [1 .. Len(t) -> Range(t)]
  BY <1>3 DEF Range
<1>5. t \in Seq(Range(t))
  <2> DEFINE Q == Range(t)
             n == Len(t)
  <2>1. n \in Nat /\ t \in [1 .. n -> Q]
    BY <1>3, <1>4
  <2> HIDE DEF Q, n
  <2>2. t \in UNION {[1 .. k -> Q] : k \in Nat}
    BY <2>1
  <2>3. t \in Seq(Q)
    BY <2>2, SeqDef
  <2> QED
    BY <2>3 DEF Q
<1> QED
  BY <1>2, <1>5 DEF IsSeq, Appended

LEMMA IsSeqDomain ==
  ASSUME NEW s, IsSeq(s)
  PROVE  Len(s) \in Nat /\ DOMAIN s = 1 .. Len(s)
BY DEF IsSeq

LEMMA TotalUsedType ==
  ASSUME used \in [Customers \X DiscountIds -> Nat], NEW id \in DiscountIds
  PROVE  TotalUsed(id) \in Nat
<1> DEFINE f == [u \in Customers |-> used[<<u, id>>]]
<1>1. IsFiniteSet(Customers)
  BY AssumptionsHold DEF Assumptions, SalesAssumption
<1>2. \A u \in Customers : f[u] \in Nat
  OBVIOUS
<1>3. TotalUsed(id) = SumFunctionOnSet(f, Customers)
  BY DEF TotalUsed, SumFunction
<1> HIDE DEF f
<1> QED
  BY <1>1, <1>2, <1>3, SumNat

LEMMA ApplicableType ==
  ASSUME used \in [Customers \X DiscountIds -> Nat], NEW c \in Customers, NEW id \in DiscountIds
  PROVE  Applicable(c, DiscountOf(id)) \in Nat
<1> DEFINE d == DiscountOf(id)
<1>1. d \in Discounts /\ d.id = id /\ d.maxTotal \in Nat /\ d.maxPerCustomer \in Nat
  BY DiscountOfType, AssumptionsHold DEF Assumptions, DiscountsAssumption
<1>2. TotalUsed(id) \in Nat /\ used[<<c, id>>] \in Nat
  BY TotalUsedType
<1> HIDE DEF d
<1>3. Applicable(c, d) \in Nat
  BY <1>1, <1>2 DEF Applicable, MinOf
<1> QED
  BY <1>3 DEF d

LEMMA CashbackRateType ==
  ASSUME rate \in CashbackRates, NEW c \in Customers \cup {None}
  PROVE  CashbackRate(c) \in Nat /\ (c = None => CashbackRate(c) = 0)
BY AssumptionsHold DEF CashbackRate, Assumptions, SalesAssumption, PricingAssumption

LEMMA InitSalesInv == Init => SalesInv
<1> SUFFICES ASSUME Init PROVE SalesInv
  OBVIOUS
<1>1. used \in [Customers \X DiscountIds -> Nat] /\ rate \in CashbackRates
  BY DEF Init
<1>2. begun \in 0 .. MaxSales /\ settings \in 0 .. MaxSettings /\ crowd \in Nat
  BY AssumptionsHold DEF Init, Assumptions, SalesAssumption
<1>3. at = [c \in Cashier |-> at[c]] /\ \A c \in Cashier : at[c] = Idle
  BY DEF Init
<1>4. IsSeq(sales) /\ IsSeq(returns) /\ DOMAIN sales = {} /\ DOMAIN returns = {}
  BY DEF Init, IsSeq
<1> QED
  BY <1>1, <1>2, <1>3, <1>4 DEF SalesInv, Settings, Tills, Books

(* The parts a step leaves alone.                                          *)
LEMMA BooksKept ==
  ASSUME Books, UNCHANGED <<sales, returns>>
  PROVE  Books'
BY DEF Books, TakenBack

LEMMA TillsKept ==
  ASSUME Tills, UNCHANGED at
  PROVE  Tills'
BY DEF Tills

(* A cashier's sale moves on; the others' stay.                            *)
LEMMA TillsPut ==
  ASSUME Tills, NEW c \in Cashier, NEW s, s = Idle \/ UnderWay(s), Put(c, s)
  PROVE  Tills'
<1>1. at' = [k \in Cashier |-> IF k = c THEN s ELSE at[k]]
  BY DEF Tills, Put
<1> QED
  BY <1>1 DEF Tills

LEMMA StepNotIdle ==
  ASSUME Tills, NEW c \in Cashier, at[c] # Idle \/ at[c].step \in {"priced", "consumed"}
  PROVE  UnderWay(at[c])
BY DEF Tills, Idle

LEMMA PriceSalesInv ==
  ASSUME SalesInv, NEW c \in Cashier, Price(c)
  PROVE  SalesInv'
<1>1. PICK cart \in Carts, customer \in Customers \cup {None} :
        LET type == IF customer = None THEN "none" ELSE TypeOf[customer]
            left == [id \in DiscountIds |-> IF customer = None THEN 0 ELSE Applicable(customer, DiscountOf(id))]
            invoice == PriceInvoice(cart, type, left)
        IN Put(c, [step |-> "priced", customer |-> customer, invoice |-> invoice,
                   rate |-> CashbackRate(customer)])
  BY DEF Price
<1> DEFINE type == IF customer = None THEN "none" ELSE TypeOf[customer]
           left == [id \in DiscountIds |-> IF customer = None THEN 0 ELSE Applicable(customer, DiscountOf(id))]
           invoice == PriceInvoice(cart, type, left)
           s == [step |-> "priced", customer |-> customer, invoice |-> invoice,
                 rate |-> CashbackRate(customer)]
<1>2. left \in [DiscountIds -> Nat]
  BY ApplicableType DEF SalesInv, Settings
<1>3. InvoiceOK(customer, invoice)
  <2> HIDE DEF left
  <2> QED
    BY <1>2, InvoiceFacts
<1>4. CashbackRate(customer) \in Nat /\ (customer = None => CashbackRate(customer) = 0)
  BY CashbackRateType DEF SalesInv, Settings
<1>5. UnderWay(s)
  <2> HIDE DEF invoice
  <2> QED
    BY <1>3, <1>4 DEF UnderWay
<1>6. Tills'
  <2> HIDE DEF s
  <2> QED
    BY <1>1, <1>5, TillsPut DEF SalesInv, s
<1>7. Books'
  BY BooksKept DEF Price, SalesInv
<1>8. Settings'
  BY AssumptionsHold DEF Price, SalesInv, Settings, Assumptions, SalesAssumption
<1> QED
  BY <1>6, <1>7, <1>8 DEF SalesInv

LEMMA ValidatedFinite ==
  Validated \subseteq Cashier /\ IsFiniteSet(Cashier) /\ IsFiniteSet(Validated)
BY FS_Subset, AssumptionsHold DEF Validated, Assumptions, SalesAssumption

LEMMA ConsumeSalesInv ==
  ASSUME SalesInv, NEW c \in Cashier, Consume(c)
  PROVE  SalesInv'
<1>1. UnderWay(at[c])
  BY StepNotIdle DEF SalesInv, Consume
<1> DEFINE s == [at[c] EXCEPT !.step = "consumed"]
<1>2. UnderWay(s)
  <2>1. s = [step |-> "consumed", customer |-> at[c].customer, invoice |-> at[c].invoice,
             rate |-> at[c].rate]
    BY <1>1 DEF UnderWay
  <2> HIDE DEF s
  <2> QED
    BY <1>1, <2>1 DEF UnderWay
<1>3. Tills'
  BY <1>2, TillsPut DEF SalesInv, Consume
<1>4. Books'
  BY BooksKept DEF Consume, SalesInv
<1>5. Settings'
  <2>1. Cardinality(Validated) \in Nat
    BY ValidatedFinite, FS_CardinalityType
  <2>2. crowd' \in Nat
    BY <2>1 DEF Consume, SalesInv, Settings
  <2> QED
    BY <2>2 DEF Consume, SalesInv, Settings
<1> QED
  BY <1>3, <1>4, <1>5 DEF SalesInv

LEMMA RollbackSalesInv ==
  ASSUME SalesInv, NEW c \in Cashier, Rollback(c)
  PROVE  SalesInv'
<1>1. Tills'
  BY TillsPut DEF SalesInv, Rollback
<1>2. Books' /\ Settings'
  BY BooksKept DEF Rollback, SalesInv, Settings
<1> QED
  BY <1>1, <1>2 DEF SalesInv

LEMMA SetCashbackRateSalesInv ==
  ASSUME SalesInv, NEW r \in CashbackRates, SetCashbackRate(r)
  PROVE  SalesInv'
<1>1. Settings'
  BY AssumptionsHold DEF SetCashbackRate, SalesInv, Settings, Assumptions, SalesAssumption
<1>2. Books' /\ Tills'
  BY BooksKept, TillsKept DEF SetCashbackRate, SalesInv
<1> QED
  BY <1>1, <1>2 DEF SalesInv

LEMMA CommitSalesInv ==
  ASSUME SalesInv, NEW c \in Cashier, Commit(c)
  PROVE  SalesInv'
<1> DEFINE s == at[c]
<1>1. UnderWay(s)
  BY StepNotIdle DEF SalesInv, Commit
<1>2. PICK last \in [LeavesOf(s.invoice) -> DOMAIN s.invoice] :
        /\ \A l \in DOMAIN last : last[l] \in LinesOf(s.invoice, l)
        /\ sales' = Append(sales,
             [customer |-> s.customer, invoice |-> s.invoice, rate |-> s.rate,
              cashback |-> EligibleAmount(s.invoice) * s.rate,
              issued |-> FlattenInvoice(s.invoice, last),
              refundable |-> Refundable(s.invoice, last)])
  BY DEF Commit
<1> DEFINE new == [customer |-> s.customer, invoice |-> s.invoice, rate |-> s.rate,
                   cashback |-> EligibleAmount(s.invoice) * s.rate,
                   issued |-> FlattenInvoice(s.invoice, last),
                   refundable |-> Refundable(s.invoice, last)]
<1>3. Recorded(new)
  <2>1. LastLines(s.invoice, last)
    BY <1>2 DEF LastLines
  <2>2. /\ new.customer = s.customer /\ new.invoice = s.invoice /\ new.rate = s.rate
        /\ new.cashback = EligibleAmount(s.invoice) * s.rate
        /\ new.issued = FlattenInvoice(s.invoice, last)
        /\ new.refundable = Refundable(s.invoice, last)
    OBVIOUS
  <2> HIDE DEF new
  <2> QED
    BY <1>1, <2>1, <2>2 DEF Recorded, UnderWay
<1>4. /\ IsSeq(sales') /\ Len(sales) \in Nat
      /\ DOMAIN sales = 1 .. Len(sales) /\ DOMAIN sales' = 1 .. Len(sales) + 1
      /\ \A i \in DOMAIN sales : sales'[i] = sales[i]
      /\ sales'[Len(sales) + 1] = new
  <2>1. IsSeq(sales) /\ sales' = Append(sales, new)
    BY <1>2 DEF SalesInv, Books
  <2> HIDE DEF new, s
  <2>2. Appended(sales, new, sales')
    BY <2>1, AppendSeq
  <2> QED
    BY <2>2 DEF Appended
<1>5. Books'
  <2> HIDE DEF new, s
  <2>1. returns' = returns
    BY DEF Commit
  <2>2. \A i \in DOMAIN sales' : Recorded(sales'[i])
    <3> SUFFICES ASSUME NEW i \in DOMAIN sales' PROVE Recorded(sales'[i])
      OBVIOUS
    <3>1. CASE i \in DOMAIN sales
      BY <1>4, <3>1 DEF SalesInv, Books
    <3>2. CASE i \notin DOMAIN sales
      <4>1. i = Len(sales) + 1
        BY <1>4, <3>2
      <4> QED
        BY <1>3, <1>4, <4>1
    <3> QED
      BY <3>1, <3>2
  <2>3. \A i \in DOMAIN returns' : TakenBack(returns[i])'
    <3> SUFFICES ASSUME NEW i \in DOMAIN returns PROVE TakenBack(returns[i])'
      BY <2>1
    <3>1. TakenBack(returns[i])
      BY DEF SalesInv, Books
    <3>2. returns[i].sale \in DOMAIN sales /\ sales'[returns[i].sale] = sales[returns[i].sale]
      BY <1>4, <3>1 DEF TakenBack
    <3>3. returns[i].sale \in DOMAIN sales'
      BY <1>4, <3>2
    <3> QED
      BY <2>1, <3>1, <3>2, <3>3 DEF TakenBack
  <2>4. IsSeq(returns')
    BY <2>1 DEF SalesInv, Books
  <2> QED
    BY <1>4, <2>2, <2>3, <2>4 DEF Books
<1>6. Tills'
  BY TillsPut DEF SalesInv, Commit
<1>7. Settings'
  <2>1. used' \in [Customers \X DiscountIds -> Nat]
    <3>1. used \in [Customers \X DiscountIds -> Nat]
      BY DEF SalesInv, Settings
    <3>2. \A id : Requested(s.invoice, id) \in Nat
      BY <1>1, RequestedFacts DEF UnderWay
    <3>3. used' = [u \in DOMAIN used |->
            IF u[1] = s.customer /\ u[2] \in RequestedIds(s.invoice)
            THEN Requested(s.invoice, u[2]) + IF UpsertAdds THEN used[u] ELSE 0
            ELSE used[u]]
      BY DEF Commit
    <3> HIDE DEF s
    <3> QED
      BY <3>1, <3>2, <3>3
  <2> QED
    BY <2>1 DEF Commit, SalesInv, Settings
<1> QED
  BY <1>5, <1>6, <1>7 DEF SalesInv

(* What a return takes back and pays.                                      *)
LEMMA RefundableType ==
  ASSUME NEW sale, Recorded(sale)
  PROVE  /\ IsFiniteSet(DOMAIN sale.refundable)
         /\ \A l \in DOMAIN sale.refundable :
              sale.refundable[l].qty \in Nat \ {0} /\ sale.refundable[l].total \in Nat
<1>1. PICK last : LastLines(sale.invoice, last) /\ sale.refundable = Refundable(sale.invoice, last)
  BY DEF Recorded
<1>2. DOMAIN sale.refundable = DOMAIN last /\ DOMAIN last \subseteq Leaf
  BY <1>1 DEF Refundable, LastLines, LeavesOf
<1>3. IsFiniteSet(DOMAIN sale.refundable)
  BY <1>2, FS_Subset, AssumptionsHold DEF Assumptions, PricingAssumption
<1>4. InvoiceOK(sale.customer, sale.invoice)
  BY DEF Recorded
<1>5. \A l \in DOMAIN sale.refundable :
        sale.refundable[l].qty \in Nat \ {0} /\ sale.refundable[l].total \in Nat
  BY <1>1, <1>2, <1>4, RefundableItem
<1> QED
  BY <1>3, <1>5

LEMMA RefundType ==
  ASSUME NEW sale, Recorded(sale), NEW items, Returnable(sale, items)
  PROVE  /\ RefundOf(sale.refundable, items) \in Nat
         /\ Deducted(sale, RefundOf(sale.refundable, items)) \in Nat
<1> DEFINE f == [l \in DOMAIN items |-> (sale.refundable[l].total * items[l]) \div sale.refundable[l].qty]
           refund == RefundOf(sale.refundable, items)
<1>1. \A l \in DOMAIN items : f[l] \in Nat
  <2> SUFFICES ASSUME NEW l \in DOMAIN items PROVE f[l] \in Nat
    OBVIOUS
  <2>1. items[l] \in Nat /\ sale.refundable[l].qty \in Nat \ {0} /\ sale.refundable[l].total \in Nat
    BY RefundableType DEF Returnable
  <2>2. sale.refundable[l].total * items[l] \in Nat
    BY <2>1, ProductNat
  <2> QED
    BY <2>1, <2>2, DivFloor
<1>2. refund = SumFunctionOnSet(f, DOMAIN items)
  BY DEF RefundOf, SumFunction
<1>3. IsFiniteSet(DOMAIN items)
  BY RefundableType, FS_Subset DEF Returnable
<1> HIDE DEF f, refund
<1>4. refund \in Nat
  BY <1>1, <1>2, <1>3, SumNat
<1>5. Deducted(sale, refund) \in Nat
  BY <1>4, ProductNat DEF Deducted, Recorded
<1> QED
  BY <1>4, <1>5 DEF refund

LEMMA ReturnSalesInv ==
  ASSUME SalesInv, NEW i \in DOMAIN sales, NEW items \in ReturnItems(sales[i]),
         NEW payoff, Return(i, items, payoff)
  PROVE  SalesInv'
<1> DEFINE sale == sales[i]
           refund == RefundOf(sale.refundable, items)
           deducted == Deducted(sale, refund)
           payable == refund * One - deducted - KeptTax(refund)
           new == [sale |-> i, items |-> items, refund |-> refund,
                   deducted |-> deducted, payable |-> payable]
<1>1. returns' = Append(returns, new) /\ payable >= 0
  BY DEF Return
<1>2. UNCHANGED <<used, rate, at, sales, begun, settings, crowd>>
  BY DEF Return
<1>3. Recorded(sale)
  BY DEF SalesInv, Books
<1>4. Returnable(sale, items)
  <2>1. PICK ls \in SUBSET DOMAIN sale.refundable, whole \in BOOLEAN :
          items = [l \in ls |-> IF whole THEN sale.refundable[l].qty ELSE 1]
    BY DEF ReturnItems
  <2>2. \A l \in DOMAIN sale.refundable : sale.refundable[l].qty \in Nat
    BY <1>3, RefundableType
  <2> HIDE DEF sale
  <2> QED
    BY <2>1, <2>2 DEF Returnable
<1>5. payable \in Nat
  <2>1. refund \in Nat /\ deducted \in Nat
    BY <1>3, <1>4, RefundType
  <2>2. One \in Nat /\ TaxRate \in Nat
    BY AssumptionsHold DEF Assumptions, PricingAssumption, SalesAssumption
  <2>3. refund * One \in Nat /\ KeptTax(refund) \in Nat
    <3> HIDE DEF refund
    <3> QED
      BY <2>1, <2>2, ProductNat DEF KeptTax
  <2>4. \A x, y, z \in Nat : x - y - z >= 0 => x - y - z \in Nat
    OBVIOUS
  <2> HIDE DEF refund, deducted
  <2> QED
    BY <1>1, <2>1, <2>3, <2>4
<1>6. TakenBack(new)
  <2>1. /\ new.sale = i /\ new.items = items /\ new.refund = refund
        /\ new.deducted = deducted /\ new.payable = payable
    OBVIOUS
  <2> HIDE DEF new
  <2> QED
    BY <1>4, <1>5, <2>1 DEF TakenBack
<1>7. /\ IsSeq(returns') /\ DOMAIN returns = 1 .. Len(returns) /\ Len(returns) \in Nat
      /\ DOMAIN returns' = 1 .. Len(returns) + 1
      /\ \A k \in DOMAIN returns : returns'[k] = returns[k]
      /\ returns'[Len(returns) + 1] = new
  <2>1. IsSeq(returns)
    BY DEF SalesInv, Books
  <2> HIDE DEF new
  <2>2. Appended(returns, new, returns')
    BY <1>1, <2>1, AppendSeq
  <2> QED
    BY <2>2 DEF Appended
<1>8. \A k \in DOMAIN returns' : TakenBack(returns[k])'
  <2> SUFFICES ASSUME NEW k \in DOMAIN returns' PROVE TakenBack(returns'[k])
    BY <1>2 DEF TakenBack
  <2> HIDE DEF new
  <2>1. CASE k \in DOMAIN returns
    BY <1>7, <2>1 DEF SalesInv, Books
  <2>2. CASE k \notin DOMAIN returns
    <3>1. k = Len(returns) + 1
      BY <1>7, <2>2
    <3> QED
      BY <1>6, <1>7, <3>1
  <2> QED
    BY <2>1, <2>2
<1>9. Books'
  BY <1>2, <1>7, <1>8 DEF SalesInv, Books
<1>10. Settings' /\ Tills'
  BY <1>2, TillsKept DEF SalesInv, Settings
<1> QED
  BY <1>9, <1>10 DEF SalesInv

LEMMA NextSalesInv == SalesInv /\ [Next]_vars => SalesInv'
<1> SUFFICES ASSUME SalesInv, [Next]_vars PROVE SalesInv'
  OBVIOUS
<1>1. ASSUME NEW c \in Cashier, Price(c) \/ Consume(c) \/ Commit(c) \/ Rollback(c)
      PROVE  SalesInv'
  BY <1>1, PriceSalesInv, ConsumeSalesInv, CommitSalesInv, RollbackSalesInv
<1>2. ASSUME NEW r \in CashbackRates, SetCashbackRate(r) PROVE SalesInv'
  BY <1>2, SetCashbackRateSalesInv
<1>3. ASSUME NEW i \in DOMAIN sales, NEW items \in ReturnItems(sales[i]),
             NEW payoff \in BOOLEAN, Return(i, items, payoff)
      PROVE  SalesInv'
  BY <1>3, ReturnSalesInv
<1>4. ASSUME UNCHANGED vars PROVE SalesInv'
  <2>1. Books' /\ Tills'
    BY <1>4, BooksKept, TillsKept DEF vars, SalesInv
  <2> QED
    BY <1>4, <2>1 DEF vars, SalesInv, Settings
<1> QED
  BY <1>1, <1>2, <1>3, <1>4 DEF Next

(* The inductive invariant holds in every reachable state.                 *)
THEOREM SalesInvariance == Spec => []SalesInv
BY InitSalesInv, NextSalesInv, PTL DEF Spec

-----------------------------------------------------------------------------
(* Types: the usages, the cashiers' steps, the sales and the returns        *)
(* recorded are what the variables' comments say.                           *)
LEMMA InvType == SalesInv => TypeOK
<1> SUFFICES ASSUME SalesInv PROVE TypeOK
  OBVIOUS
<1>1. \A c \in Cashier : at[c].step \in {"idle", "priced", "consumed"}
  BY DEF SalesInv, Tills, UnderWay, Idle
<1>2. ASSUME NEW i \in DOMAIN sales
      PROVE  LET s == sales[i] IN
             /\ s.customer \in Customers \cup {None}
             /\ \A p \in DOMAIN s.invoice : s.invoice[p].total \in Nat /\ s.invoice[p].off \in Nat
             /\ DOMAIN s.issued = LeavesOf(s.invoice) /\ DOMAIN s.refundable = LeavesOf(s.invoice)
  <2> DEFINE s == sales[i]
  <2>1. Recorded(s)
    BY DEF SalesInv, Books
  <2>2. PICK last : /\ LastLines(s.invoice, last)
                    /\ s.issued = FlattenInvoice(s.invoice, last)
                    /\ s.refundable = Refundable(s.invoice, last)
    BY <2>1 DEF Recorded
  <2>3. DOMAIN s.issued = LeavesOf(s.invoice) /\ DOMAIN s.refundable = LeavesOf(s.invoice)
    BY <2>2 DEF LastLines, FlattenInvoice, Refundable
  <2>4. \A p \in DOMAIN s.invoice : s.invoice[p].total \in Nat /\ s.invoice[p].off \in Nat
    BY <2>1 DEF Recorded, InvoiceOK, LineOK, Amounts
  <2> QED
    BY <2>1, <2>3, <2>4 DEF Recorded
<1>3. \A i \in DOMAIN returns : returns[i].sale \in DOMAIN sales /\ returns[i].payable \in Nat
  BY DEF SalesInv, Books, TakenBack
<1> QED
  BY <1>1, <1>2, <1>3 DEF TypeOK, SalesInv, Settings

(* Every recorded sale and return, and every sale under way, is well typed. *)
THEOREM TypeCorrect == Spec => []TypeOK
BY SalesInvariance, InvType, PTL

(* recordSale's flattenInvoiceItems: the goods issued for a sale are the   *)
(* units sold, and never more when a leaf is in two lines.                 *)
LEMMA InvIssued == SalesInv => IssuedIsSold
<1> SUFFICES ASSUME SalesInv, NEW i \in DOMAIN sales, NEW l \in DOMAIN sales[i].issued
             PROVE  LET s == sales[i]
                        lines == LinesOf(s.invoice, l)
                        sold == SumFunction([p \in lines |-> UnitsIn(s.invoice, p, l)])
                    IN s.issued[l] <= sold /\ (Cardinality(lines) = 1 => s.issued[l] = sold)
  BY DEF IssuedIsSold
<1> DEFINE s == sales[i]
<1>1. InvoiceOK(s.customer, s.invoice)
  BY DEF SalesInv, Books, Recorded
<1>2. PICK last : LastLines(s.invoice, last) /\ s.issued = FlattenInvoice(s.invoice, last)
  BY DEF SalesInv, Books, Recorded
<1>3. l \in DOMAIN last
  BY <1>2 DEF FlattenInvoice
<1> HIDE DEF s
<1>4. LET sold == SumFunction([p \in LinesOf(s.invoice, l) |-> UnitsIn(s.invoice, p, l)])
          issued == FlattenInvoice(s.invoice, last)[l]
      IN issued <= sold /\ (Cardinality(LinesOf(s.invoice, l)) = 1 => issued = sold)
  BY <1>1, <1>2, <1>3, IssuedFacts
<1> QED
  BY <1>2, <1>4 DEF s

(* recordSale takes no more units of a leaf from the stock than its invoice *)
(* sold, and exactly those of a leaf that is in one line.                   *)
THEOREM GoodsIssuedAreSold == Spec => []IssuedIsSold
BY SalesInvariance, InvIssued, PTL

(* The prices recordSale charges: the raised price less the larger discount *)
(* shown is the real price less the real discount.                          *)
LEMMA InvPaid == SalesInv => PaidIsRealDiscount
<1> SUFFICES ASSUME SalesInv, NEW i \in DOMAIN sales, NEW p \in DOMAIN sales[i].invoice
             PROVE  LET s == sales[i]
                        line == s.invoice[p]
                        type == IF s.customer = None THEN "consumer" ELSE TypeOf[s.customer]
                        real == RealPrice(p, resolvePolicy(type))
                    IN
                    /\ line.discount = {} => line.total = real * line.qty
                    /\ \A id \in line.discount : line.offQty = line.qty =>
                         LET d == DiscountOf(id) IN
                         line.total = IF d.kind = "campaign"
                                      THEN (real * (One - d.real) * line.qty) \div One
                                      ELSE (real - d.real) * line.qty
                    /\ p \in Bundle => line.unit = BundleUnitPrice(line.kids)
  BY DEF PaidIsRealDiscount
<1>1. LineOK(p, Variant(sales[i].customer), sales[i].invoice[p])
  BY DEF SalesInv, Books, Recorded, InvoiceOK
<1> QED
  BY <1>1 DEF LineOK, PaidFor, Components, Variant

(* For units a discount covers, priceInvoice charges the real price less    *)
(* the real discount, whatever raised price and larger discount it shows;   *)
(* a bundle's unit price is the sum of its components' prices.              *)
THEOREM RealDiscountIsPaid == Spec => []PaidIsRealDiscount
BY SalesInvariance, InvPaid, PTL

-----------------------------------------------------------------------------
(* Discount limits.  Of the customers us: what their validated sales still  *)
(* claim of a discount, what they have used of it, and that both together   *)
(* stay within the limit as many times over as sales ever overlapped.  A    *)
(* sale validates at most the limit itself, whatever others have claimed.   *)
Claim(c, us, id) ==
  IF c \in Validated /\ at[c].customer \in us THEN Requested(at[c].invoice, id) ELSE 0

Claims(us, id) == [c \in Cashier |-> Claim(c, us, id)]

UsedBy(us, id) == SumFunctionOnSet([u \in Customers |-> used[<<u, id>>]], us)

Bounded(us, id, max) ==
  /\ \A c \in Cashier : Claim(c, us, id) <= max
  /\ UsedBy(us, id) + SumFunctionOnSet(Claims(us, id), Cashier) <= crowd * max

LimitInv ==
  KeysReusable => \A d \in Discounts : IsLimited(d) =>
    /\ Bounded(Customers, d.id, d.maxTotal)
    /\ \A u \in Customers : Bounded({u}, d.id, d.maxPerCustomer)

LEMMA ClaimType ==
  ASSUME Tills, NEW us, NEW id
  PROVE  /\ \A c \in Cashier : Claim(c, us, id) \in Nat
         /\ SumFunctionOnSet(Claims(us, id), Cashier) \in Nat
<1>1. ASSUME NEW c \in Cashier PROVE Claim(c, us, id) \in Nat
  <2>1. CASE c \in Validated
    <3>1. UnderWay(at[c])
      BY <2>1, StepNotIdle DEF Validated
    <3> QED
      BY <3>1, RequestedFacts DEF Claim, UnderWay
  <2>2. CASE c \notin Validated
    BY <2>2 DEF Claim
  <2> QED
    BY <2>1, <2>2
<1>2. \A c \in Cashier : Claims(us, id)[c] \in Nat
  BY <1>1 DEF Claims
<1> QED
  BY <1>1, <1>2, ValidatedFinite, SumNat

LEMMA QuantitiesType ==
  ASSUME NEW qty \in [Customers \X DiscountIds -> Nat],
         NEW us \in SUBSET Customers, NEW id \in DiscountIds
  PROVE  /\ IsFiniteSet(us)
         /\ SumFunctionOnSet([u \in Customers |-> qty[<<u, id>>]], us) \in Nat
<1> DEFINE f == [u \in Customers |-> qty[<<u, id>>]]
<1>1. IsFiniteSet(us)
  BY FS_Subset, AssumptionsHold DEF Assumptions, SalesAssumption
<1>2. \A u \in us : f[u] \in Nat
  OBVIOUS
<1> HIDE DEF f
<1>3. SumFunctionOnSet(f, us) \in Nat
  BY <1>1, <1>2, SumNat
<1> QED
  BY <1>1, <1>3 DEF f

LEMMA UsedByType ==
  ASSUME used \in [Customers \X DiscountIds -> Nat], NEW us \in SUBSET Customers, NEW id \in DiscountIds
  PROVE  IsFiniteSet(us) /\ UsedBy(us, id) \in Nat
BY QuantitiesType DEF UsedBy

(* What the limits are stated of is UsedBy.                                 *)
LEMMA UsedByAll ==
  ASSUME NEW id
  PROVE  TotalUsed(id) = UsedBy(Customers, id)
BY DEF TotalUsed, UsedBy, SumFunction

LEMMA UsedByOne ==
  ASSUME used \in [Customers \X DiscountIds -> Nat], NEW u \in Customers, NEW id \in DiscountIds
  PROVE  UsedBy({u}, id) = used[<<u, id>>]
<1> DEFINE f == [v \in Customers |-> used[<<v, id>>]]
<1>1. f[u] = used[<<u, id>>] /\ f[u] \in Int
  OBVIOUS
<1> HIDE DEF f
<1>2. SumFunctionOnSet(f, {u}) = f[u]
  BY <1>1, SumSingleton
<1> QED
  BY <1>1, <1>2 DEF UsedBy, f

LEMMA DiscountFacts ==
  ASSUME NEW d \in Discounts
  PROVE  /\ d.id \in DiscountIds /\ DiscountOf(d.id) = d
         /\ d.maxTotal \in Nat /\ d.maxPerCustomer \in Nat
BY DiscountOfId, AssumptionsHold DEF Assumptions, DiscountsAssumption

(* n numbers of at most max each add up to no more than n times max.        *)
LEMMA SumAtMost ==
  ASSUME NEW S, IsFiniteSet(S), NEW T \in SUBSET S, NEW max \in Nat,
         NEW f, \A x \in S : f[x] \in Nat /\ f[x] <= max, \A x \in S \ T : f[x] = 0
  PROVE  SumFunctionOnSet(f, S) <= Cardinality(T) * max
<1> DEFINE Good == {U \in SUBSET T : SumFunctionOnSet(f, U) <= Cardinality(U) * max}
<1>1. IsFiniteSet(T)
  BY FS_Subset
<1>2. {} \in Good
  BY SumEmpty, FS_EmptySet
<1>3. ASSUME NEW U \in SUBSET T, NEW x \in T \ U, U \in Good PROVE U \cup {x} \in Good
  <2> DEFINE n == Cardinality(U)
             a == SumFunctionOnSet(f, U)
  <2>1. IsFiniteSet(U) /\ \A y \in U \cup {x} : f[y] \in Int
    BY <1>1, FS_Subset
  <2>2. SumFunctionOnSet(f, U \cup {x}) = f[x] + a /\ a \in Int
    BY <2>1, SumAdd, SumType
  <2>3. n \in Nat /\ Cardinality(U \cup {x}) = n + 1
    BY <2>1, FS_CardinalityType, FS_AddElement
  <2>4. a <= n * max /\ f[x] \in Nat /\ f[x] <= max
    BY <1>3
  <2> HIDE DEF n, a
  <2>5. n * max \in Nat /\ (n + 1) * max = n * max + max
    BY <2>3, ProductNat
  <2>6. f[x] + a <= (n + 1) * max
    BY <2>2, <2>4, <2>5
  <2> QED
    BY <2>2, <2>3, <2>6
<1> HIDE DEF Good
<1>4. T \in Good
  BY <1>1, <1>2, <1>3, FiniteInduction
<1>5. SumFunctionOnSet(f, S) = SumFunctionOnSet(f, T)
  <2>1. (\A x \in T : f[x] \in Int /\ f[x] = f[x]) /\ (\A x \in S \ T : f[x] = 0)
    OBVIOUS
  <2> QED
    BY <2>1, SumSupport
<1> QED
  BY <1>4, <1>5 DEF Good

(* Steps which use nothing up, and leave every claim or drop it.            *)
LEMMA BoundedKept ==
  ASSUME SalesInv, Tills', UNCHANGED <<used, crowd>>,
         NEW us \in SUBSET Customers, NEW id \in DiscountIds, NEW max \in Nat, Bounded(us, id, max),
         \A c \in Cashier : at'[c] = at[c] \/ c \notin Validated'
  PROVE  Bounded(us, id, max)'
<1> DEFINE w == Claims(us, id)
           v == [c \in Cashier |-> Claim(c, us, id)']
<1>1. \A c \in Cashier : w[c] \in Nat /\ w[c] <= max
  BY ClaimType DEF SalesInv, Bounded, Claims
<1>2. ASSUME NEW c \in Cashier PROVE v[c] \in Nat /\ v[c] <= w[c]
  <2>1. CASE at'[c] = at[c]
    <3>1. v[c] = w[c]
      BY <2>1 DEF Claims, Claim, Validated
    <3> QED
      BY <1>1, <3>1
  <2>2. CASE c \notin Validated'
    <3>1. v[c] = 0
      BY <2>2 DEF Claim
    <3> QED
      BY <1>1, <3>1
  <2> QED
    BY <2>1, <2>2
<1>3. \A c \in Cashier : w[c] \in Int /\ v[c] \in Int /\ v[c] <= w[c] /\ v[c] <= max
  <2> HIDE DEF v, w
  <2> QED
    BY <1>1, <1>2
<1>4. SumFunctionOnSet(v, Cashier) <= SumFunctionOnSet(w, Cashier)
  <2> HIDE DEF v, w
  <2> QED
    BY <1>3, ValidatedFinite, SumMono
<1>5. SumFunctionOnSet(v, Cashier) \in Int /\ SumFunctionOnSet(w, Cashier) \in Int
  <2> HIDE DEF v, w
  <2> QED
    BY <1>3, ValidatedFinite, SumType
<1>6. UsedBy(us, id)' = UsedBy(us, id) /\ UsedBy(us, id) \in Nat /\ crowd' = crowd /\ crowd * max \in Nat
  BY UsedByType, ProductNat DEF UsedBy, SalesInv, Settings
<1>7. UsedBy(us, id) + SumFunctionOnSet(w, Cashier) <= crowd * max
  BY DEF Bounded
<1>8. UsedBy(us, id)' + SumFunctionOnSet(v, Cashier) <= crowd' * max
  <2> HIDE DEF v, w
  <2> QED
    BY <1>4, <1>5, <1>6, <1>7
<1>9. \A c \in Cashier : Claim(c, us, id)' <= max
  BY <1>3
<1> QED
  BY <1>8, <1>9 DEF Bounded, Claims

(* A sale validates: it requests what the usages leave, the others at most  *)
(* the limit each.                                                          *)
LEMMA ConsumeBounded ==
  ASSUME SalesInv, NEW c \in Cashier, Consume(c),
         NEW us \in SUBSET Customers, NEW id \in DiscountIds, NEW max \in Nat, Bounded(us, id, max),
         \/ at[c].customer \notin us \/ Requested(at[c].invoice, id) = 0
         \/ Requested(at[c].invoice, id) + UsedBy(us, id) <= max
  PROVE  Bounded(us, id, max)'
<1> DEFINE w == Claims(us, id)
           v == [k \in Cashier |-> Claim(k, us, id)']
           a == UsedBy(us, id)
           n == Cardinality(Validated)
<1>1. UnderWay(at[c]) /\ c \notin Validated
  BY StepNotIdle DEF SalesInv, Consume, Validated
<1>2. /\ at' = [k \in Cashier |-> IF k = c THEN [at[c] EXCEPT !.step = "consumed"] ELSE at[k]]
      /\ UNCHANGED used /\ crowd \in Nat /\ n \in Nat /\ crowd' \in Nat
      /\ crowd <= crowd' /\ n + 1 <= crowd'
  <2>1. n \in Nat /\ crowd \in Nat
    BY ValidatedFinite, FS_CardinalityType DEF SalesInv, Settings
  <2>2. crowd' = IF n < crowd THEN crowd ELSE n + 1
    BY DEF Consume
  <2>3. /\ at' = [k \in Cashier |-> IF k = c THEN [at[c] EXCEPT !.step = "consumed"] ELSE at[k]]
        /\ UNCHANGED used
    BY DEF Consume, Put, SalesInv, Tills
  <2> HIDE DEF n
  <2> QED
    BY <2>1, <2>2, <2>3
<1>3. \A k \in Cashier \ {c} : v[k] = w[k]
  BY <1>2 DEF Claims, Claim, Validated
<1>4. w[c] = 0 /\ v[c] = IF at[c].customer \in us THEN Requested(at[c].invoice, id) ELSE 0
  <2>1. /\ at'[c].step = "consumed" /\ at'[c].customer = at[c].customer
        /\ at'[c].invoice = at[c].invoice
    BY <1>1, <1>2 DEF UnderWay
  <2> QED
    BY <1>1, <2>1 DEF Claims, Claim, Validated
<1>5. \A k \in Cashier : w[k] \in Nat /\ w[k] <= max
  BY ClaimType DEF SalesInv, Bounded, Claims
<1>6. v[c] \in Nat
  BY <1>1, <1>4, RequestedFacts DEF UnderWay
<1>7. a \in Nat /\ UsedBy(us, id)' = a
  BY <1>2, UsedByType DEF UsedBy, SalesInv, Settings
<1>8. v[c] = 0 \/ v[c] + a <= max
  BY <1>4, <1>7
<1>9. a + SumFunctionOnSet(w, Cashier) <= crowd * max
  BY DEF Bounded
<1>10. \A k \in Cashier \ Validated : w[k] = 0
  BY DEF Claims, Claim
<1> HIDE DEF w, v, a, n
<1> DEFINE x == SumFunctionOnSet(w, Cashier)
           y == SumFunctionOnSet(v, Cashier)
<1>11. \A k \in Cashier : v[k] \in Nat /\ v[k] <= max
  BY <1>3, <1>5, <1>6, <1>7, <1>8
<1>12. x \in Int /\ x <= n * max
  BY <1>5, <1>10, ValidatedFinite, SumAtMost, SumType DEF n
<1>13. y = v[c] + x
  <2> DEFINE r == Cashier \ {c}
  <2>1. IsFiniteSet(r) /\ \A k \in r : w[k] \in Int /\ v[k] = w[k]
    BY <1>3, <1>5, ValidatedFinite, FS_RemoveElement
  <2>2. SumFunctionOnSet(v, r) = SumFunctionOnSet(w, r)
    <3> HIDE DEF r
    <3> QED
      BY <2>1, SumSame
  <2>3. y = v[c] + SumFunctionOnSet(v, r)
    BY <1>11, ValidatedFinite, SumRemove
  <2>4. x = w[c] + SumFunctionOnSet(w, r)
    BY <1>5, ValidatedFinite, SumRemove
  <2>5. SumFunctionOnSet(w, r) \in Int
    <3> HIDE DEF r
    <3> QED
      BY <2>1, SumType
  <2> HIDE DEF r, x, y
  <2> QED
    BY <1>4, <2>2, <2>3, <2>4, <2>5
<1> HIDE DEF x
<1>14. a + y <= crowd' * max
  <2>1. CASE v[c] = 0
    <3>1. crowd * max <= crowd' * max /\ crowd * max \in Int /\ crowd' * max \in Int
      BY <1>2, ProductMono, ProductNat
    <3> QED
      BY <1>7, <1>9, <1>12, <1>13, <2>1, <3>1 DEF x
  <2>2. CASE v[c] + a <= max
    <3>1. (n + 1) * max <= crowd' * max /\ crowd' * max \in Int
      BY <1>2, ProductMono, ProductNat
    <3>2. (n + 1) * max = n * max + max /\ n * max \in Int
      BY <1>2, ProductNat
    <3>3. a + y <= max + n * max
      BY <1>6, <1>7, <1>12, <1>13, <2>2, <3>2
    <3> QED
      BY <1>6, <1>7, <1>12, <1>13, <3>1, <3>2, <3>3
  <2> QED
    BY <1>8, <2>1, <2>2
<1>15. \A k \in Cashier : Claim(k, us, id)' <= max
  BY <1>11 DEF v
<1> QED
  BY <1>7, <1>14, <1>15 DEF Bounded, Claims, v

(* A commit adds at most the sale's claim to the usages, and ends it.       *)
LEMMA CommitUsages ==
  ASSUME SalesInv, NEW c \in Cashier, Commit(c), NEW us \in SUBSET Customers, NEW id \in DiscountIds
  PROVE  UsedBy(us, id)' <= UsedBy(us, id) + Claim(c, us, id)
<1> DEFINE s == at[c]
           n == Claim(c, us, id)
           f == [u \in Customers |-> used[<<u, id>>]]
           g == [u \in Customers |-> IF u = s.customer THEN n ELSE 0]
           h == [u \in Customers |-> used'[<<u, id>>]]
           fg == [u \in Customers |-> f[u] + g[u]]
<1>1. UnderWay(s) /\ c \in Validated
  BY StepNotIdle DEF SalesInv, Commit, Validated
<1>2. Requested(s.invoice, id) \in Nat /\ n = IF s.customer \in us THEN Requested(s.invoice, id) ELSE 0
  BY <1>1, RequestedFacts DEF Claim, UnderWay
<1>3. used \in [Customers \X DiscountIds -> Nat] /\ IsFiniteSet(us)
  BY UsedByType DEF SalesInv, Settings
<1>4. ASSUME NEW u \in us PROVE f[u] \in Int /\ g[u] \in Int /\ h[u] \in Int /\ h[u] <= fg[u]
  <2>1. used[<<u, id>>] \in Nat /\ <<u, id>> \in DOMAIN used
    BY <1>3
  <2>2. used'[<<u, id>>] = IF u = s.customer /\ id \in RequestedIds(s.invoice)
                           THEN Requested(s.invoice, id) + IF UpsertAdds THEN used[<<u, id>>] ELSE 0
                           ELSE used[<<u, id>>]
    <3>1. used' = [v \in DOMAIN used |->
            IF v[1] = s.customer /\ v[2] \in RequestedIds(s.invoice)
            THEN Requested(s.invoice, v[2]) + IF UpsertAdds THEN used[v] ELSE 0
            ELSE used[v]]
      BY DEF Commit
    <3> HIDE DEF s
    <3> QED
      BY <2>1, <3>1
  <2> HIDE DEF s, n
  <2> QED
    BY <1>2, <2>1, <2>2
<1>5. \A u \in us : fg[u] = f[u] + g[u] /\ fg[u] \in Int
  <2>1. \A u \in us : fg[u] = f[u] + g[u]
    OBVIOUS
  <2>2. \A u \in us : f[u] \in Int /\ g[u] \in Int
    BY <1>4
  <2> HIDE DEF f, g, h, fg, n, s
  <2> QED
    BY <2>1, <2>2
<1>6. SumFunctionOnSet(g, us) = n
  <2>1. CASE s.customer \in us
    <3>1. g[s.customer] = n /\ \A u \in us \ {s.customer} : g[u] = 0
      BY <2>1
    <3> HIDE DEF g, n
    <3> QED
      BY <1>2, <1>3, <2>1, <3>1, SumOnly
  <2>2. CASE s.customer \notin us
    <3>1. (\A u \in us : g[u] = 0) /\ n = 0
      BY <1>2, <2>2
    <3> HIDE DEF g, n
    <3> QED
      BY <1>3, <3>1, SumZero
  <2> QED
    BY <2>1, <2>2
<1>7. UsedBy(us, id) = SumFunctionOnSet(f, us) /\ UsedBy(us, id)' = SumFunctionOnSet(h, us)
  BY DEF UsedBy
<1> HIDE DEF f, g, h, fg, n
<1>8. SumFunctionOnSet(fg, us) = SumFunctionOnSet(f, us) + SumFunctionOnSet(g, us)
  BY <1>3, <1>4, <1>5, SumPlus
<1>9. SumFunctionOnSet(h, us) <= SumFunctionOnSet(fg, us)
  BY <1>3, <1>4, <1>5, SumMono
<1> QED
  BY <1>6, <1>7, <1>8, <1>9 DEF n

LEMMA CommitBounded ==
  ASSUME SalesInv, SalesInv', NEW c \in Cashier, Commit(c),
         NEW us \in SUBSET Customers, NEW id \in DiscountIds, NEW max \in Nat, Bounded(us, id, max)
  PROVE  Bounded(us, id, max)'
<1> DEFINE w == Claims(us, id)
           v == [k \in Cashier |-> Claim(k, us, id)']
           a == UsedBy(us, id)
           b == UsedBy(us, id)'
<1>1. at' = [k \in Cashier |-> IF k = c THEN Idle ELSE at[k]] /\ crowd' = crowd
  BY DEF Commit, Put, SalesInv, Tills
<1>2. \A k \in Cashier \ {c} : v[k] = w[k]
  BY <1>1 DEF Claims, Claim, Validated
<1>3. v[c] = 0
  BY <1>1 DEF Claim, Validated, Idle
<1>4. \A k \in Cashier : w[k] \in Nat /\ w[k] <= max
  BY ClaimType DEF SalesInv, Bounded, Claims
<1>5. a \in Nat /\ b \in Nat /\ b <= a + w[c]
  <2>1. a \in Nat /\ b \in Nat
    BY QuantitiesType DEF SalesInv, Settings, UsedBy
  <2>2. b <= a + Claim(c, us, id)
    BY CommitUsages
  <2> HIDE DEF a, b
  <2> QED
    BY <2>1, <2>2 DEF Claims
<1>6. a + SumFunctionOnSet(w, Cashier) <= crowd * max /\ crowd * max \in Int
  BY ProductNat DEF Bounded, SalesInv, Settings
<1> HIDE DEF w, v, a, b
<1> DEFINE r == Cashier \ {c}
           x == SumFunctionOnSet(w, Cashier)
           y == SumFunctionOnSet(v, Cashier)
           z == SumFunctionOnSet(w, r)
<1>7. \A k \in Cashier : v[k] \in Nat /\ v[k] <= max
  BY <1>2, <1>3, <1>4
<1>8. IsFiniteSet(r) /\ \A k \in r : w[k] \in Int /\ v[k] = w[k]
  BY <1>2, <1>4, ValidatedFinite, FS_RemoveElement
<1>9. SumFunctionOnSet(v, r) = z /\ z \in Int
  <2> HIDE DEF r
  <2> QED
    BY <1>8, SumSame, SumType
<1>10. x = w[c] + z
  BY <1>4, ValidatedFinite, SumRemove
<1>11. y = z
  <2>1. y = v[c] + SumFunctionOnSet(v, r)
    BY <1>7, ValidatedFinite, SumRemove
  <2> HIDE DEF r, y, z
  <2> QED
    BY <1>3, <1>9, <2>1
<1>12. b + y <= crowd' * max
  <2>1. w[c] \in Nat /\ a + x <= crowd * max
    BY <1>4, <1>6
  <2> HIDE DEF x, y, z, r
  <2> QED
    BY <1>1, <1>5, <1>6, <1>9, <1>10, <1>11, <2>1
<1>13. \A k \in Cashier : Claim(k, us, id)' <= max
  BY <1>7 DEF v
<1> QED
  BY <1>12, <1>13 DEF Bounded, Claims, v, b

LEMMA InitLimitInv == Init => LimitInv
<1> SUFFICES ASSUME Init PROVE LimitInv
  OBVIOUS
<1>1. ASSUME NEW us \in SUBSET Customers, NEW id \in DiscountIds, NEW max \in Nat
      PROVE  Bounded(us, id, max)
  <2> DEFINE f == [u \in Customers |-> used[<<u, id>>]]
  <2>1. \A u \in us : f[u] = 0
    BY DEF Init
  <2>2. IsFiniteSet(us)
    BY UsedByType DEF Init
  <2>3. SumFunctionOnSet(f, us) = 0
    <3> HIDE DEF f
    <3> QED
      BY <2>1, <2>2, SumZero
  <2>4. \A c \in Cashier : Claim(c, us, id) = 0
    BY DEF Init, Claim, Validated, Idle
  <2>5. \A c \in Cashier : Claims(us, id)[c] = 0
    BY <2>4 DEF Claims
  <2>6. SumFunctionOnSet(Claims(us, id), Cashier) = 0
    BY <2>5, ValidatedFinite, SumZero
  <2>7. crowd = 0 /\ UsedBy(us, id) = 0
    BY <2>3 DEF UsedBy, Init
  <2> QED
    BY <2>4, <2>6, <2>7 DEF Bounded
<1> QED
  BY <1>1, DiscountFacts DEF LimitInv

(* A step keeps the invariant if it keeps each of the bounds.               *)
LEMMA LimitInvKept ==
  ASSUME LimitInv,
         ASSUME NEW us \in SUBSET Customers, NEW id \in DiscountIds, NEW max \in Nat, Bounded(us, id, max)
         PROVE  Bounded(us, id, max)'
  PROVE  LimitInv'
<1> SUFFICES ASSUME KeysReusable, NEW d \in Discounts, IsLimited(d)
             PROVE  /\ Bounded(Customers, d.id, d.maxTotal)'
                    /\ \A u \in Customers : Bounded({u}, d.id, d.maxPerCustomer)'
  BY DEF LimitInv
<1> QED
  BY DiscountFacts DEF LimitInv

LEMMA ConsumeLimitInv ==
  ASSUME SalesInv, LimitInv, NEW c \in Cashier, Consume(c)
  PROVE  LimitInv'
<1> SUFFICES ASSUME KeysReusable, NEW d \in Discounts, IsLimited(d)
             PROVE  /\ Bounded(Customers, d.id, d.maxTotal)'
                    /\ \A u \in Customers : Bounded({u}, d.id, d.maxPerCustomer)'
  BY DEF LimitInv
<1> DEFINE s == at[c]
           q == Requested(s.invoice, d.id)
<1>1. UnderWay(s) /\ used \in [Customers \X DiscountIds -> Nat]
  BY StepNotIdle DEF SalesInv, Settings, Consume
<1>2. \/ s.customer = None \/ q = 0
      \/ q + TotalUsed(d.id) <= d.maxTotal /\ q + used[<<s.customer, d.id>>] <= d.maxPerCustomer
  <2>1. CASE d.id \in RequestedIds(s.invoice)
    <3>1. s.customer # None => UsagesAllowed(s.customer, s.invoice)
      BY DEF Consume
    <3> QED
      BY <2>1, <3>1, DiscountFacts DEF UsagesAllowed
  <2>2. CASE d.id \notin RequestedIds(s.invoice)
    <3>1. \A p \in DOMAIN s.invoice : d.id \notin s.invoice[p].discount
      BY <2>2 DEF RequestedIds
    <3> QED
      BY <1>1, <3>1, RequestedFacts DEF UnderWay
  <2> QED
    BY <2>1, <2>2
<1>3. None \notin Customers
  BY AssumptionsHold DEF Assumptions, SalesAssumption
<1>4. Bounded(Customers, d.id, d.maxTotal)'
  <2>1. Bounded(Customers, d.id, d.maxTotal)
    BY DEF LimitInv
  <2>2. s.customer \notin Customers \/ q = 0 \/ q + UsedBy(Customers, d.id) <= d.maxTotal
    BY <1>2, <1>3, UsedByAll
  <2> QED
    BY <2>1, <2>2, DiscountFacts, ConsumeBounded
<1>5. ASSUME NEW u \in Customers PROVE Bounded({u}, d.id, d.maxPerCustomer)'
  <2>1. Bounded({u}, d.id, d.maxPerCustomer)
    BY DEF LimitInv
  <2>2. s.customer \notin {u} \/ q = 0 \/ q + UsedBy({u}, d.id) <= d.maxPerCustomer
    BY <1>1, <1>2, <1>3, UsedByOne, DiscountFacts
  <2>3. {u} \in SUBSET Customers
    OBVIOUS
  <2> QED
    BY <2>1, <2>2, <2>3, DiscountFacts, ConsumeBounded
<1> QED
  BY <1>4, <1>5

LEMMA NextLimitInv == SalesInv /\ SalesInv' /\ LimitInv /\ [Next]_vars => LimitInv'
<1> SUFFICES ASSUME SalesInv, SalesInv', LimitInv, [Next]_vars PROVE LimitInv'
  OBVIOUS
<1>0. Tills /\ Tills'
  BY DEF SalesInv
<1>1. ASSUME UNCHANGED <<used, crowd>>, \A c \in Cashier : at'[c] = at[c] \/ c \notin Validated'
      PROVE  LimitInv'
  BY <1>0, <1>1, BoundedKept, LimitInvKept
<1>2. ASSUME NEW c \in Cashier, NEW s, Put(c, s), s.step # "consumed", UNCHANGED <<used, crowd>>
      PROVE  LimitInv'
  <2>1. at' = [k \in Cashier |-> IF k = c THEN s ELSE at[k]]
    BY <1>0, <1>2 DEF Tills, Put
  <2> QED
    BY <1>1, <1>2, <2>1 DEF Validated
<1>3. ASSUME NEW c \in Cashier, Price(c) PROVE LimitInv'
  <2>1. PICK s : Put(c, s) /\ s.step = "priced"
    BY <1>3 DEF Price
  <2> QED
    BY <1>2, <1>3, <2>1 DEF Price
<1>4. ASSUME NEW c \in Cashier, Commit(c) PROVE LimitInv'
  BY <1>4, CommitBounded, LimitInvKept
<1>5. ASSUME NEW c \in Cashier, Rollback(c) PROVE LimitInv'
  <2>1. Put(c, Idle) /\ Idle.step # "consumed"
    BY <1>5 DEF Rollback, Idle
  <2> QED
    BY <1>2, <1>5, <2>1 DEF Rollback
<1>6. ASSUME UNCHANGED <<used, at, crowd>> PROVE LimitInv'
  BY <1>1, <1>6
<1>7. ASSUME NEW r, SetCashbackRate(r) PROVE LimitInv'
  BY <1>6, <1>7 DEF SetCashbackRate
<1>8. ASSUME NEW i, NEW items, NEW payoff, Return(i, items, payoff) PROVE LimitInv'
  BY <1>6, <1>8 DEF Return
<1>9. ASSUME UNCHANGED vars PROVE LimitInv'
  BY <1>6, <1>9 DEF vars
<1> QED
  BY <1>3, <1>4, <1>5, <1>7, <1>8, <1>9, ConsumeLimitInv DEF Next

LEMMA InvOveruse == SalesInv /\ LimitInv => OveruseIsBounded
<1> SUFFICES ASSUME SalesInv, LimitInv, KeysReusable, NEW d \in Discounts, IsLimited(d)
             PROVE  /\ TotalUsed(d.id) <= crowd * d.maxTotal
                    /\ \A u \in Customers : used[<<u, d.id>>] <= crowd * d.maxPerCustomer
  BY DEF OveruseIsBounded
<1>1. used \in [Customers \X DiscountIds -> Nat] /\ crowd \in Nat
  BY DEF SalesInv, Settings
<1>2. ASSUME NEW us \in SUBSET Customers, NEW max \in Nat, Bounded(us, d.id, max)
      PROVE  UsedBy(us, d.id) <= crowd * max
  <2>1. UsedBy(us, d.id) + SumFunctionOnSet(Claims(us, d.id), Cashier) <= crowd * max
    BY <1>2 DEF Bounded
  <2>2. SumFunctionOnSet(Claims(us, d.id), Cashier) \in Nat
    BY ClaimType DEF SalesInv
  <2>3. UsedBy(us, d.id) \in Nat /\ crowd * max \in Nat
    BY <1>1, UsedByType, DiscountFacts, ProductNat
  <2> QED
    BY <2>1, <2>2, <2>3
<1>3. TotalUsed(d.id) <= crowd * d.maxTotal
  BY <1>2, UsedByAll, DiscountFacts DEF LimitInv
<1>4. ASSUME NEW u \in Customers PROVE used[<<u, d.id>>] <= crowd * d.maxPerCustomer
  <2>1. {u} \in SUBSET Customers /\ Bounded({u}, d.id, d.maxPerCustomer)
    BY DEF LimitInv
  <2>2. UsedBy({u}, d.id) <= crowd * d.maxPerCustomer
    BY <1>2, <2>1, DiscountFacts
  <2> QED
    BY <1>1, <2>2, UsedByOne, DiscountFacts
<1> QED
  BY <1>3, <1>4

(* Sales that overlap between commitDiscountUsages' check under the Redis   *)
(* lock and the commit take a discount beyond its limits, but not beyond    *)
(* each limit once per sale that was ever there at once.                    *)
THEOREM OveruseAlwaysBounded == Spec => []OveruseIsBounded
<1>1. Init => SalesInv /\ LimitInv
  BY InitSalesInv, InitLimitInv
<1>2. SalesInv /\ LimitInv /\ [Next]_vars => (SalesInv /\ LimitInv)'
  BY NextSalesInv, NextLimitInv
<1> QED
  BY <1>1, <1>2, InvOveruse, PTL DEF Spec

-----------------------------------------------------------------------------
(* Refunds.  units[l][i] is how many of leaf l return i takes back, and      *)
(* share[l][i] what it refunds for them.                                     *)
LEMMA ReturnsOfSale ==
  ASSUME SalesInv, NEW s \in DOMAIN sales
  PROVE  /\ IsFiniteSet(ReturnsOf(s)) /\ Recorded(sales[s])
         /\ \A i \in ReturnsOf(s) :
              /\ Returnable(sales[s], returns[i].items)
              /\ returns[i].refund = RefundOf(sales[s].refundable, returns[i].items)
              /\ returns[i].refund \in Nat
              /\ returns[i].deducted = Deducted(sales[s], returns[i].refund)
<1>1. Recorded(sales[s])
  BY DEF SalesInv, Books
<1>2. IsFiniteSet(ReturnsOf(s))
  <2>1. Len(returns) \in Nat /\ DOMAIN returns = 1 .. Len(returns)
    BY IsSeqDomain DEF SalesInv, Books
  <2>2. IsFiniteSet(1 .. Len(returns))
    BY <2>1, FS_Interval
  <2> QED
    BY <2>1, <2>2, FS_Subset DEF ReturnsOf
<1>3. ASSUME NEW i \in ReturnsOf(s)
      PROVE  /\ Returnable(sales[s], returns[i].items)
             /\ returns[i].refund = RefundOf(sales[s].refundable, returns[i].items)
             /\ returns[i].deducted = Deducted(sales[s], returns[i].refund)
  BY DEF ReturnsOf, SalesInv, Books, TakenBack
<1>4. \A i \in ReturnsOf(s) : returns[i].refund \in Nat
  BY <1>1, <1>3, RefundType
<1> QED
  BY <1>1, <1>2, <1>3, <1>4

(* A refund, summed over all leaves of the sale.                            *)
LEMMA RefundOverLeaves ==
  ASSUME NEW sale, Recorded(sale), NEW items, Returnable(sale, items),
         NEW units, \A l \in DOMAIN sale.refundable : units[l] = IF l \in DOMAIN items THEN items[l] ELSE 0,
         NEW share, \A l \in DOMAIN sale.refundable :
                      share[l] = (sale.refundable[l].total * units[l]) \div sale.refundable[l].qty
  PROVE  /\ \A l \in DOMAIN sale.refundable : units[l] \in Nat /\ share[l] \in Nat
         /\ SumFunctionOnSet(share, DOMAIN sale.refundable) = RefundOf(sale.refundable, items)
<1> DEFINE S == DOMAIN sale.refundable
           f == [l \in DOMAIN items |-> (sale.refundable[l].total * items[l]) \div sale.refundable[l].qty]
<1>1. IsFiniteSet(S) /\ DOMAIN items \in SUBSET S
  BY RefundableType DEF Returnable
<1>2. ASSUME NEW l \in S
      PROVE  units[l] \in Nat /\ share[l] \in Nat
  <2>1. sale.refundable[l].qty \in Nat \ {0} /\ sale.refundable[l].total \in Nat
    BY RefundableType
  <2>2. units[l] \in Nat
    BY DEF Returnable
  <2>3. sale.refundable[l].total * units[l] \in Nat
    BY <2>1, <2>2, ProductNat
  <2> QED
    BY <2>1, <2>2, <2>3, DivFloor
<1>3. ASSUME NEW l \in S \ DOMAIN items PROVE share[l] = 0
  <2>1. sale.refundable[l].qty \in Nat \ {0} /\ sale.refundable[l].total \in Nat
    BY RefundableType
  <2>2. \A t \in Nat, q \in Nat \ {0} : (t * 0) \div q = 0
    OBVIOUS
  <2>3. units[l] = 0
    OBVIOUS
  <2> QED
    BY <2>1, <2>2, <2>3
<1>4. \A l \in DOMAIN items : f[l] \in Int /\ share[l] = f[l]
  BY <1>1, <1>2
<1>5. RefundOf(sale.refundable, items) = SumFunctionOnSet(f, DOMAIN items)
  BY DEF RefundOf, SumFunction
<1>6. SumFunctionOnSet(share, S) = SumFunctionOnSet(f, DOMAIN items)
  <2> HIDE DEF S, f
  <2> QED
    BY <1>1, <1>3, <1>4, SumSupport
<1> QED
  BY <1>2, <1>5, <1>6

LEMMA RefundedWithinTotal ==
  ASSUME SalesInv, NEW s \in DOMAIN sales,
         \A l \in DOMAIN sales[s].refundable : Returned(s, l) <= sales[s].refundable[l].qty
  PROVE  Refunded(s) <= GrandTotal(sales[s].invoice)
<1> DEFINE sale == sales[s]
           sold == sale.refundable
           S == DOMAIN sold
           I == ReturnsOf(s)
           n(i, l) == IF l \in DOMAIN returns[i].items THEN returns[i].items[l] ELSE 0
           units == [i \in I |-> [l \in S |-> n(i, l)]]
           share == [i \in I |-> [l \in S |-> (sold[l].total * n(i, l)) \div sold[l].qty]]
           back == [l \in S |-> [i \in I |-> n(i, l)]]
           paid == [l \in S |-> [i \in I |-> (sold[l].total * n(i, l)) \div sold[l].qty]]
           refunds == [i \in I |-> returns[i].refund]
           byLeaf == [l \in S |-> SumFunctionOnSet(paid[l], I)]
           total == [l \in S |-> sold[l].total]
<1>1. Recorded(sale) /\ IsFiniteSet(I) /\ IsFiniteSet(S)
  BY ReturnsOfSale, RefundableType
<1>2. \A l \in S : sold[l].qty \in Nat \ {0} /\ sold[l].total \in Nat
  BY <1>1, RefundableType
<1>3. \A i \in I : /\ \A l \in S : n(i, l) \in Nat /\ share[i][l] \in Nat
                   /\ SumFunctionOnSet(share[i], S) = refunds[i]
  <2> SUFFICES ASSUME NEW i \in I
               PROVE  /\ \A l \in S : n(i, l) \in Nat /\ share[i][l] \in Nat
                      /\ SumFunctionOnSet(share[i], S) = refunds[i]
    OBVIOUS
  <2>1. Returnable(sale, returns[i].items) /\ refunds[i] = RefundOf(sold, returns[i].items)
    BY ReturnsOfSale
  <2>2. \A l \in S : units[i][l] = IF l \in DOMAIN returns[i].items THEN returns[i].items[l] ELSE 0
    OBVIOUS
  <2>3. \A l \in S : share[i][l] = (sold[l].total * units[i][l]) \div sold[l].qty
    OBVIOUS
  <2>4. \A l \in S : units[i][l] = n(i, l)
    OBVIOUS
  <2> DEFINE u == units[i]
             h == share[i]
             items == returns[i].items
  <2>5. /\ \A l \in DOMAIN sale.refundable : u[l] = IF l \in DOMAIN items THEN items[l] ELSE 0
        /\ \A l \in DOMAIN sale.refundable :
             h[l] = (sale.refundable[l].total * u[l]) \div sale.refundable[l].qty
    BY <2>2, <2>3
  <2>6. Returnable(sale, items)
    BY <2>1
  <2> HIDE DEF u, h, items, sale, I
  <2>7. \A l \in DOMAIN sale.refundable : u[l] \in Nat /\ h[l] \in Nat
    BY <1>1, <2>5, <2>6, RefundOverLeaves
  <2>8. SumFunctionOnSet(h, DOMAIN sale.refundable) = RefundOf(sale.refundable, items)
    BY <1>1, <2>5, <2>6, RefundOverLeaves
  <2> HIDE DEF units, share, n, refunds
  <2> QED
    BY <2>1, <2>4, <2>7, <2>8 DEF u, h, items
<1>4. Transposed(share, paid, I, S) /\ \A i \in I : \A l \in S : paid[l][i] \in Int
  <2>1. \A i \in I : \A l \in S : paid[l][i] = share[i][l]
    <3> HIDE DEF n, I, S, sold
    <3> QED
      OBVIOUS
  <2>2. \A i \in I : \A l \in S : share[i][l] \in Int
    <3> HIDE DEF n, I, S, sold, share, refunds
    <3> QED
      BY <1>3
  <2> HIDE DEF n, I, S, sold, share, paid
  <2> QED
    BY <2>1, <2>2 DEF Transposed
<1>5. Refunded(s) = SumFunctionOnSet(refunds, I)
  BY DEF Refunded, SumFunction
<1>6. SumFunctionOnSet(refunds, I) = SumFunctionOnSet(byLeaf, S)
  <2>1. \A i \in I : refunds[i] = SumFunctionOnSet(share[i], S)
    BY <1>3
  <2>2. \A l \in S : byLeaf[l] = SumFunctionOnSet(paid[l], I)
    OBVIOUS
  <2> HIDE DEF S, I, share, paid, refunds, byLeaf, n, sold
  <2> QED
    BY <1>1, <1>4, <2>1, <2>2, SumSwap
<1>7. ASSUME NEW l \in S PROVE byLeaf[l] \in Int /\ byLeaf[l] <= total[l] /\ total[l] \in Int
  <2>1. SumFunctionOnSet(back[l], I) = Returned(s, l)
    BY DEF Returned, SumFunction
  <2>2. SumFunctionOnSet(back[l], I) <= sold[l].qty
    BY <2>1
  <2>3. \A i \in I : back[l][i] \in Nat /\ paid[l][i] = (sold[l].total * back[l][i]) \div sold[l].qty
    BY <1>3
  <2>4. byLeaf[l] = SumFunctionOnSet(paid[l], I) /\ total[l] = sold[l].total
    OBVIOUS
  <2>5. \A i \in I : paid[l][i] \in Int
    BY <1>4
  <2> DEFINE x == back[l]
             y == paid[l]
             whole == sold[l].total
             parts == sold[l].qty
  <2>6. whole \in Nat /\ parts \in Nat \ {0}
    BY <1>2
  <2> HIDE DEF x, y, whole, parts, I, back, paid, byLeaf, total, S
  <2>7. SumFunctionOnSet(y, I) <= whole
    BY <1>1, <2>2, <2>3, <2>6, SharesAddUp DEF x, y, whole, parts
  <2>8. SumFunctionOnSet(y, I) \in Int
    BY <1>1, <2>5, SumType DEF y
  <2> QED
    BY <2>4, <2>6, <2>7, <2>8 DEF y, whole
<1>8. SumFunctionOnSet(byLeaf, S) <= SumFunctionOnSet(total, S)
  <2> HIDE DEF S, byLeaf, total
  <2> QED
    BY <1>1, <1>7, SumMono
<1>9. SumFunctionOnSet(total, S) <= GrandTotal(sale.invoice)
  <2>1. PICK last : LastLines(sale.invoice, last) /\ sold = Refundable(sale.invoice, last)
    BY <1>1 DEF Recorded
  <2>2. InvoiceOK(sale.customer, sale.invoice)
    BY <1>1 DEF Recorded
  <2>3. S = DOMAIN last /\ \A l \in DOMAIN last : total[l] = Refundable(sale.invoice, last)[l].total
    BY <2>1 DEF Refundable
  <2> HIDE DEF S, total, sale, sold
  <2> QED
    BY <2>1, <2>2, <2>3, RefundableTotal
<1>10. SumFunctionOnSet(total, S) \in Int /\ SumFunctionOnSet(byLeaf, S) \in Int
       /\ GrandTotal(sale.invoice) \in Int
  <2>1. \A l \in S : total[l] \in Int /\ byLeaf[l] \in Int
    BY <1>7
  <2>2. GrandTotal(sale.invoice) \in Int
    BY <1>1, InvoiceAmounts DEF Recorded
  <2> HIDE DEF S, byLeaf, total
  <2>3. SumFunctionOnSet(total, S) \in Int
    BY <1>1, <2>1, SumType
  <2>4. SumFunctionOnSet(byLeaf, S) \in Int
    BY <1>1, <2>1, SumType
  <2> QED
    BY <2>2, <2>3, <2>4
<1> HIDE DEF S, I, refunds, byLeaf, total
<1> QED
  BY <1>5, <1>6, <1>8, <1>9, <1>10

(* Cashback is deducted in proportion to what is refunded.                  *)
LEMMA KeptBackOfRefunded ==
  ASSUME SalesInv, NEW s \in DOMAIN sales
  PROVE  Refunded(s) \in Nat /\ KeptBack(s) = sales[s].rate * Refunded(s)
<1> DEFINE sale == sales[s]
           I == ReturnsOf(s)
           refunds == [i \in I |-> returns[i].refund]
           deductions == [i \in I |-> returns[i].deducted]
<1>1. IsFiniteSet(I) /\ Recorded(sale)
  BY ReturnsOfSale
<1>2. sale.rate \in Nat /\ (sale.customer = None => sale.rate = 0)
  BY <1>1 DEF Recorded
<1>3. ASSUME NEW i \in I
      PROVE  refunds[i] \in Nat /\ deductions[i] = sale.rate * refunds[i]
  <2>1. returns[i].refund \in Nat /\ returns[i].deducted = Deducted(sale, returns[i].refund)
    BY ReturnsOfSale
  <2>2. \A x \in Nat : Deducted(sale, x) = sale.rate * x
    <3> HIDE DEF sale
    <3> QED
      BY <1>2 DEF Deducted
  <2> QED
    BY <2>1, <2>2
<1>4. Refunded(s) = SumFunctionOnSet(refunds, I) /\ KeptBack(s) = SumFunctionOnSet(deductions, I)
  BY DEF Refunded, KeptBack, SumFunction
<1> HIDE DEF I, refunds, deductions, sale
<1>5. SumFunctionOnSet(refunds, I) \in Nat
  BY <1>1, <1>3, SumNat
<1>6. SumFunctionOnSet(deductions, I) = sale.rate * SumFunctionOnSet(refunds, I)
  <2>1. \A i \in I : refunds[i] \in Int /\ deductions[i] = sale.rate * refunds[i]
    BY <1>3
  <2>2. sale.rate \in Int
    BY <1>2
  <2> QED
    BY <1>1, <2>1, <2>2, SumTimes
<1> QED
  BY <1>4, <1>5, <1>6 DEF sale

LEMMA InvRefunds == SalesInv => RefundsWithinPaid
<1> SUFFICES ASSUME SalesInv, NEW s \in DOMAIN sales,
                    \A l \in DOMAIN sales[s].refundable : Returned(s, l) <= sales[s].refundable[l].qty
             PROVE  /\ Refunded(s) <= GrandTotal(sales[s].invoice)
                    /\ Refunded(s) = GrandTotal(sales[s].invoice) => KeptBack(s) >= sales[s].cashback
  BY DEF RefundsWithinPaid
<1> DEFINE sale == sales[s]
           total == GrandTotal(sale.invoice)
           eligible == EligibleAmount(sale.invoice)
<1>1. Refunded(s) <= total
  BY RefundedWithinTotal
<1>2. Refunded(s) \in Nat /\ KeptBack(s) = sale.rate * Refunded(s)
  BY KeptBackOfRefunded
<1>3. sale.rate \in Nat /\ sale.cashback = eligible * sale.rate
      /\ InvoiceOK(sale.customer, sale.invoice)
  BY ReturnsOfSale DEF Recorded
<1> HIDE DEF sale
<1>4. total \in Nat /\ eligible \in Nat /\ eligible <= total
  BY <1>3, InvoiceAmounts
<1> HIDE DEF total, eligible
<1>5. eligible * sale.rate <= sale.rate * total
  <2>1. eligible * sale.rate <= total * sale.rate
    BY <1>3, <1>4, ProductMono
  <2>2. total * sale.rate = sale.rate * total
    BY <1>3, <1>4
  <2> QED
    BY <2>1, <2>2
<1>6. Refunded(s) = total => KeptBack(s) >= sale.cashback
  <2> SUFFICES ASSUME Refunded(s) = total PROVE KeptBack(s) >= sale.cashback
    OBVIOUS
  <2>1. KeptBack(s) = sale.rate * total
    BY <1>2
  <2>2. sale.rate * total \in Nat /\ eligible * sale.rate \in Nat
    BY <1>3, <1>4, ProductNat
  <2> QED
    BY <1>3, <1>5, <2>1, <2>2
<1> QED
  BY <1>1, <1>6 DEF sale, total

(* As long as recordReturn is not asked for a unit twice, a sale's refunds  *)
(* stay within what was paid, and all of it back means the cashback is.     *)
THEOREM RefundsBounded == Spec => []RefundsWithinPaid
BY SalesInvariance, InvRefunds, PTL

=============================================================================
