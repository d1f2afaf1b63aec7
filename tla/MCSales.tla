------------------------------ MODULE MCSales ------------------------------
(***************************************************************************)
(* Sales for TLC: two leaves and a bundle of them, a limited campaign on   *)
(* the bundle, a limited specific discount on one leaf and an unlimited    *)
(* campaign the specific one hides.  The amounts divide exactly.           *)
(***************************************************************************)
EXTENDS Sales, TLC

CONSTANTS pad, bolt, kit, ann, ben, garage, b1, c1

MCItems == [x \in {kit} |-> [l \in {pad, bolt} |-> IF l = pad THEN 1 ELSE 2]]
MCPurchasePrice == [l \in Leaf |-> IF l = pad THEN 200 ELSE 100]
MCReferences == [l \in Leaf |-> [brand |-> b1, categories |-> <<c1>>]]
MCMarkupPolicies ==
  {[id |-> "id1", scope |-> "product", ref |-> pad, rate |-> 9, priority |-> 1],
   [id |-> "id2", scope |-> "brand", ref |-> b1, rate |-> 8, priority |-> 1]}
MCGlobalRate == [k \in {"retail", "wholesale"} |-> IF k = "retail" THEN 5 ELSE 2]
MCDiscounts ==
  {[id |-> "campaign", product |-> kit, kind |-> "campaign", display |-> 5, real |-> 2,
    maxTotal |-> 2, maxPerCustomer |-> 1],
   [id |-> "specific", product |-> pad, kind |-> "specific", display |-> 100, real |-> 60,
    maxTotal |-> 2, maxPerCustomer |-> 2],
   [id |-> "hidden", product |-> pad, kind |-> "campaign", display |-> 5, real |-> 5,
    maxTotal |-> Unlimited, maxPerCustomer |-> Unlimited]}
MCTypeOf == [x \in Customers |-> IF x = garage THEN "merchant" ELSE "consumer"]
MCCarts ==
  {[x \in {pad} |-> 2], [x \in {kit} |-> 2], [x \in {kit} |-> 1], [x \in {pad, kit} |-> 1], [x \in {bolt} |-> 1]}

CashiersAndConsumers == Permutations(Cashier) \cup Permutations({ann, ben})

=============================================================================
