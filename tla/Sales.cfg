SPECIFICATION Spec
CONSTANTS
  pad = pad
  bolt = bolt
  kit = kit
  ann = ann
  ben = ben
  garage = garage
  b1 = b1
  c1 = c1
  Leaf = {pad, bolt}
  Bundle = {kit}
  Items <- MCItems
  PurchasePrice <- MCPurchasePrice
  References <- MCReferences
  MarkupPolicies <- MCMarkupPolicies
  GlobalRate <- MCGlobalRate
  Discounts <- MCDiscounts
  Unlimited = 1000
  None = None
  One = 10
  Cashier = {k1, k2}
  Customers = {ann, ben, garage}
  TypeOf <- MCTypeOf
  Carts <- MCCarts
  CashbackRates = {0, 1}
  TaxRate = 1
  KeysReusable = TRUE
  UpsertAdds = TRUE
  MaxSales = 2
  MaxReturns = 2
  MaxSettings = 1
SYMMETRY CashiersAndConsumers
INVARIANTS
  TypeOK
  OveruseIsBounded
  PaidIsRealDiscount
  RefundsWithinPaid
  IssuedIsSold
CHECK_DEADLOCK FALSE
