SPECIFICATION FairSpec
CONSTANTS
  b1 = b1
  f1 = f1
  c1 = c1
  c2 = c2
  g1 = g1
  Products = {p1}
  Goods = {g1}
  Brands = {b1}
  Fitments = {f1}
  Categories = {c1, c2}
  Undefined = Undefined
  Deleted = Deleted
  None = None
  Below <- MCBelow
  Definitions <- MCDefinitions
  Caller = {a1, a2}
  Consumer = {h1, h2}
  MaxCalls = 2
  MaxDeletions = 2
  MaxFaults = 1
INVARIANTS
  TypeOK
  DanglingIsExplained
  TextFollowsRefs
PROPERTIES
  BrandDeletionPropagates
CHECK_DEADLOCK FALSE
