SPECIFICATION Spec
CONSTANTS
  Owner = {o1, o2}
  Tx = {t1, t2}
  NoTx = NoTx
  Ceilings = {2, 3}
  PerOwner = {0, 1, 2}
  WithSlots = TRUE
INVARIANTS
  TypeOK
  NumbersAccounted
  OwnersExist
  SlotsUnique
PROPERTIES
  ReuseOnlyAtCeiling
  NumberKeepsMeaning
