SPECIFICATION FairSpec
CONSTANTS
  k1 = k1  a1 = a1  a2 = a2  a3 = a3  f1 = f1  f2 = f2
  Key = {k1}
  Attempt = {a1, a2, a3}
  NoAttempt = NoAttempt
  NoRecord = NoRecord
  KeyOf <- OneKey
  FpOf <- OtherFirst
  Fp = {f1, f2}
  LockTtl = 3
  Ttl = 5
  NoTtl = NoTtl
INVARIANTS
  TypeOK
  OneEffectPerLife
  ReplayIsGenuine
PROPERTIES
  OnlyOwnerWrites
  LocksEnd
CHECK_DEADLOCK FALSE
