SPECIFICATION FairSpec
CONSTANTS
  m1 = m1  m2 = m2  m3 = m3  m4 = m4
  k1 = k1  k2 = k2
  r1 = r1  r2 = r2
  Msg = {m1, m2}
  Key = {k1}
  NoKey = NoKey
  KeyOf <- OneKey
  LockOf <- MCLockOf
  Producer = {p1}
  NoProducer = NoProducer
  Relay = {r1, r2}
  NoRelay = NoRelay
  NoWrite = NoWrite
  ClockAhead <- SameClock
  LeaseTicks = 2
  Backoff = 1
  MaxDelay = 0
  Limit = 2
  MaxAttempts = 2
  MaxAdds = 1
  MaxRestarts = 1
  MaxRequeues = 1
  Prompt = TRUE
PROPERTY
  Drains
CHECK_DEADLOCK FALSE
