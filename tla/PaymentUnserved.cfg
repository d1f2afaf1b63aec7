SPECIFICATION FairSpec
CONSTANTS
  Caller = {c1}
  Worker = worker
  NoProc = NoProc
  Amount = 2
  Balance = 2
  RefundAmounts = {1}
  OwnerRecorded = {TRUE, FALSE}
  supportsPartialPayment = TRUE
  Served = {}
  QueuesSettlement = FALSE
  Lapses = FALSE
  MaxSettles = 1
  MaxCalls = 0
  MaxFaults = 0
INVARIANT
  ExpiredIsMarked
CHECK_DEADLOCK FALSE
