SPECIFICATION FairSpec
CONSTANTS
  Caller = {c1, c2}
  Worker = worker
  NoProc = NoProc
  Amount = 2
  Balance = 2
  RefundAmounts = {1}
  OwnerRecorded = {TRUE, FALSE}
  supportsPartialPayment = TRUE
  Served = {"fulfill", "cancelDelivery", "wallet"}
  QueuesSettlement = FALSE
  Lapses = TRUE
  MaxSettles = 2
  MaxCalls = 4
  MaxFaults = 1
INVARIANTS
  TypeOK
  WalletSquare
  WalletRefundExact
  NothingCreditedTwice
  FulfilledIsPaid
  ChargedIsKept
  OpenKeepsItsJob
PROPERTIES
  ClosedStaysClosed
  LeavesProcessing
CHECK_DEADLOCK FALSE
