\* Liveness of the timeout job: its refunds race two requests.
SPECIFICATION FairSpec
CONSTANTS
  Users = {u1, u2}
  TradeNos = {n1}
  Teams = {t1}
  Nil = Nil
  Procs = {p1, p2}
  Jobs = {j1}
  Target = 2
  TakeLimit = 1
  ScanLimit = 1
  MaxOrders = 2
  ReuseTradeNo = FALSE
CHECK_DEADLOCK FALSE
INVARIANT CompleteCountExact
PROPERTY UnpaidEventuallyClosed
