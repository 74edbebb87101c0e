\* A seat freed in a formed team is taken again.
SPECIFICATION Spec
CONSTANTS
  Users = {u1, u2, u3}
  TradeNos = {n1}
  Teams = {t1}
  Nil = Nil
  Procs = {p1, p2}
  Jobs = {}
  Target = 2
  TakeLimit = 1
  ScanLimit = 1
  MaxOrders = 3
  ReuseTradeNo = FALSE
SYMMETRY Symmetry
CHECK_DEADLOCK FALSE
INVARIANT UnpaidOrderCanBeClosed
