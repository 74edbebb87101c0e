\* Two settlements of one team read complete_count before either writes it.
SPECIFICATION Spec
CONSTANTS
  Users = {u1, u2}
  TradeNos = {n1}
  Teams = {t1}
  Nil = Nil
  Procs = {p1, p2}
  Jobs = {}
  Target = 2
  TakeLimit = 1
  ScanLimit = 1
  MaxOrders = 2
  ReuseTradeNo = FALSE
SYMMETRY Symmetry
CHECK_DEADLOCK FALSE
INVARIANT FullTeamIsFormed
