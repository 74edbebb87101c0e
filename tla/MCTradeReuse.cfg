\* A mall that reuses out_trade_nos, in two teams, with the timeout job.
SPECIFICATION Spec
CONSTANTS
  Users = {u1, u2}
  TradeNos = {n1}
  Teams = {t1, t2}
  Nil = Nil
  Procs = {p1, p2}
  Jobs = {j1}
  Target = 2
  TakeLimit = 2
  ScanLimit = 1
  MaxOrders = 3
  ReuseTradeNo = TRUE
SYMMETRY Symmetry
CHECK_DEADLOCK FALSE
INVARIANTS
  TypeOK
  NoOversell
  LockCountExact
  TakeLimitRespected
  SettlementNotifiedOnce
  RefundNotifiedOnce
PROPERTY ImplementsLedger
