---------------------------- MODULE GroupBuyTrade ----------------------------
(***************************************************************************)
(* The trade core of the group-buy market: the MySQL tables of teams       *)
(* (group_buy_order), member orders (group_buy_order_list) and outgoing    *)
(* notifications (notify_task), and the requests that change them: locking *)
(* an order, settling a payment, refunding, and the timeout-refund job.    *)
(*                                                                         *)
(* A request is a process that first reads rows outside any transaction    *)
(* and later writes in one transaction that uses what it read.  Each read  *)
(* and each transaction is one atomic step; between them every other       *)
(* request may run.  A transaction locks the rows it updates until it      *)
(* commits, so it is atomic; one that fails rolls back and leaves no trace *)
(* in the tables (Abandon).                                                *)
(*                                                                         *)
(* Redis is not part of this module.  The occupancy filter of the lock     *)
(* chain may refuse any join, which is Abandon; nothing below depends on   *)
(* when it does.  Module TeamStock models it.                              *)
(***************************************************************************)
EXTENDS Integers, Sequences, FiniteSets

CONSTANTS
  Users,        \* user_id
  TradeNos,     \* out_trade_no, chosen by the calling mall
  Teams,        \* team ids that randomNumeric(8) can return
  Nil,          \* the empty string of a request without a team
  Procs,        \* HTTP request slots (all instances together)
  Jobs,         \* timeout-refund job runs that may overlap
  Target,       \* target_count of the activity
  TakeLimit,    \* take_limit_count of the activity; 0 is "no limit"
  ScanLimit,    \* LIMIT of the timeout scan (10 in the code)
  MaxOrders,    \* bound: rows of group_buy_order_list
  ReuseTradeNo  \* may the mall lock again with an out_trade_no it has used?

ASSUME TargetAssumption    == Target \in Nat \ {0}
ASSUME TakeLimitAssumption == TakeLimit \in Nat
ASSUME ScanLimitAssumption == ScanLimit \in Nat \ {0}
ASSUME MaxOrdersAssumption == MaxOrders \in Nat
ASSUME ReuseAssumption     == ReuseTradeNo \in BOOLEAN
ASSUME NilAssumption       == Nil \notin Users \cup TradeNos \cup Teams
ASSUME WorkersAssumption   == Procs \cap Jobs = {}

VARIABLES
  team,    \* group_buy_order: the row of each team id
  orders,  \* group_buy_order_list: the rows in id order
  tasks,   \* notify_task: the rows in id order
  ended,   \* has the activity's end_time passed?
  req,     \* what each request has read and where it stands
  batch    \* the rows each timeout job still has to refund

vars == <<team, orders, tasks, ended, req, batch>>

-----------------------------------------------------------------------------
(* Row types.  Statuses keep the code's names:                             *)
(* order 0/1/2 = create/complete/close, team 0/1/2/3 =                     *)
(* progress/complete/fail/completeFail; "absent" is a team with no row.    *)

OrderStatus == {"create", "complete", "close"}
TeamStatus  == {"progress", "complete", "fail", "completeFail"}
Formed      == TeamStatus \ {"progress"}

TeamRow  == [lock: Int, complete: Int, status: TeamStatus \cup {"absent"}]
OrderRow == [user: Users, no: TradeNos, team: Teams, take: Nat \ {0},
             status: OrderStatus]

RefundCategory == {"unpaid2Refund", "paid2Refund", "paidTeam2Refund"}

SettlementTask(t, paid) ==
  [category |-> "settlement", team |-> t, orders |-> paid]
RefundTask(category, t, i) ==
  [category |-> category, team |-> t, orders |-> {i}]
Task == [category: RefundCategory \cup {"settlement"}, team: Teams,
         orders: SUBSET Nat]

Workers == Procs \cup Jobs

Stage == {"idle", "lockProgress", "lockFilter", "lockTx",
          "settleTeam", "settleTx", "refundTx"}

LockStages == {"lockProgress", "lockFilter", "lockTx"}

Request == [pc: Stage,
            user: Users \cup {Nil}, no: TradeNos \cup {Nil},
            team: Teams \cup {Nil},
            order: Nat,     \* row read by QueryMarketPayOrderEntityByOutTradeNo
            count: Int,     \* lock: orders the user has; settle: complete_count
            strategy: RefundCategory \cup {Nil}]

NewRequest(stage, u, no, t, i, s) ==
  [pc |-> stage, user |-> u, no |-> no, team |-> t, order |-> i, count |-> 0,
   strategy |-> s]

IdleRequest == NewRequest("idle", Nil, Nil, Nil, 0, Nil)

NoTeamRow == [lock |-> 0, complete |-> 0, status |-> "absent"]

Exists(t) == team[t].status # "absent"

-----------------------------------------------------------------------------
(* Queries                                                                 *)

\* WHERE user_id = u AND out_trade_no = no
RowsOf(u, no) ==
  {i \in DOMAIN orders : orders[i].user = u /\ orders[i].no = no}

\* gorm's First: the row with the lowest id; 0 when there is none.
QueryMarketPayOrder(u, no) ==
  IF RowsOf(u, no) = {} THEN 0
  ELSE CHOOSE i \in RowsOf(u, no) : \A j \in RowsOf(u, no) : i <= j

\* Every order of the user in the activity counts, closed ones too.
OrdersOfUser(u) == {i \in DOMAIN orders : orders[i].user = u}
QueryOrderCount(u) == Cardinality(OrdersOfUser(u))

\* Mutant: the scan selects the wrong status.
TimeoutPaidOrders ==
  IF ended THEN {i \in DOMAIN orders : orders[i].status = "complete"} ELSE {}

\* status = 0 AND out_trade_time IS NULL AND now > end_time; out_trade_time
\* is written only together with status 1.
TimeoutUnpaidOrders ==
  IF ended THEN {i \in DOMAIN orders : orders[i].status = "create"} ELSE {}

\* Which strategy refunds an order, from the two statuses; Nil is the error
\* for every combination the table does not list.
GetRefundStrategy(teamStatus, orderStatus) ==
  CASE teamStatus = "progress" /\ orderStatus = "create"   -> "unpaid2Refund"
    [] teamStatus = "progress" /\ orderStatus = "complete" -> "paid2Refund"
    [] teamStatus \in {"complete", "completeFail"} /\ orderStatus = "complete"
                                                           -> "paidTeam2Refund"
    [] OTHER                                               -> Nil

-----------------------------------------------------------------------------
Init ==
  /\ team   = [t \in Teams |-> NoTeamRow]
  /\ orders = <<>>
  /\ tasks  = <<>>
  /\ ended  = FALSE
  /\ req    = [p \in Workers |-> IdleRequest]
  /\ batch  = [j \in Jobs |-> {}]

Finish(p) == req' = [req EXCEPT ![p] = IdleRequest]

-----------------------------------------------------------------------------
(* Locking an order (MarketTradeAppService.LockMarketPayOrder)             *)

\* The mall's side of the contract when ReuseTradeNo is FALSE: one lock
\* request per out_trade_no, none while another one is in flight.
FreshTradeNo(u, no) ==
  /\ RowsOf(u, no) = {}
  /\ \A q \in Workers : ~ ( /\ req[q].pc \in LockStages
                            /\ req[q].user = u /\ req[q].no = no )

\* First read: an unpaid order with this out_trade_no is answered as it is.
LockStart(p, u, no, t) ==
  /\ req[p].pc = "idle"
  /\ ~ ReuseTradeNo => FreshTradeNo(u, no)
  /\ LET i == QueryMarketPayOrder(u, no)
     IN  i # 0 => orders[i].status # "create"
  /\ req' = [req EXCEPT ![p] = NewRequest("lockProgress", u, no, t, 0, Nil)]
  /\ UNCHANGED <<team, orders, tasks, ended, batch>>

\* Second read: a team that is already full is refused (E0006).
LockProgress(p) ==
  /\ req[p].pc = "lockProgress"
  /\ req[p].team # Nil /\ Exists(req[p].team)
       => team[req[p].team].lock # Target
  /\ req' = [req EXCEPT ![p].pc = "lockFilter"]
  /\ UNCHANGED <<team, orders, tasks, ended, batch>>

\* The rule chain: the activity is running (E0102), the user is below the
\* take limit (E0103); the count is kept for the transaction.
LockFilter(p) ==
  /\ req[p].pc = "lockFilter"
  /\ ~ ended
  /\ TakeLimit > 0 => QueryOrderCount(req[p].user) < TakeLimit
  /\ req' = [req EXCEPT ![p].pc = "lockTx",
                        ![p].count = QueryOrderCount(req[p].user)]
  /\ UNCHANGED <<team, orders, tasks, ended, batch>>

\* Mutant: no unique key on biz_id.
BizIdUnchecked(u, take) == u \in Users /\ take \in Nat

\* uq_biz_id: (activity, user, take number) is unique.
BizIdFree(u, take) ==
  \A i \in DOMAIN orders : ~ (orders[i].user = u /\ orders[i].take = take)

\* Mutant: the take number is the count of earlier orders.
InsertOrderFromZero(p, t) ==
  orders' = Append(orders, [user |-> req[p].user, no |-> req[p].no, team |-> t,
                            take |-> req[p].count, status |-> "create"])

InsertOrder(p, t) ==
  orders' = Append(orders, [user |-> req[p].user, no |-> req[p].no, team |-> t,
                            take |-> req[p].count + 1, status |-> "create"])

\* Mutant: off by one.
SeatFreeOrLast(t) == team[t].lock <= Target

\* WHERE lock_count < target_count
SeatFree(t) == team[t].lock < Target

\* The transaction: open a team or take a seat of one, then insert the order.
LockTx(p) ==
  /\ req[p].pc = "lockTx"
  /\ Len(orders) < MaxOrders
  /\ BizIdFree(req[p].user, req[p].count + 1)
  /\ \/ /\ req[p].team = Nil
        /\ \E t \in Teams :
             /\ ~ Exists(t)
             /\ team' = [team EXCEPT ![t] =
                          [lock |-> 1, complete |-> 0, status |-> "progress"]]
             /\ InsertOrder(p, t)
     \/ /\ req[p].team # Nil
        /\ Exists(req[p].team)
        /\ SeatFree(req[p].team)
        /\ team' = [team EXCEPT ![req[p].team].lock = @ + 1]
        /\ InsertOrder(p, req[p].team)
  /\ Finish(p)
  /\ UNCHANGED <<tasks, ended, batch>>

-----------------------------------------------------------------------------
(* Settling a payment (TradeSettlementOrderService)                        *)

\* OutTradeNoRuleFilter: the order exists and is not closed (E0104).
SettleStart(p, u, no) ==
  /\ req[p].pc = "idle"
  /\ QueryMarketPayOrder(u, no) # 0
  /\ LET i == QueryMarketPayOrder(u, no)
     IN  /\ orders[i].status # "close"
         /\ req' = [req EXCEPT ![p] =
                      NewRequest("settleTeam", u, no, orders[i].team, 0, Nil)]
  /\ UNCHANGED <<team, orders, tasks, ended, batch>>

\* SettableRuleFilter: reads the team row the aggregate is built from.
SettleTeam(p) ==
  /\ req[p].pc = "settleTeam"
  /\ req' = [req EXCEPT ![p].pc = "settleTx",
                        ![p].count = team[req[p].team].complete]
  /\ UNCHANGED <<team, orders, tasks, ended, batch>>

\* Mutant: the UPDATE does not ask for status 0.
CanFormAgain(t) == Exists(t)

\* WHERE status = 0, of the UPDATE that forms the team
CanForm(t) == team[t].status = "progress"

\* The transaction: pay the one unpaid row of this out_trade_no, count it on
\* the team, and form the team when the count READ BEFORE said one is missing.
SettleTx(p) ==
  /\ req[p].pc = "settleTx"
  /\ LET t      == req[p].team
         unpaid == {i \in RowsOf(req[p].user, req[p].no) :
                      orders[i].status = "create"}
     IN \E i \in unpaid :
          /\ unpaid = {i}
          /\ team[t].complete < Target
          /\ orders' = [orders EXCEPT ![i].status = "complete"]
          /\ \/ /\ Target - req[p].count # 1
                /\ team' = [team EXCEPT ![t].complete = @ + 1]
                /\ UNCHANGED tasks
             \/ /\ Target - req[p].count = 1
                /\ CanForm(t)
                /\ team' = [team EXCEPT ![t].complete = @ + 1,
                                        ![t].status = "complete"]
                /\ tasks' = Append(tasks,
                     SettlementTask(t, {k \in DOMAIN orders' :
                                          /\ orders'[k].team = t
                                          /\ orders'[k].status = "complete"}))
  /\ Finish(p)
  /\ UNCHANGED <<ended, batch>>

-----------------------------------------------------------------------------
(* Refunding (TradeRefundOrderService)                                     *)

\* DataNodeFilter, UniqueRefundNodeFilter and the choice of the strategy; Nil
\* when the chain ends early: no such order, already closed, or a status pair
\* without a strategy.
RefundStrategyFor(u, no) ==
  LET i == QueryMarketPayOrder(u, no)
  IN  IF i = 0 THEN Nil
      ELSE GetRefundStrategy(team[orders[i].team].status, orders[i].status)

\* The order row is read before the team row; one step stands for both,
\* because an order's status only moves forward and the transaction repeats
\* the test on it, so an older reading of it can only fail.
RefundRead(p, u, no) ==
  /\ req[p].pc = "idle"
  /\ RefundStrategyFor(u, no) # Nil
  /\ LET i == QueryMarketPayOrder(u, no)
     IN  req' = [req EXCEPT ![p] =
                   NewRequest("refundTx", u, no, orders[i].team, i,
                              RefundStrategyFor(u, no))]

RefundStart(p, u, no) ==
  /\ RefundRead(p, u, no)
  /\ UNCHANGED <<team, orders, tasks, ended, batch>>

\* Mutant: the team is open again.
StatusReopened(complete) == IF complete <= 0 THEN "fail" ELSE "progress"

\* The status PaidTeam2Refund leaves a formed team in.
StatusAfterRefund(complete) == IF complete <= 0 THEN "fail" ELSE "completeFail"

\* Mutant: the UPDATE does not ask for the status.
RefundUnchecked(i, s) == i \in DOMAIN orders /\ s \in RefundCategory

\* WHERE status = fromStatus, of the UPDATE that closes the order
Refundable(i, s) ==
  orders[i].status = IF s = "unpaid2Refund" THEN "create" ELSE "complete"

\* Unpaid2Refund, Paid2Refund and PaidTeam2Refund: close the order if its
\* status is still the one the strategy is for, give the seat back (and the
\* payment), and insert the refund notification.  Only PaidTeam2Refund looks
\* at the team again and changes its status.
RefundTx(p) ==
  /\ req[p].pc = "refundTx"
  /\ LET t == req[p].team
         i == req[p].order
         s == req[p].strategy
     IN  /\ Refundable(i, s)
         /\ orders' = [orders EXCEPT ![i].status = "close"]
         /\ \/ /\ s = "unpaid2Refund"
               /\ team' = [team EXCEPT ![t].lock = @ - 1]
            \/ /\ s = "paid2Refund"
               /\ team' = [team EXCEPT ![t].lock = @ - 1, ![t].complete = @ - 1]
            \/ /\ s = "paidTeam2Refund"
               /\ team' = [team EXCEPT ![t].lock = @ - 1, ![t].complete = @ - 1,
                             ![t].status = StatusAfterRefund(team[t].complete - 1)]
         /\ tasks' = Append(tasks, RefundTask(s, t, i))
  /\ Finish(p)
  /\ UNCHANGED <<ended, batch>>

-----------------------------------------------------------------------------
(* The timeout-refund job                                                  *)

\* The scan: at most ScanLimit rows, in no particular order.
JobScan(j) ==
  /\ req[j].pc = "idle"
  /\ batch[j] = {}
  /\ \E S \in SUBSET TimeoutUnpaidOrders :
       /\ S # {}
       /\ Cardinality(S) <= ScanLimit
       /\ Cardinality(S) < ScanLimit => S = TimeoutUnpaidOrders
       /\ batch' = [batch EXCEPT ![j] = S]
  /\ UNCHANGED <<team, orders, tasks, ended, req>>

\* The loop body: RefundOrder with the row's user and out_trade_no.  An order
\* the chain refuses (closed meanwhile, or no strategy) is counted as done.
JobRefund(j) ==
  /\ req[j].pc = "idle"
  /\ \E i \in batch[j] :
       /\ batch' = [batch EXCEPT ![j] = @ \ {i}]
       /\ \/ RefundRead(j, orders[i].user, orders[i].no)
          \/ /\ RefundStrategyFor(orders[i].user, orders[i].no) = Nil
             /\ UNCHANGED req
  /\ UNCHANGED <<team, orders, tasks, ended>>

-----------------------------------------------------------------------------
(* The environment                                                         *)

\* Any early return, a filter's refusal, an SQL or Redis error, a deadlock
\* victim, a cancelled request or a crash: nothing was written.
Abandon(p) ==
  /\ req[p].pc # "idle"
  /\ Finish(p)
  /\ UNCHANGED <<team, orders, tasks, ended, batch>>

\* Time passes the activity's end_time.
ActivityEnds ==
  /\ ~ ended
  /\ ended' = TRUE
  /\ UNCHANGED <<team, orders, tasks, req, batch>>

Next ==
  \/ \E p \in Procs, u \in Users, no \in TradeNos :
       \/ \E t \in Teams \cup {Nil} : LockStart(p, u, no, t)
       \/ SettleStart(p, u, no)
       \/ RefundStart(p, u, no)
  \/ \E p \in Procs :
       \/ LockProgress(p)
       \/ LockFilter(p)
       \/ LockTx(p)
       \/ SettleTeam(p)
       \/ SettleTx(p)
  \/ \E j \in Jobs :
       \/ JobScan(j)
       \/ JobRefund(j)
  \/ \E p \in Workers :
       \/ RefundTx(p)
       \/ Abandon(p)
  \/ ActivityEnds

Spec == Init /\ [][Next]_vars

\* The job's ticker keeps firing, each refund of a job run returns (commits or
\* fails), and MySQL does not fail the commits of a job for ever.
JobFairness ==
  \A j \in Jobs : /\ WF_vars(JobScan(j))
                  /\ WF_vars(JobRefund(j))
                  /\ WF_vars(RefundTx(j) \/ Abandon(j))
                  /\ SF_vars(RefundTx(j))

FairSpec == Spec /\ JobFairness

-----------------------------------------------------------------------------
(* Properties                                                              *)

LiveOrders(t) ==
  {i \in DOMAIN orders : orders[i].team = t /\ orders[i].status # "close"}
PaidOrders(t) ==
  {i \in DOMAIN orders : orders[i].team = t /\ orders[i].status = "complete"}

\* Every row and every request has the shape the code gives it.
TypeOK ==
  /\ team \in [Teams -> TeamRow]
  /\ orders \in Seq(OrderRow)
  /\ tasks \in Seq(Task)
  /\ ended \in BOOLEAN
  /\ req \in [Workers -> Request]
  /\ batch \in [Jobs -> SUBSET Nat]

\* No oversell: whatever locks, settlements and refunds interleave, a team
\* never has more than Target orders that are not closed, although the seat
\* count is a counter that joins increment and three kinds of refund decrement.
NoOversell == \A t \in Teams : Cardinality(LiveOrders(t)) <= Target

\* lock_count counts the orders of the team that are not closed: no
\* interleaving of LockMarketPayOrder with a refund loses or doubles a seat.
LockCountExact ==
  \A t \in Teams : team[t].lock = Cardinality(LiveOrders(t))

\* complete_count counts the paid orders of the team.  Needs a mall that does
\* not reuse an out_trade_no: SettlementMarketPayOrder finds the team by the
\* first row of the number and the order to pay by its unpaid row.
CompleteCountExact ==
  \A t \in Teams : team[t].complete = Cardinality(PaidOrders(t))

\* A user never gets more orders in the activity than TakeLimitCount, although
\* the filter's count is stale when the order is inserted: two locks that
\* counted the same orders build the same biz_id.
TakeLimitRespected ==
  TakeLimit > 0 => \A u \in Users : Cardinality(OrdersOfUser(u)) <= TakeLimit

\* The notify_task rows of the settlement of team t, and of refunds of order i.
SettlementRows(t) ==
  {n \in DOMAIN tasks : tasks[n].category = "settlement" /\ tasks[n].team = t}
RefundRows(i) ==
  {n \in DOMAIN tasks : tasks[n].category \in RefundCategory
                          /\ i \in tasks[n].orders}

\* A team has left "progress" exactly when one settlement row was inserted for
\* it, and it never gets a second one, however settlements and refunds race.
SettlementNotifiedOnce ==
  \A t \in Teams :
    IF team[t].status \in Formed
    THEN \E n \in DOMAIN tasks : SettlementRows(t) = {n}
    ELSE SettlementRows(t) = {}

\* The outbox of the refund chain: an order is closed exactly when one row of
\* notify_task tells of its refund, for the order's own team.  The table has no
\* unique key that would stop a second INSERT, so a repeated or racing refund
\* (user, mall, timeout job) must be stopped before it.
RefundNotifiedOnce ==
  \A i \in DOMAIN orders :
    IF orders[i].status = "close"
    THEN \E n \in DOMAIN tasks : /\ RefundRows(i) = {n}
                                 /\ tasks[n].team = orders[i].team
    ELSE RefundRows(i) = {}

\* An order the timeout job has to close: unpaid, in a team still open, after
\* the end of the activity.
TimedOut(i) ==
  /\ ended
  /\ i \in DOMAIN orders
  /\ orders[i].status = "create"
  /\ team[orders[i].team].status = "progress"

\* An unpaid order of a team that has not formed is closed by the timeout job
\* once the activity is over, unless it is paid or its team forms first.
UnpaidEventuallyClosed == \A i \in 1..MaxOrders : TimedOut(i) ~> ~ TimedOut(i)

-----------------------------------------------------------------------------
(* The inductive invariant of module GroupBuyTradeProofs: what a request    *)
(* has read stays true of the tables until its transaction.                 *)

Agrees(r) ==
  /\ r.pc \in LockStages => r.user \in Users /\ r.no \in TradeNos
  /\ r.pc = "lockTx" => /\ r.count \in Nat
                        /\ TakeLimit > 0 => r.count < TakeLimit
  /\ r.pc \in {"settleTeam", "settleTx"} => r.team \in Teams /\ Exists(r.team)
  /\ r.pc = "refundTx" =>
       /\ r.order \in DOMAIN orders
       /\ r.team = orders[r.order].team
       /\ r.strategy \in RefundCategory
       /\ r.strategy = "paidTeam2Refund" => team[r.team].status \in Formed

RequestsAgree == \A p \in Workers : Agrees(req[p])

RowsHaveTeams == \A i \in DOMAIN orders : Exists(orders[i].team)

JobRowsExist == \A j \in Jobs : batch[j] \subseteq DOMAIN orders

SeatsWithinTarget == \A t \in Teams : team[t].lock <= Target

TakesDistinct ==
  /\ \A i, j \in DOMAIN orders :
       orders[i].user = orders[j].user /\ orders[i].take = orders[j].take => i = j
  /\ TakeLimit > 0 => \A i \in DOMAIN orders : orders[i].take <= TakeLimit

IndInv ==
  /\ TypeOK
  /\ RequestsAgree
  /\ RowsHaveTeams
  /\ JobRowsExist
  /\ LockCountExact
  /\ SeatsWithinTarget
  /\ TakesDistinct

-----------------------------------------------------------------------------
(* What module TradeLedgerProofs adds to it.                               *)

\* A notification names rows that exist, so a new row has none.
TasksHaveRows ==
  \A n \in DOMAIN tasks : tasks[n].orders \subseteq DOMAIN orders

RowsWithinBound == Len(orders) <= MaxOrders

NotifyInv ==
  SettlementNotifiedOnce /\ RefundNotifiedOnce /\ TasksHaveRows /\ RowsWithinBound

\* When the mall does not reuse an out_trade_no, it names one row; a lock in
\* flight is the only one of its number and has no row yet; and a settlement
\* has read the team of the row it will pay.
OneRowPerTradeNo ==
  \A i, j \in DOMAIN orders :
    orders[i].user = orders[j].user /\ orders[i].no = orders[j].no => i = j

LocksAreFresh ==
  \A p \in Workers : req[p].pc \in LockStages =>
    /\ RowsOf(req[p].user, req[p].no) = {}
    /\ \A q \in Workers : /\ req[q].pc \in LockStages
                          /\ req[q].user = req[p].user
                          /\ req[q].no = req[p].no
                          => q = p

SettlesOwnTeam ==
  \A p \in Workers : req[p].pc \in {"settleTeam", "settleTx"} =>
    /\ RowsOf(req[p].user, req[p].no) # {}
    /\ \A i \in RowsOf(req[p].user, req[p].no) : orders[i].team = req[p].team

PaymentInv ==
  OneRowPerTradeNo /\ LocksAreFresh /\ SettlesOwnTeam /\ CompleteCountExact

-----------------------------------------------------------------------------
(* What the documentation says and the code does not do                    *)

\* A team whose complete_count has reached target_count has been formed
\* (status 1, notification written) by the settlement that reached it.
FullTeamIsFormed ==
  \A t \in Teams : team[t].complete = Target => team[t].status # "progress"

\* Every unpaid order can be closed by the refund chain the timeout job uses.
UnpaidOrderCanBeClosed ==
  \A i \in DOMAIN orders : orders[i].status = "create" =>
    GetRefundStrategy(team[orders[i].team].status, "create") # Nil
=============================================================================
