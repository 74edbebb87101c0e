------------------------- MODULE GroupBuyTradeProofs -------------------------
(***************************************************************************)
(* Proofs about GroupBuyTrade for every set of users, teams, trade numbers *)
(* and requests, every target and take limit, and whether or not the mall  *)
(* reuses its trade numbers.                                               *)
(***************************************************************************)
EXTENDS GroupBuyTrade, TLAPS, FiniteSetTheorems, SequenceTheorems,
        WellFoundedInduction

-----------------------------------------------------------------------------
(* Facts about rows and counts                                             *)

\* A nonempty set of naturals has a least element: "ORDER BY id LIMIT 1"
\* (gorm's First) returns a row whenever one matches.
LEMMA LeastNat ==
  ASSUME NEW S \in SUBSET Nat, S # {}
  PROVE  \E i \in S : \A j \in S : i <= j
<1>1. PICK x \in S : \A y \in S : ~ (<<y, x>> \in OpToRel(<, Nat))
  BY NatLessThanWellFounded, WFMin, Zenon
<1>2. \A y \in S : ~ (y < x)
  BY <1>1 DEF OpToRel
<1> QED BY <1>2

\* The row QueryMarketPayOrderEntityByOutTradeNo returns is one of the rows of
\* the user and the out_trade_no.
LEMMA QueryRow ==
  ASSUME orders \in Seq(OrderRow), NEW u, NEW no,
         QueryMarketPayOrder(u, no) # 0
  PROVE  QueryMarketPayOrder(u, no) \in RowsOf(u, no)
<1>1. RowsOf(u, no) \in SUBSET Nat
  BY DEF RowsOf
<1>2. RowsOf(u, no) # {}
  BY DEF QueryMarketPayOrder
<1>3. \E i \in RowsOf(u, no) : \A j \in RowsOf(u, no) : i <= j
  BY <1>1, <1>2, LeastNat
<1> QED BY <1>2, <1>3 DEF QueryMarketPayOrder

\* Every set of order rows is finite.
LEMMA RowsFinite ==
  ASSUME orders \in Seq(OrderRow), NEW S \in SUBSET DOMAIN orders
  PROVE  IsFiniteSet(S) /\ Cardinality(S) \in Nat
<1>1. DOMAIN orders = 1..Len(orders) /\ Len(orders) \in Nat
  OBVIOUS
<1>2. IsFiniteSet(1..Len(orders))
  BY <1>1, FS_Interval
<1> QED BY <1>1, <1>2, FS_Subset, FS_CardinalityType

\* The columns of a row.
LEMMA RowType ==
  ASSUME orders \in Seq(OrderRow), NEW i \in DOMAIN orders
  PROVE  /\ orders[i] \in OrderRow
         /\ orders[i].user \in Users /\ orders[i].no \in TradeNos
         /\ orders[i].team \in Teams /\ orders[i].take \in Nat \ {0}
         /\ orders[i].status \in OrderStatus
<1>1. orders[i] \in OrderRow
  OBVIOUS
<1> QED BY <1>1 DEF OrderRow

\* What a committed insert does to the order table.
LEMMA AppendRow ==
  ASSUME orders \in Seq(OrderRow), NEW row \in OrderRow,
         orders' = Append(orders, row)
  PROVE  /\ orders' \in Seq(OrderRow)
         /\ DOMAIN orders' = DOMAIN orders \cup {Len(orders) + 1}
         /\ Len(orders) + 1 \notin DOMAIN orders
         /\ \A i \in DOMAIN orders : orders'[i] = orders[i]
         /\ orders'[Len(orders) + 1] = row
<1>1. /\ DOMAIN orders = 1..Len(orders) /\ Len(orders) \in Nat
      /\ orders' \in Seq(OrderRow)
      /\ Len(orders') = Len(orders) + 1
      /\ \A i \in 1..Len(orders) : orders'[i] = orders[i]
      /\ orders'[Len(orders) + 1] = row
  BY AppendProperties
<1>2. DOMAIN orders' = 1..(Len(orders) + 1)
  BY <1>1
<1> QED BY <1>1, <1>2

\* An INSERT into notify_task adds one row and keeps the others.
LEMMA AppendTask ==
  ASSUME tasks \in Seq(Task), NEW k \in Task, tasks' = Append(tasks, k)
  PROVE  /\ tasks' \in Seq(Task)
         /\ DOMAIN tasks' = DOMAIN tasks \cup {Len(tasks) + 1}
         /\ Len(tasks) + 1 \notin DOMAIN tasks
         /\ \A n \in DOMAIN tasks : tasks'[n] = tasks[n]
         /\ tasks'[Len(tasks) + 1] = k
<1>1. /\ DOMAIN tasks = 1..Len(tasks) /\ Len(tasks) \in Nat
      /\ tasks' \in Seq(Task)
      /\ Len(tasks') = Len(tasks) + 1
      /\ \A n \in 1..Len(tasks) : tasks'[n] = tasks[n]
      /\ tasks'[Len(tasks) + 1] = k
  BY AppendProperties
<1>2. DOMAIN tasks' = 1..(Len(tasks) + 1)
  BY <1>1
<1> QED BY <1>1, <1>2

\* What a committed status update does to the order table.
LEMMA UpdateRow ==
  ASSUME orders \in Seq(OrderRow), NEW i \in DOMAIN orders,
         NEW s \in OrderStatus, orders' = [orders EXCEPT ![i].status = s]
  PROVE  /\ orders' \in Seq(OrderRow)
         /\ DOMAIN orders' = DOMAIN orders
         /\ \A k \in DOMAIN orders :
              /\ orders'[k].user = orders[k].user
              /\ orders'[k].no = orders[k].no
              /\ orders'[k].team = orders[k].team
              /\ orders'[k].take = orders[k].take
              /\ k # i => orders'[k] = orders[k]
         /\ orders'[i].status = s
<1> DEFINE row == [orders[i] EXCEPT !.status = s]
<1>1. /\ DOMAIN orders = 1..Len(orders) /\ Len(orders) \in Nat
      /\ orders[i] \in OrderRow
  OBVIOUS
<1>2. row \in OrderRow /\ row.status = s /\ row.user = orders[i].user
      /\ row.no = orders[i].no /\ row.team = orders[i].team
      /\ row.take = orders[i].take
  BY <1>1 DEF OrderRow
<1>3. orders' = [orders EXCEPT ![i] = row]
  OBVIOUS
<1> HIDE DEF row
<1>4. /\ orders' \in Seq(OrderRow)
      /\ Len(orders') = Len(orders)
      /\ \A k \in 1..Len(orders) : orders'[k] = IF k = i THEN row ELSE orders[k]
  BY <1>1, <1>2, <1>3, ExceptSeq
<1>5. DOMAIN orders' = 1..Len(orders)
  BY <1>4
<1> QED BY <1>1, <1>2, <1>4, <1>5

-----------------------------------------------------------------------------
(* Steps that only read                                                    *)

\* A step that leaves the tables alone and puts an agreeing request into one
\* slot keeps the invariant.
LEMMA ReadStep ==
  ASSUME IndInv, NEW p \in Workers, NEW r \in Request, Agrees(r),
         req' = [req EXCEPT ![p] = r],
         team' = team, orders' = orders, tasks' = tasks,
         ended' \in BOOLEAN, batch' \in [Jobs -> SUBSET Nat],
         \A j \in Jobs : batch'[j] \subseteq DOMAIN orders
  PROVE  IndInv'
<1>1. TypeOK'
  BY DEF IndInv, TypeOK
<1>2. RequestsAgree'
  <2> SUFFICES ASSUME NEW q \in Workers PROVE Agrees(req[q])'
    BY DEF RequestsAgree
  <2>1. req'[q] = IF q = p THEN r ELSE req[q]
    BY DEF IndInv, TypeOK
  <2>2. Agrees(req'[q])
    BY <2>1 DEF IndInv, RequestsAgree
  <2> QED BY <2>2 DEF Agrees, Exists
<1>3. (JobRowsExist /\ RowsHaveTeams /\ LockCountExact /\ SeatsWithinTarget /\ TakesDistinct)'
  BY DEF IndInv, JobRowsExist, RowsHaveTeams, Exists, LockCountExact,
         LiveOrders, SeatsWithinTarget, TakesDistinct
<1> QED BY <1>1, <1>2, <1>3 DEF IndInv

\* The idle request agrees with every state.
LEMMA IdleAgrees == IdleRequest \in Request /\ Agrees(IdleRequest)
BY DEF IdleRequest, NewRequest, Request, Agrees, Stage, LockStages

\* RefundRead, shared by the HTTP refund and the timeout job, leaves a request
\* that agrees with the tables.
LEMMA RefundReadAgrees ==
  ASSUME IndInv, NEW p \in Workers, NEW u \in Users, NEW no \in TradeNos,
         RefundRead(p, u, no)
  PROVE  \E r \in Request : /\ Agrees(r) /\ r.pc = "refundTx"
                           /\ req' = [req EXCEPT ![p] = r]
<1> DEFINE i == QueryMarketPayOrder(u, no)
           s == RefundStrategyFor(u, no)
           r == NewRequest("refundTx", u, no, orders[i].team, i, s)
<1>1. s # Nil /\ req' = [req EXCEPT ![p] = r]
  BY DEF RefundRead
<1>2. i # 0
  BY <1>1 DEF RefundStrategyFor
<1>3. i \in DOMAIN orders /\ orders[i] \in OrderRow /\ i \in Nat
  BY <1>2, QueryRow DEF IndInv, TypeOK, RowsOf
<1>4. s = GetRefundStrategy(team[orders[i].team].status, orders[i].status)
  BY <1>2 DEF RefundStrategyFor
<1>5. /\ s \in RefundCategory
      /\ s = "paidTeam2Refund" => team[orders[i].team].status \in Formed
  BY <1>1, <1>4 DEF GetRefundStrategy, RefundCategory, Formed, TeamStatus
<1> HIDE DEF i, s
<1>6. r \in Request /\ r.pc = "refundTx"
  BY <1>3, <1>5 DEF NewRequest, Request, Stage, OrderRow
<1>7. Agrees(r)
  BY <1>3, <1>5 DEF NewRequest, Agrees, LockStages
<1> QED BY <1>1, <1>6, <1>7

\* The first read of LockMarketPayOrder keeps the invariant.
LEMMA LockStartInv ==
  ASSUME IndInv, NEW p \in Workers, NEW u \in Users, NEW no \in TradeNos,
         NEW t \in Teams \cup {Nil}, LockStart(p, u, no, t)
  PROVE  IndInv'
<1> DEFINE r == NewRequest("lockProgress", u, no, t, 0, Nil)
<1>1. req' = [req EXCEPT ![p] = r]
  BY DEF LockStart
<1>2. r \in Request /\ Agrees(r)
  BY DEF NewRequest, Request, Stage, Agrees, LockStages
<1> HIDE DEF r
<1> QED BY <1>1, <1>2, ReadStep DEF LockStart, IndInv, TypeOK, JobRowsExist

\* The read of the team's progress before a lock keeps the invariant.
LEMMA LockProgressInv ==
  ASSUME IndInv, NEW p \in Workers, LockProgress(p)
  PROVE  IndInv'
<1> DEFINE r == [req[p] EXCEPT !.pc = "lockFilter"]
<1>1. req' = [req EXCEPT ![p] = r] /\ req[p] \in Request /\ Agrees(req[p])
      /\ req[p].pc = "lockProgress"
  BY DEF LockProgress, IndInv, TypeOK, RequestsAgree
<1>2. r \in Request /\ Agrees(r)
  BY <1>1 DEF Request, Stage, Agrees, LockStages
<1> HIDE DEF r
<1> QED BY <1>1, <1>2, ReadStep DEF LockProgress, IndInv, TypeOK, JobRowsExist

\* The rule chain keeps the invariant: the count it passes on is below the
\* take limit.
LEMMA LockFilterInv ==
  ASSUME IndInv, NEW p \in Workers, LockFilter(p)
  PROVE  IndInv'
<1> DEFINE n == QueryOrderCount(req[p].user)
           r == [req[p] EXCEPT !.pc = "lockTx", !.count = n]
<1>1. req' = [req EXCEPT ![p] = r] /\ req[p] \in Request /\ Agrees(req[p])
      /\ req[p].pc = "lockFilter" /\ (TakeLimit > 0 => n < TakeLimit)
  BY DEF LockFilter, IndInv, TypeOK, RequestsAgree
<1>2. n \in Nat
  BY RowsFinite DEF IndInv, TypeOK, QueryOrderCount, OrdersOfUser
<1> HIDE DEF n
<1>3. /\ r \in Request /\ r.pc = "lockTx" /\ r.count = n
      /\ r.user = req[p].user /\ r.no = req[p].no
  <2>1. n \in Int /\ req[p] \in Request
    BY <1>1, <1>2
  <2> QED BY <2>1 DEF Request, Stage
<1>4. req[p].user \in Users /\ req[p].no \in TradeNos
  BY <1>1 DEF Agrees, LockStages
<1>5. Agrees(r)
  BY <1>1, <1>2, <1>3, <1>4 DEF Agrees
<1> HIDE DEF r
<1> QED BY <1>1, <1>3, <1>5, ReadStep DEF LockFilter, IndInv, TypeOK, JobRowsExist

\* OutTradeNoRuleFilter keeps the invariant: the order it finds has a team.
LEMMA SettleStartInv ==
  ASSUME IndInv, NEW p \in Workers, NEW u \in Users, NEW no \in TradeNos,
         SettleStart(p, u, no)
  PROVE  IndInv'
<1> DEFINE i == QueryMarketPayOrder(u, no)
           r == NewRequest("settleTeam", u, no, orders[i].team, 0, Nil)
<1>1. i # 0 /\ req' = [req EXCEPT ![p] = r]
  BY DEF SettleStart
<1>2. i \in DOMAIN orders /\ orders[i] \in OrderRow
  BY <1>1, QueryRow DEF IndInv, TypeOK, RowsOf
<1>3. orders[i].team \in Teams /\ Exists(orders[i].team)
  BY <1>2 DEF IndInv, RowsHaveTeams, OrderRow
<1> HIDE DEF i
<1>4. r \in Request /\ Agrees(r)
  BY <1>3 DEF NewRequest, Request, Stage, Agrees, LockStages
<1> HIDE DEF r
<1> QED BY <1>1, <1>4, ReadStep DEF SettleStart, IndInv, TypeOK, JobRowsExist

\* SettableRuleFilter keeps the invariant, whatever complete_count it reads.
LEMMA SettleTeamInv ==
  ASSUME IndInv, NEW p \in Workers, SettleTeam(p)
  PROVE  IndInv'
<1> DEFINE n == team[req[p].team].complete
           r == [req[p] EXCEPT !.pc = "settleTx", !.count = n]
<1>1. req' = [req EXCEPT ![p] = r] /\ req[p] \in Request /\ Agrees(req[p])
      /\ req[p].pc = "settleTeam"
  BY DEF SettleTeam, IndInv, TypeOK, RequestsAgree
<1>2. n \in Int
  BY <1>1 DEF IndInv, TypeOK, TeamRow, Agrees
<1> HIDE DEF n
<1>3. r \in Request /\ Agrees(r)
  BY <1>1, <1>2 DEF Request, Stage, Agrees, LockStages
<1> HIDE DEF r
<1> QED BY <1>1, <1>3, ReadStep DEF SettleTeam, IndInv, TypeOK, JobRowsExist

\* The reads of an HTTP refund keep the invariant.
LEMMA RefundStartInv ==
  ASSUME IndInv, NEW p \in Workers, NEW u \in Users, NEW no \in TradeNos,
         RefundStart(p, u, no)
  PROVE  IndInv'
<1>1. PICK r \in Request : Agrees(r) /\ req' = [req EXCEPT ![p] = r]
  BY RefundReadAgrees DEF RefundStart
<1> QED BY <1>1, ReadStep DEF RefundStart, IndInv, TypeOK, JobRowsExist

\* A request that ends without a commit keeps the invariant.
LEMMA AbandonInv ==
  ASSUME IndInv, NEW p \in Workers, Abandon(p)
  PROVE  IndInv'
BY IdleAgrees, ReadStep DEF Abandon, Finish, IndInv, TypeOK, JobRowsExist

\* The loop body of the timeout job keeps the invariant.
LEMMA JobRefundInv ==
  ASSUME IndInv, NEW j \in Jobs, JobRefund(j)
  PROVE  IndInv'
<1>1. PICK i \in batch[j] :
        /\ batch' = [batch EXCEPT ![j] = @ \ {i}]
        /\ \/ RefundRead(j, orders[i].user, orders[i].no)
           \/ UNCHANGED req
  BY DEF JobRefund
<1>2. batch' \in [Jobs -> SUBSET Nat] /\ j \in Workers
  BY <1>1 DEF IndInv, TypeOK, Workers
<1>3. i \in DOMAIN orders
  BY DEF IndInv, JobRowsExist
<1>4. orders[i].user \in Users /\ orders[i].no \in TradeNos
  BY <1>3, RowType DEF IndInv, TypeOK
<1>5. PICK r \in Request : Agrees(r) /\ req' = [req EXCEPT ![j] = r]
  <2>1. CASE RefundRead(j, orders[i].user, orders[i].no)
    BY <2>1, <1>2, <1>4, RefundReadAgrees
  <2>2. CASE UNCHANGED req
    BY <2>2, <1>2 DEF IndInv, TypeOK, RequestsAgree
  <2> QED BY <1>1, <2>1, <2>2
<1>6. \A k \in Jobs : batch'[k] \subseteq DOMAIN orders
  BY <1>1 DEF IndInv, TypeOK, JobRowsExist
<1> QED BY <1>2, <1>5, <1>6, ReadStep DEF JobRefund, IndInv, TypeOK

\* The scan of the timeout job keeps the invariant: it returns existing rows.
LEMMA JobScanInv ==
  ASSUME IndInv, NEW j \in Jobs, JobScan(j)
  PROVE  IndInv'
<1>1. PICK S \in SUBSET TimeoutUnpaidOrders : batch' = [batch EXCEPT ![j] = S]
  BY DEF JobScan
<1>2. S \subseteq DOMAIN orders /\ DOMAIN orders \subseteq Nat
  BY DEF TimeoutUnpaidOrders, IndInv, TypeOK
<1>3. /\ batch' \in [Jobs -> SUBSET Nat]
      /\ \A k \in Jobs : batch'[k] \subseteq DOMAIN orders
  BY <1>1, <1>2 DEF IndInv, TypeOK, JobRowsExist
<1>4. j \in Workers
  BY DEF Workers
<1>5. req[j] \in Request /\ Agrees(req[j])
  BY <1>4 DEF IndInv, TypeOK, RequestsAgree
<1>6. req' = [req EXCEPT ![j] = req[j]]
  BY DEF JobScan, IndInv, TypeOK
<1> QED BY <1>3, <1>4, <1>5, <1>6, ReadStep DEF JobScan, IndInv, TypeOK

-----------------------------------------------------------------------------
(* The three transactions                                                  *)

\* Requests other than the one that commits keep agreeing with the tables when
\* rows keep their teams, teams are not deleted and formed teams stay formed.
LEMMA OthersAgree ==
  ASSUME IndInv, NEW p \in Workers, Finish(p),
         DOMAIN orders \subseteq DOMAIN orders',
         \A i \in DOMAIN orders : orders'[i].team = orders[i].team,
         \A t \in Teams : /\ Exists(t) => team'[t].status # "absent"
                          /\ team[t].status \in Formed => team'[t].status \in Formed
  PROVE  RequestsAgree'
<1> SUFFICES ASSUME NEW q \in Workers PROVE Agrees(req[q])'
  BY DEF RequestsAgree
<1>1. req'[q] = IF q = p THEN IdleRequest ELSE req[q]
  BY DEF Finish, IndInv, TypeOK
<1>2. CASE q = p
  BY <1>1, <1>2 DEF IdleRequest, NewRequest, Agrees, LockStages
<1>3. CASE q # p
  <2>1. Agrees(req[q]) /\ req'[q] = req[q]
    BY <1>1, <1>3 DEF IndInv, RequestsAgree
  <2>2. req[q].pc = "refundTx" => req[q].team \in Teams
    BY <2>1, RowType DEF Agrees, IndInv, TypeOK
  <2> QED BY <2>1, <2>2 DEF Agrees, Exists
<1> QED BY <1>2, <1>3

\* The three refund transactions keep the invariant: the order that is closed
\* is the one seat that lock_count gives back.
LEMMA RefundTxInv ==
  ASSUME IndInv, NEW p \in Workers, RefundTx(p)
  PROVE  IndInv'
<1> DEFINE t == req[p].team
           i == req[p].order
           s == req[p].strategy
<1>1. /\ orders \in Seq(OrderRow) /\ team \in [Teams -> TeamRow]
      /\ tasks \in Seq(Task) /\ req \in [Workers -> Request]
      /\ batch \in [Jobs -> SUBSET Nat] /\ ended \in BOOLEAN
  BY DEF IndInv, TypeOK
<1>2. /\ i \in DOMAIN orders /\ t = orders[i].team /\ s \in RefundCategory
      /\ s = "paidTeam2Refund" => team[t].status \in Formed
  BY DEF RefundTx, Refundable, IndInv, RequestsAgree, Agrees
<1>3. t \in Teams /\ Exists(t) /\ team[t] \in TeamRow
  BY <1>1, <1>2, RowType DEF IndInv, RowsHaveTeams
<1>4. /\ orders[i].status # "close"
      /\ orders' = [orders EXCEPT ![i].status = "close"]
      /\ tasks' = Append(tasks, RefundTask(s, t, i))
      /\ Finish(p) /\ ended' = ended /\ batch' = batch
  BY DEF RefundTx, Refundable
<1>5. /\ orders' \in Seq(OrderRow)
      /\ DOMAIN orders' = DOMAIN orders
      /\ \A k \in DOMAIN orders :
              /\ orders'[k].user = orders[k].user
              /\ orders'[k].team = orders[k].team
              /\ orders'[k].take = orders[k].take
              /\ k # i => orders'[k] = orders[k]
      /\ orders'[i].status = "close"
  BY <1>1, <1>2, <1>4, UpdateRow DEF OrderStatus
<1>6. /\ team' \in [Teams -> TeamRow]
      /\ team'[t].lock = team[t].lock - 1
      /\ \A x \in Teams : x # t => team'[x] = team[x]
      /\ team'[t].status # "absent"
      /\ team[t].status \in Formed => team'[t].status \in Formed
  <2>1. CASE s = "unpaid2Refund"
    <3> DEFINE row == [team[t] EXCEPT !.lock = @ - 1]
    <3>1. team' = [team EXCEPT ![t] = row]
      BY <2>1 DEF RefundTx, Refundable
    <3>2. row \in TeamRow /\ row.lock = team[t].lock - 1
          /\ row.status = team[t].status
      BY <1>3 DEF TeamRow
    <3> HIDE DEF row
    <3> QED BY <3>1, <3>2, <1>1, <1>3 DEF Exists
  <2>2. CASE s = "paid2Refund"
    <3>1. team' = [team EXCEPT ![t].lock = @ - 1, ![t].complete = @ - 1]
      BY <2>2 DEF RefundTx, Refundable
    <3> QED BY <3>1, <1>1, <1>3 DEF TeamRow, Exists
  <2>3. CASE s = "paidTeam2Refund"
    <3> DEFINE after == StatusAfterRefund(team[t].complete - 1)
    <3>1. team' = [team EXCEPT ![t].lock = @ - 1, ![t].complete = @ - 1,
                               ![t].status = after]
      BY <2>3 DEF RefundTx, Refundable
    <3>2. after \in Formed /\ after \in TeamStatus /\ after # "absent"
      BY DEF StatusAfterRefund, Formed, TeamStatus
    <3> HIDE DEF after
    <3> QED BY <3>1, <3>2, <1>1, <1>3 DEF TeamRow
  <2> QED BY <1>2, <2>1, <2>2, <2>3 DEF RefundCategory
<1> HIDE DEF t, i, s
<1>7. tasks' \in Seq(Task)
  <2>1. i \in Nat
    BY <1>1, <1>2
  <2>2. RefundTask(s, t, i) \in Task
    BY <2>1, <1>2, <1>3 DEF RefundTask, Task
  <2> QED BY <2>2, <1>1, <1>4, AppendTask
<1>8. TypeOK'
  <2>1. req' \in [Workers -> Request]
    BY <1>1, <1>4, IdleAgrees DEF Finish
  <2> QED BY <2>1, <1>1, <1>4, <1>5, <1>6, <1>7 DEF TypeOK
<1>9. RequestsAgree'
  BY <1>3, <1>4, <1>5, <1>6, OthersAgree DEF Exists
<1>10. RowsHaveTeams' /\ JobRowsExist' /\ TakesDistinct'
  <2>1. \A k \in DOMAIN orders : orders[k].team \in Teams
    BY <1>1, RowType
  <2>2. RowsHaveTeams'
    BY <2>1, <1>5, <1>6 DEF IndInv, RowsHaveTeams, Exists
  <2>3. JobRowsExist' /\ TakesDistinct'
    BY <1>4, <1>5 DEF IndInv, JobRowsExist, TakesDistinct
  <2> QED BY <2>2, <2>3
<1>11. LockCountExact'
  <2> SUFFICES ASSUME NEW x \in Teams
               PROVE  team'[x].lock = Cardinality(LiveOrders(x)')
    BY DEF LockCountExact
  <2>1. team[x].lock = Cardinality(LiveOrders(x)) /\ IsFiniteSet(LiveOrders(x))
    BY <1>1, RowsFinite DEF IndInv, LockCountExact, LiveOrders
  <2>2. CASE x = t
    <3>1. i \in LiveOrders(x) /\ LiveOrders(x)' = LiveOrders(x) \ {i}
      BY <1>2, <1>4, <1>5, <2>2 DEF LiveOrders
    <3> QED BY <2>1, <2>2, <3>1, <1>6, FS_RemoveElement
  <2>3. CASE x # t
    <3>1. LiveOrders(x)' = LiveOrders(x)
      BY <1>2, <1>5, <2>3 DEF LiveOrders
    <3> QED BY <2>1, <2>3, <3>1, <1>6
  <2> QED BY <2>2, <2>3
<1>12. SeatsWithinTarget'
  <2> SUFFICES ASSUME NEW x \in Teams PROVE team'[x].lock <= Target
    BY DEF SeatsWithinTarget
  <2>1. team[x].lock <= Target /\ team[x].lock \in Int
    BY <1>1 DEF IndInv, SeatsWithinTarget, TeamRow
  <2> QED BY <2>1, <1>6, TargetAssumption
<1> QED BY <1>8, <1>9, <1>10, <1>11, <1>12 DEF IndInv

\* The team row the settlement that forms a team writes.
LEMMA FormRow ==
  ASSUME NEW row \in TeamRow, NEW s \in TeamStatus
  PROVE  LET new == [row EXCEPT !.complete = @ + 1, !.status = s]
         IN  /\ new \in TeamRow /\ new.lock = row.lock
             /\ new.complete = row.complete + 1 /\ new.status = s
<1> DEFINE one == [row EXCEPT !.complete = @ + 1]
           new == [one EXCEPT !.status = s]
<1>1. one \in TeamRow /\ one.lock = row.lock /\ one.complete = row.complete + 1
  BY DEF TeamRow
<1> HIDE DEF one
<1>2. /\ new \in TeamRow /\ new.lock = one.lock
      /\ new.complete = one.complete /\ new.status = s
  BY <1>1 DEF TeamRow
<1>3. new = [row EXCEPT !.complete = @ + 1, !.status = s]
  BY DEF one
<1> QED BY <1>1, <1>2, <1>3

\* The settlement transaction keeps the invariant: it closes no order and
\* leaves lock_count alone.
LEMMA SettleTxInv ==
  ASSUME IndInv, NEW p \in Workers, SettleTx(p)
  PROVE  IndInv'
<1> DEFINE t == req[p].team
<1>1. /\ orders \in Seq(OrderRow) /\ team \in [Teams -> TeamRow]
      /\ tasks \in Seq(Task) /\ req \in [Workers -> Request]
      /\ batch \in [Jobs -> SUBSET Nat] /\ ended \in BOOLEAN
  BY DEF IndInv, TypeOK
<1>2. t \in Teams /\ Exists(t) /\ team[t] \in TeamRow
  BY <1>1 DEF SettleTx, IndInv, RequestsAgree, Agrees
<1>3. PICK i \in DOMAIN orders :
        /\ orders[i].status = "create"
        /\ orders' = [orders EXCEPT ![i].status = "complete"]
  BY DEF SettleTx, RowsOf
<1>4. /\ orders' \in Seq(OrderRow)
      /\ DOMAIN orders' = DOMAIN orders
      /\ \A k \in DOMAIN orders :
              /\ orders'[k].user = orders[k].user
              /\ orders'[k].team = orders[k].team
              /\ orders'[k].take = orders[k].take
              /\ k # i => orders'[k] = orders[k]
      /\ orders'[i].status = "complete"
  BY <1>1, <1>3, UpdateRow DEF OrderStatus
<1>5. Finish(p) /\ ended' = ended /\ batch' = batch
  BY DEF SettleTx
<1>6. /\ team' \in [Teams -> TeamRow]
      /\ team'[t].lock = team[t].lock
      /\ \A x \in Teams : x # t => team'[x] = team[x]
      /\ team'[t].status # "absent"
      /\ team[t].status \in Formed => team'[t].status \in Formed
  <2>1. CASE team' = [team EXCEPT ![t].complete = @ + 1]
    <3> DEFINE row == [team[t] EXCEPT !.complete = @ + 1]
    <3>1. team' = [team EXCEPT ![t] = row]
      BY <2>1
    <3>2. row \in TeamRow /\ row.lock = team[t].lock
          /\ row.status = team[t].status
      BY <1>2 DEF TeamRow
    <3> HIDE DEF row
    <3> QED BY <3>1, <3>2, <1>1, <1>2 DEF Exists
  <2>2. CASE team' = [team EXCEPT ![t].complete = @ + 1, ![t].status = "complete"]
    <3> DEFINE row == [team[t] EXCEPT !.complete = @ + 1, !.status = "complete"]
    <3>1. team' = [team EXCEPT ![t] = row]
      BY <2>2
    <3>2. row \in TeamRow /\ row.lock = team[t].lock /\ row.status = "complete"
      <4>1. "complete" \in TeamStatus
        BY DEF TeamStatus
      <4> QED BY <1>2, <4>1, FormRow
    <3> HIDE DEF row
    <3> QED BY <3>1, <3>2, <1>1, <1>2 DEF Formed, TeamStatus
  <2> QED BY <2>1, <2>2 DEF SettleTx, CanForm
<1>7. tasks' \in Seq(Task)
  <2> DEFINE paid == {k \in DOMAIN orders' :
                        orders'[k].team = t /\ orders'[k].status = "complete"}
  <2>1. tasks' = tasks \/ tasks' = Append(tasks, SettlementTask(t, paid))
    BY DEF SettleTx
  <2>2. paid \in SUBSET Nat
    BY <1>4
  <2> HIDE DEF paid, t
  <2>3. SettlementTask(t, paid) \in Task
    BY <1>2, <2>2 DEF SettlementTask, Task
  <2> QED BY <1>1, <2>1, <2>3, AppendTask
<1> HIDE DEF t
<1>8. TypeOK'
  <2>1. req' \in [Workers -> Request]
    BY <1>1, <1>5, IdleAgrees DEF Finish
  <2> QED BY <2>1, <1>1, <1>4, <1>5, <1>6, <1>7 DEF TypeOK
<1>9. RequestsAgree'
  BY <1>2, <1>4, <1>5, <1>6, OthersAgree DEF Exists
<1>10. RowsHaveTeams' /\ JobRowsExist' /\ TakesDistinct'
  <2>1. \A k \in DOMAIN orders : orders[k].team \in Teams
    BY <1>1, RowType
  <2>2. RowsHaveTeams'
    BY <2>1, <1>4, <1>6 DEF IndInv, RowsHaveTeams, Exists
  <2>3. JobRowsExist' /\ TakesDistinct'
    BY <1>4, <1>5 DEF IndInv, JobRowsExist, TakesDistinct
  <2> QED BY <2>2, <2>3
<1>11. \A x \in Teams : team'[x].lock = team[x].lock
  BY <1>6
<1>12. \A x \in Teams : LiveOrders(x)' = LiveOrders(x)
  BY <1>3, <1>4 DEF LiveOrders
<1>13. LockCountExact' /\ SeatsWithinTarget'
  BY <1>11, <1>12 DEF IndInv, LockCountExact, SeatsWithinTarget
<1> QED BY <1>8, <1>9, <1>10, <1>13 DEF IndInv

\* The lock transaction keeps the invariant: the inserted order is the one
\* seat lock_count gains, and biz_id keeps the user's take numbers distinct.
LEMMA LockTxInv ==
  ASSUME IndInv, NEW p \in Workers, LockTx(p)
  PROVE  IndInv'
<1> DEFINE n == Len(orders) + 1
           row(t) == [user |-> req[p].user, no |-> req[p].no, team |-> t,
                      take |-> req[p].count + 1, status |-> "create"]
<1>1. /\ orders \in Seq(OrderRow) /\ team \in [Teams -> TeamRow]
      /\ tasks \in Seq(Task) /\ req \in [Workers -> Request]
      /\ batch \in [Jobs -> SUBSET Nat] /\ ended \in BOOLEAN
  BY DEF IndInv, TypeOK
<1>2. /\ req[p].user \in Users /\ req[p].no \in TradeNos /\ req[p].count \in Nat
      /\ TakeLimit > 0 => req[p].count < TakeLimit
  BY DEF LockTx, SeatFree, IndInv, RequestsAgree, Agrees, LockStages
<1>3. PICK t \in Teams :
        /\ orders' = Append(orders, row(t))
        /\ team' \in [Teams -> TeamRow]
        /\ team'[t].lock = team[t].lock + 1
        /\ team'[t].lock <= Target
        /\ \A x \in Teams : x # t => team'[x] = team[x]
        /\ team'[t].status # "absent"
        /\ team[t].status \in Formed => team'[t].status \in Formed
  <2>1. CASE req[p].team = Nil
    <3> DEFINE fresh == [lock |-> 1, complete |-> 0, status |-> "progress"]
    <3>1. PICK t \in Teams : /\ ~ Exists(t)
                             /\ team' = [team EXCEPT ![t] = fresh]
                             /\ orders' = Append(orders, row(t))
      BY <2>1 DEF LockTx, SeatFree, InsertOrder
    <3>2. fresh \in TeamRow /\ fresh.lock = 1 /\ fresh.status = "progress"
      BY DEF TeamRow, TeamStatus
    <3>3. LiveOrders(t) = {}
      BY <3>1 DEF IndInv, RowsHaveTeams, LiveOrders
    <3>4. team[t].lock = 0 /\ team[t].status = "absent"
      BY <3>1, <3>3, FS_EmptySet DEF IndInv, LockCountExact, Exists
    <3> HIDE DEF fresh, row
    <3>5. team'[t] = fresh /\ team' \in [Teams -> TeamRow]
          /\ \A x \in Teams : x # t => team'[x] = team[x]
      BY <3>1, <3>2, <1>1
    <3>6. team[t].status \notin Formed
      BY <3>4 DEF Formed, TeamStatus
    <3>7. fresh.lock <= Target
      BY <3>2, TargetAssumption
    <3> QED BY <3>1, <3>2, <3>4, <3>5, <3>6, <3>7
  <2>2. CASE req[p].team # Nil
    <3> DEFINE t == req[p].team
               r == [team[t] EXCEPT !.lock = @ + 1]
    <3>1. /\ Exists(t) /\ team[t].lock < Target
          /\ team' = [team EXCEPT ![t] = r]
          /\ orders' = Append(orders, row(t))
      BY <2>2 DEF LockTx, SeatFree, InsertOrder
    <3>2. t \in Teams
      BY <1>1, <2>2 DEF Request
    <3>3. r \in TeamRow /\ r.lock = team[t].lock + 1 /\ r.status = team[t].status
          /\ team[t].lock \in Int
      <4>1. team[t] \in TeamRow
        BY <1>1, <3>2
      <4> QED BY <4>1 DEF TeamRow
    <3>4. r.lock <= Target
      BY <3>1, <3>3, TargetAssumption
    <3> HIDE DEF t, r, row
    <3> QED BY <3>1, <3>2, <3>3, <3>4, <1>1 DEF Exists
  <2> QED BY <2>1, <2>2
<1>4. row(t) \in OrderRow
  BY <1>2 DEF OrderRow, OrderStatus
<1>5. row(t).user = req[p].user /\ row(t).team = t
      /\ row(t).take = req[p].count + 1 /\ row(t).status = "create"
  OBVIOUS
<1> HIDE DEF row
<1>6. /\ orders' \in Seq(OrderRow)
      /\ DOMAIN orders' = DOMAIN orders \cup {n}
      /\ n \notin DOMAIN orders
      /\ \A i \in DOMAIN orders : orders'[i] = orders[i]
      /\ orders'[n] = row(t)
  BY <1>1, <1>3, <1>4, AppendRow
<1> HIDE DEF n
<1>7. /\ Finish(p) /\ tasks' = tasks /\ ended' = ended /\ batch' = batch
      /\ BizIdFree(req[p].user, req[p].count + 1)
  BY DEF LockTx
<1>8. TypeOK'
  <2>1. req' \in [Workers -> Request]
    BY <1>1, <1>7, IdleAgrees DEF Finish
  <2> QED BY <2>1, <1>1, <1>3, <1>6, <1>7 DEF TypeOK
<1>9. RequestsAgree'
  BY <1>3, <1>6, <1>7, OthersAgree DEF Exists
<1>10. RowsHaveTeams'
  <2> SUFFICES ASSUME NEW i \in DOMAIN orders' PROVE team'[orders'[i].team].status # "absent"
    BY DEF RowsHaveTeams, Exists
  <2>1. CASE i = n
    BY <2>1, <1>3, <1>5, <1>6
  <2>2. CASE i # n
    <3>1. i \in DOMAIN orders /\ orders'[i] = orders[i]
      BY <2>2, <1>6
    <3>2. orders[i].team \in Teams /\ team[orders[i].team].status # "absent"
      BY <3>1, <1>1, RowType DEF IndInv, RowsHaveTeams, Exists
    <3> QED BY <3>1, <3>2, <1>3
  <2> QED BY <2>1, <2>2
<1>11. JobRowsExist'
  BY <1>6, <1>7 DEF IndInv, JobRowsExist
<1>12. TakesDistinct'
  <2>1. ASSUME NEW i \in DOMAIN orders', NEW j \in DOMAIN orders',
               orders'[i].user = orders'[j].user, orders'[i].take = orders'[j].take
        PROVE  i = j
    <3>1. CASE i = n /\ j # n
      BY <2>1, <3>1, <1>5, <1>6, <1>7 DEF BizIdFree
    <3>2. CASE i # n /\ j = n
      BY <2>1, <3>2, <1>5, <1>6, <1>7 DEF BizIdFree
    <3>3. CASE i # n /\ j # n
      BY <2>1, <3>3, <1>6 DEF IndInv, TakesDistinct
    <3> QED BY <3>1, <3>2, <3>3
  <2>2. ASSUME TakeLimit > 0, NEW i \in DOMAIN orders'
        PROVE  orders'[i].take <= TakeLimit
    <3>1. CASE i = n
      BY <2>2, <3>1, <1>2, <1>5, <1>6, TakeLimitAssumption
    <3>2. CASE i # n
      BY <2>2, <3>2, <1>6 DEF IndInv, TakesDistinct
    <3> QED BY <3>1, <3>2
  <2> QED BY <2>1, <2>2 DEF TakesDistinct
<1>13. LockCountExact'
  <2> SUFFICES ASSUME NEW x \in Teams
               PROVE  team'[x].lock = Cardinality(LiveOrders(x)')
    BY DEF LockCountExact
  <2>1. team[x].lock = Cardinality(LiveOrders(x)) /\ IsFiniteSet(LiveOrders(x))
    BY <1>1, RowsFinite DEF IndInv, LockCountExact, LiveOrders
  <2>2. CASE x = t
    <3>1. n \notin LiveOrders(x) /\ LiveOrders(x)' = LiveOrders(x) \cup {n}
      BY <1>5, <1>6, <2>2 DEF LiveOrders
    <3> QED BY <2>1, <2>2, <3>1, <1>3, FS_AddElement
  <2>3. CASE x # t
    <3>1. LiveOrders(x)' = LiveOrders(x)
      BY <1>5, <1>6, <2>3 DEF LiveOrders
    <3> QED BY <2>1, <2>3, <3>1, <1>3
  <2> QED BY <2>2, <2>3
<1>14. SeatsWithinTarget'
  BY <1>3 DEF IndInv, SeatsWithinTarget
<1> QED BY <1>8, <1>9, <1>10, <1>11, <1>12, <1>13, <1>14 DEF IndInv

-----------------------------------------------------------------------------
(* The theorems                                                            *)

\* The empty tables satisfy the invariant.
LEMMA InitInv == Init => IndInv
<1> SUFFICES ASSUME Init PROVE IndInv
  OBVIOUS
<1>1. orders \in Seq(OrderRow) /\ DOMAIN orders = {}
  BY DEF Init
<1>2. TypeOK
  <2>1. NoTeamRow \in TeamRow
    BY DEF NoTeamRow, TeamRow
  <2>2. tasks \in Seq(Task)
    BY DEF Init
  <2> QED BY <1>1, <2>1, <2>2, IdleAgrees DEF Init, TypeOK
<1>3. RequestsAgree
  BY IdleAgrees DEF Init, RequestsAgree
<1>4. RowsHaveTeams /\ JobRowsExist /\ TakesDistinct
  BY <1>1 DEF Init, RowsHaveTeams, JobRowsExist, TakesDistinct
<1>5. LockCountExact
  <2>1. \A t \in Teams : LiveOrders(t) = {} /\ team[t].lock = 0
    BY <1>1 DEF Init, LiveOrders, NoTeamRow
  <2> QED BY <2>1, FS_EmptySet DEF LockCountExact
<1>6. SeatsWithinTarget
  BY TargetAssumption DEF Init, NoTeamRow, SeatsWithinTarget
<1> QED BY <1>2, <1>3, <1>4, <1>5, <1>6 DEF IndInv

\* Every step of the trade core keeps the invariant.
LEMMA NextInv == IndInv /\ [Next]_vars => IndInv'
<1> SUFFICES ASSUME IndInv, [Next]_vars PROVE IndInv'
  OBVIOUS
<1>1. \A p \in Procs : p \in Workers
  BY DEF Workers
<1>2. ASSUME NEW p \in Procs, NEW u \in Users, NEW no \in TradeNos,
             NEW t \in Teams \cup {Nil}, LockStart(p, u, no, t)
      PROVE  IndInv'
  BY <1>1, <1>2, LockStartInv
<1>3. ASSUME NEW p \in Procs, NEW u \in Users, NEW no \in TradeNos,
             SettleStart(p, u, no) \/ RefundStart(p, u, no)
      PROVE  IndInv'
  BY <1>1, <1>3, SettleStartInv, RefundStartInv
<1>4. ASSUME NEW p \in Procs,
             \/ LockProgress(p) \/ LockFilter(p) \/ LockTx(p)
             \/ SettleTeam(p) \/ SettleTx(p)
      PROVE  IndInv'
  BY <1>1, <1>4, LockProgressInv, LockFilterInv, LockTxInv, SettleTeamInv,
     SettleTxInv
<1>5. ASSUME NEW j \in Jobs, JobScan(j) \/ JobRefund(j)
      PROVE  IndInv'
  BY <1>5, JobScanInv, JobRefundInv
<1>6. ASSUME NEW p \in Workers, RefundTx(p) \/ Abandon(p)
      PROVE  IndInv'
  BY <1>6, RefundTxInv, AbandonInv
<1>7. ASSUME ActivityEnds \/ UNCHANGED vars
      PROVE  IndInv'
  <2>1. /\ team' = team /\ orders' = orders /\ tasks' = tasks /\ req' = req
        /\ batch' = batch /\ ended' \in BOOLEAN
    BY <1>7 DEF ActivityEnds, vars, IndInv, TypeOK
  <2> QED BY <2>1 DEF IndInv, TypeOK, RequestsAgree, Agrees, Exists,
             RowsHaveTeams, JobRowsExist, LockCountExact, LiveOrders,
             SeatsWithinTarget, TakesDistinct
<1> QED BY <1>2, <1>3, <1>4, <1>5, <1>6, <1>7 DEF Next

\* The invariant the theorems below follow from.
THEOREM Invariance == Spec => []IndInv
BY InitInv, NextInv, PTL DEF Spec

\* Every row and every request keeps its type (TypeOK), for any number of
\* requests, users and teams.
THEOREM TypeCorrect == Spec => []TypeOK
<1>1. IndInv => TypeOK
  BY DEF IndInv
<1> QED BY <1>1, Invariance, PTL

\* lock_count is the number of open orders of the team (LockCountExact),
\* whatever LockMarketPayOrder, settlements and the three refunds interleave.
THEOREM LockCountCorrect == Spec => []LockCountExact
<1>1. IndInv => LockCountExact
  BY DEF IndInv
<1> QED BY <1>1, Invariance, PTL

\* No team is oversold (NoOversell): the guard lock_count < target_count of
\* LockMarketPayOrder bounds the open orders themselves.
THEOREM NoOversellCorrect == Spec => []NoOversell
<1>1. IndInv => NoOversell
  BY DEF IndInv, LockCountExact, SeatsWithinTarget, NoOversell
<1> QED BY <1>1, Invariance, PTL

\* The take limit holds (TakeLimitRespected): the stale count of
\* UserTakeLimitRuleFilter is made safe by the unique biz_id, for every limit
\* and every number of concurrent locks.
THEOREM TakeLimitCorrect == Spec => []TakeLimitRespected
<1>1. IndInv => TakeLimitRespected
  <2> SUFFICES ASSUME IndInv, TakeLimit > 0, NEW u \in Users
               PROVE  Cardinality(OrdersOfUser(u)) <= TakeLimit
    BY DEF TakeLimitRespected
  <2> DEFINE S == OrdersOfUser(u)
             f == [i \in S |-> orders[i].take]
  <2>1. \A i \in S : orders[i].take \in 1..TakeLimit
    <3> SUFFICES ASSUME NEW i \in S PROVE orders[i].take \in 1..TakeLimit
      OBVIOUS
    <3>1. i \in DOMAIN orders
      BY DEF OrdersOfUser
    <3>2. orders[i].take \in Nat \ {0}
      BY <3>1, RowType DEF IndInv, TypeOK
    <3>3. orders[i].take <= TakeLimit
      BY <3>1 DEF IndInv, TakesDistinct
    <3> QED BY <3>2, <3>3, TakeLimitAssumption
  <2>2. \A i, j \in S : orders[i].take = orders[j].take => i = j
    BY DEF IndInv, TakesDistinct, OrdersOfUser
  <2>3. f \in Injection(S, 1..TakeLimit)
    BY <2>1, <2>2 DEF Injection, IsInjective
  <2>4. IsFiniteSet(1..TakeLimit) /\ Cardinality(1..TakeLimit) = TakeLimit
    BY FS_Interval, TakeLimitAssumption
  <2> HIDE DEF S, f
  <2>5. Cardinality(S) <= TakeLimit
    BY <2>3, <2>4, FS_Injection
  <2> QED BY <2>5 DEF S
<1> QED BY <1>1, Invariance, PTL
=============================================================================
