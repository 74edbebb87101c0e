-------------------------- MODULE TradeLedgerProofs --------------------------
(***************************************************************************)
(* The notifications and the payment count of GroupBuyTrade, and the proof *)
(* that GroupBuyTrade implements TeamLedger, for every value of the        *)
(* constants.  They rest on one summary of Next: a step leaves the three   *)
(* tables alone, seats one order, pays one, or closes one.                 *)
(***************************************************************************)
EXTENDS TradeLedger, GroupBuyTradeProofs

-----------------------------------------------------------------------------
(* What a step does to the tables                                          *)

\* Of the team rows at most that of t changes.
OnlyTeam(t) ==
  /\ t \in Teams
  /\ team' \in [Teams -> TeamRow]
  /\ \A x \in Teams : x # t => team'[x] = team[x]

\* LockMarketPayOrder committed: one row more, in a team with a free seat.
Seats(t, row) ==
  /\ Len(orders) < MaxOrders
  /\ row \in OrderRow /\ row.team = t /\ row.status = "create"
  /\ orders' = Append(orders, row)
  /\ OnlyTeam(t)
  /\ team[t].lock < Target
  /\ team'[t].lock = team[t].lock + 1
  /\ team'[t].complete = IF Exists(t) THEN team[t].complete ELSE 0
  /\ team'[t].status = IF Exists(t) THEN team[t].status ELSE "progress"
  /\ tasks' = tasks

\* The paid rows of team t after the step.
PaidNext(t) ==
  {k \in DOMAIN orders' : orders'[k].team = t /\ orders'[k].status = "complete"}

\* SettlementMarketPayOrder committed: a row is paid and team t counts it;
\* either the team stays as it is, or it forms and its notification is written.
Pays(t, i) ==
  /\ i \in DOMAIN orders /\ orders[i].status = "create"
  /\ orders' = [orders EXCEPT ![i].status = "complete"]
  /\ OnlyTeam(t) /\ Exists(t)
  /\ team'[t].lock = team[t].lock
  /\ team'[t].complete = team[t].complete + 1
  /\ \/ team'[t].status = team[t].status /\ tasks' = tasks
     \/ /\ team[t].status = "progress" /\ team'[t].status = "complete"
        /\ tasks' = Append(tasks, SettlementTask(t, PaidNext(t)))

\* A refund committed: the row is closed, its team gives the seat back (and
\* the payment), a formed team stays formed, the notification is written.
Closes(t, i, s) ==
  /\ i \in DOMAIN orders /\ orders[i].team = t
  /\ s \in RefundCategory
  /\ orders[i].status = IF s = "unpaid2Refund" THEN "create" ELSE "complete"
  /\ orders' = [orders EXCEPT ![i].status = "close"]
  /\ OnlyTeam(t) /\ Exists(t)
  /\ team'[t].lock = team[t].lock - 1
  /\ team'[t].complete = IF s = "unpaid2Refund" THEN team[t].complete
                                                ELSE team[t].complete - 1
  /\ \/ team'[t].status = team[t].status
     \/ team[t].status \in Formed /\ team'[t].status \in Formed
  /\ tasks' = Append(tasks, RefundTask(s, t, i))

Untouched == team' = team /\ orders' = orders /\ tasks' = tasks

\* The lock transaction seats one order.
LEMMA LockTxSeats ==
  ASSUME IndInv, NEW p \in Workers, LockTx(p)
  PROVE  \E t \in Teams : \E row \in OrderRow :
           /\ Seats(t, row)
           /\ row.user = req[p].user /\ row.no = req[p].no
<1> DEFINE row(t) == [user |-> req[p].user, no |-> req[p].no, team |-> t,
                      take |-> req[p].count + 1, status |-> "create"]
<1>1. /\ orders \in Seq(OrderRow) /\ team \in [Teams -> TeamRow]
      /\ req \in [Workers -> Request]
  BY DEF IndInv, TypeOK
<1>2. req[p].user \in Users /\ req[p].no \in TradeNos /\ req[p].count \in Nat
  BY DEF LockTx, IndInv, RequestsAgree, Agrees, LockStages
<1>3. ASSUME NEW t \in Teams
      PROVE  /\ row(t) \in OrderRow /\ row(t).team = t /\ row(t).status = "create"
             /\ row(t).user = req[p].user /\ row(t).no = req[p].no
  BY <1>2 DEF OrderRow, OrderStatus
<1>4. Len(orders) < MaxOrders /\ tasks' = tasks
  BY DEF LockTx
<1>5. CASE req[p].team = Nil
  <2> DEFINE fresh == [lock |-> 1, complete |-> 0, status |-> "progress"]
  <2>1. PICK t \in Teams : /\ ~ Exists(t)
                           /\ team' = [team EXCEPT ![t] = fresh]
                           /\ orders' = Append(orders, row(t))
    BY <1>5 DEF LockTx, InsertOrder
  <2>2. fresh \in TeamRow /\ fresh.lock = 1 /\ fresh.complete = 0
        /\ fresh.status = "progress"
    BY DEF TeamRow, TeamStatus
  <2>3. LiveOrders(t) = {}
    BY <2>1 DEF IndInv, RowsHaveTeams, LiveOrders
  <2>4. team[t].lock = 0 /\ 0 < Target
    BY <2>3, FS_EmptySet, TargetAssumption DEF IndInv, LockCountExact
  <2> HIDE DEF fresh, row
  <2>5. team'[t] = fresh /\ OnlyTeam(t)
    BY <2>1, <2>2, <1>1 DEF OnlyTeam
  <2>6. Seats(t, row(t))
    BY <2>1, <2>2, <2>4, <2>5, <1>3, <1>4 DEF Seats
  <2> QED BY <2>6, <1>3
<1>6. CASE req[p].team # Nil
  <2> DEFINE t == req[p].team
             r == [team[t] EXCEPT !.lock = @ + 1]
  <2>1. /\ Exists(t) /\ team[t].lock < Target
        /\ team' = [team EXCEPT ![t] = r]
        /\ orders' = Append(orders, row(t))
    BY <1>6 DEF LockTx, SeatFree, InsertOrder
  <2>2. t \in Teams
    BY <1>1, <1>6 DEF Request
  <2>3. team[t] \in TeamRow
    BY <1>1, <2>2
  <2>4. /\ r \in TeamRow /\ r.lock = team[t].lock + 1
        /\ r.complete = team[t].complete /\ r.status = team[t].status
    BY <2>3 DEF TeamRow
  <2> HIDE DEF t, r, row
  <2>5. team'[t] = r /\ OnlyTeam(t)
    BY <2>1, <2>2, <2>4, <1>1 DEF OnlyTeam
  <2>6. Seats(t, row(t))
    BY <2>1, <2>2, <2>4, <2>5, <1>3, <1>4 DEF Seats
  <2> QED BY <2>2, <2>6, <1>3
<1> QED BY <1>5, <1>6

\* The settlement transaction pays one order, of its user and out_trade_no,
\* and counts it on the team the request read.
LEMMA SettleTxPays ==
  ASSUME IndInv, NEW p \in Workers, SettleTx(p)
  PROVE  \E i \in RowsOf(req[p].user, req[p].no) : Pays(req[p].team, i)
<1> DEFINE t == req[p].team
<1>1. /\ orders \in Seq(OrderRow) /\ team \in [Teams -> TeamRow]
      /\ req \in [Workers -> Request]
  BY DEF IndInv, TypeOK
<1>2. t \in Teams /\ Exists(t) /\ team[t] \in TeamRow
  BY <1>1 DEF SettleTx, IndInv, RequestsAgree, Agrees
<1>3. PICK i \in RowsOf(req[p].user, req[p].no) :
        /\ orders[i].status = "create"
        /\ orders' = [orders EXCEPT ![i].status = "complete"]
        /\ \/ team' = [team EXCEPT ![t].complete = @ + 1] /\ tasks' = tasks
           \/ /\ team[t].status = "progress"
              /\ team' = [team EXCEPT ![t].complete = @ + 1,
                                      ![t].status = "complete"]
              /\ tasks' = Append(tasks,
                   SettlementTask(t, {k \in DOMAIN orders' :
                                        /\ orders'[k].team = t
                                        /\ orders'[k].status = "complete"}))
  BY DEF SettleTx, CanForm
<1>4. i \in DOMAIN orders
  BY DEF RowsOf
<1>5. CASE team' = [team EXCEPT ![t].complete = @ + 1] /\ tasks' = tasks
  <2> DEFINE row == [team[t] EXCEPT !.complete = @ + 1]
  <2>1. team' = [team EXCEPT ![t] = row]
    BY <1>5
  <2>2. /\ row \in TeamRow /\ row.lock = team[t].lock
        /\ row.complete = team[t].complete + 1 /\ row.status = team[t].status
    BY <1>2 DEF TeamRow
  <2> HIDE DEF row, t
  <2>3. team'[t] = row /\ OnlyTeam(t)
    BY <2>1, <2>2, <1>1, <1>2 DEF OnlyTeam
  <2>4. Pays(t, i)
    BY <2>2, <2>3, <1>2, <1>3, <1>4, <1>5 DEF Pays
  <2> QED BY <2>4 DEF t
<1>6. CASE /\ team[t].status = "progress"
           /\ team' = [team EXCEPT ![t].complete = @ + 1, ![t].status = "complete"]
           /\ tasks' = Append(tasks,
                SettlementTask(t, {k \in DOMAIN orders' :
                                     /\ orders'[k].team = t
                                     /\ orders'[k].status = "complete"}))
  <2> DEFINE row == [team[t] EXCEPT !.complete = @ + 1, !.status = "complete"]
  <2>1. team' = [team EXCEPT ![t] = row]
    BY <1>6
  <2>2. /\ row \in TeamRow /\ row.lock = team[t].lock
        /\ row.complete = team[t].complete + 1 /\ row.status = "complete"
    <3>1. "complete" \in TeamStatus
      BY DEF TeamStatus
    <3> QED BY <3>1, <1>2, FormRow
  <2>3. tasks' = Append(tasks, SettlementTask(t, PaidNext(t)))
    BY <1>6 DEF PaidNext
  <2> HIDE DEF row, t
  <2>4. team'[t] = row /\ OnlyTeam(t)
    BY <2>1, <2>2, <1>1, <1>2 DEF OnlyTeam
  <2>5. Pays(t, i)
    BY <2>2, <2>3, <2>4, <1>2, <1>3, <1>4, <1>6 DEF Pays
  <2> QED BY <2>5 DEF t
<1> QED BY <1>3, <1>5, <1>6

\* The team row a refund of a paid order writes, without and with a status.
LEMMA RefundRow ==
  ASSUME NEW row \in TeamRow, NEW s \in TeamStatus
  PROVE  LET two   == [row EXCEPT !.lock = @ - 1, !.complete = @ - 1]
             three == [row EXCEPT !.lock = @ - 1, !.complete = @ - 1, !.status = s]
         IN  /\ two \in TeamRow /\ three \in TeamRow
             /\ two.lock = row.lock - 1 /\ three.lock = row.lock - 1
             /\ two.complete = row.complete - 1 /\ three.complete = row.complete - 1
             /\ two.status = row.status /\ three.status = s
<1> DEFINE one   == [row EXCEPT !.lock = @ - 1]
           two   == [one EXCEPT !.complete = @ - 1]
           three == [two EXCEPT !.status = s]
<1>1. one \in TeamRow /\ one.lock = row.lock - 1 /\ one.complete = row.complete
      /\ one.status = row.status
  BY DEF TeamRow
<1>2. two = [row EXCEPT !.lock = @ - 1, !.complete = @ - 1]
  OBVIOUS
<1>3. three = [row EXCEPT !.lock = @ - 1, !.complete = @ - 1, !.status = s]
  OBVIOUS
<1> HIDE DEF one
<1>4. two \in TeamRow /\ two.lock = one.lock /\ two.complete = one.complete - 1
      /\ two.status = one.status
  BY <1>1 DEF TeamRow
<1> HIDE DEF two
<1>5. three \in TeamRow /\ three.lock = two.lock /\ three.complete = two.complete
      /\ three.status = s
  BY <1>4 DEF TeamRow
<1> QED BY <1>1, <1>2, <1>3, <1>4, <1>5

\* Each of the three refund transactions closes one order.
LEMMA RefundTxCloses ==
  ASSUME IndInv, NEW p \in Workers, RefundTx(p)
  PROVE  Closes(req[p].team, req[p].order, req[p].strategy)
<1> DEFINE t == req[p].team
           i == req[p].order
           s == req[p].strategy
<1>1. orders \in Seq(OrderRow) /\ team \in [Teams -> TeamRow]
  BY DEF IndInv, TypeOK
<1>2. /\ i \in DOMAIN orders /\ t = orders[i].team /\ s \in RefundCategory
      /\ s = "paidTeam2Refund" => team[t].status \in Formed
  BY DEF RefundTx, IndInv, RequestsAgree, Agrees
<1>3. t \in Teams /\ Exists(t) /\ team[t] \in TeamRow
  BY <1>1, <1>2, RowType DEF IndInv, RowsHaveTeams
<1>4. /\ orders[i].status = IF s = "unpaid2Refund" THEN "create" ELSE "complete"
      /\ orders' = [orders EXCEPT ![i].status = "close"]
      /\ tasks' = Append(tasks, RefundTask(s, t, i))
  BY DEF RefundTx, Refundable
<1>5. /\ OnlyTeam(t)
      /\ team'[t].lock = team[t].lock - 1
      /\ team'[t].complete = IF s = "unpaid2Refund" THEN team[t].complete
                                                    ELSE team[t].complete - 1
      /\ \/ team'[t].status = team[t].status
         \/ team[t].status \in Formed /\ team'[t].status \in Formed
  <2>1. CASE s = "unpaid2Refund"
    <3> DEFINE row == [team[t] EXCEPT !.lock = @ - 1]
    <3>1. team' = [team EXCEPT ![t] = row]
      BY <2>1 DEF RefundTx
    <3>2. row \in TeamRow /\ row.lock = team[t].lock - 1
          /\ row.complete = team[t].complete /\ row.status = team[t].status
      BY <1>3 DEF TeamRow
    <3> HIDE DEF row
    <3> QED BY <3>1, <3>2, <1>1, <1>3, <2>1 DEF OnlyTeam
  <2>2. CASE s = "paid2Refund"
    <3> DEFINE row == [team[t] EXCEPT !.lock = @ - 1, !.complete = @ - 1]
    <3>1. team' = [team EXCEPT ![t] = row]
      BY <2>2 DEF RefundTx
    <3>2. /\ row \in TeamRow /\ row.lock = team[t].lock - 1
          /\ row.complete = team[t].complete - 1 /\ row.status = team[t].status
      <4>1. "fail" \in TeamStatus
        BY DEF TeamStatus
      <4> QED BY <4>1, <1>3, RefundRow
    <3> HIDE DEF row
    <3> QED BY <3>1, <3>2, <1>1, <1>3, <2>2 DEF OnlyTeam
  <2>3. CASE s = "paidTeam2Refund"
    <3> DEFINE after == StatusAfterRefund(team[t].complete - 1)
               row == [team[t] EXCEPT !.lock = @ - 1, !.complete = @ - 1,
                                      !.status = after]
    <3>1. team' = [team EXCEPT ![t] = row]
      BY <2>3 DEF RefundTx
    <3>2. after \in Formed /\ after \in TeamStatus
      BY DEF StatusAfterRefund, Formed, TeamStatus
    <3> HIDE DEF after
    <3>3. /\ row \in TeamRow /\ row.lock = team[t].lock - 1
          /\ row.complete = team[t].complete - 1 /\ row.status = after
      BY <3>2, <1>3, RefundRow
    <3> HIDE DEF row
    <3> QED BY <3>1, <3>2, <3>3, <1>1, <1>2, <1>3, <2>3 DEF OnlyTeam
  <2> QED BY <1>2, <2>1, <2>2, <2>3 DEF RefundCategory
<1> QED BY <1>2, <1>3, <1>4, <1>5 DEF Closes

\* Every step of the trade core leaves the tables alone, seats an order, pays
\* one or closes one.
LEMMA TableStep ==
  ASSUME IndInv, [Next]_vars
  PROVE  \/ Untouched
         \/ \E t \in Teams : \E row \in OrderRow : Seats(t, row)
         \/ \E t \in Teams : \E i \in DOMAIN orders : Pays(t, i)
         \/ \E t \in Teams : \E i \in DOMAIN orders :
              \E s \in RefundCategory : Closes(t, i, s)
<1>1. \A p \in Procs : p \in Workers
  BY DEF Workers
<1>2. ASSUME NEW p \in Procs, NEW u \in Users, NEW no \in TradeNos,
             \/ \E t \in Teams \cup {Nil} : LockStart(p, u, no, t)
             \/ SettleStart(p, u, no) \/ RefundStart(p, u, no)
      PROVE  Untouched
  BY <1>2 DEF LockStart, SettleStart, RefundStart, Untouched
<1>3. ASSUME NEW p \in Procs, LockProgress(p) \/ LockFilter(p) \/ SettleTeam(p)
      PROVE  Untouched
  BY <1>3 DEF LockProgress, LockFilter, SettleTeam, Untouched
<1>4. ASSUME NEW p \in Procs, LockTx(p)
      PROVE  \E t \in Teams : \E row \in OrderRow : Seats(t, row)
  BY <1>1, <1>4, LockTxSeats
<1>5. ASSUME NEW p \in Procs, SettleTx(p)
      PROVE  \E t \in Teams : \E i \in DOMAIN orders : Pays(t, i)
  BY <1>1, <1>5, SettleTxPays DEF Pays, OnlyTeam
<1>6. ASSUME NEW j \in Jobs, JobScan(j) \/ JobRefund(j)
      PROVE  Untouched
  BY <1>6 DEF JobScan, JobRefund, Untouched
<1>7. ASSUME NEW p \in Workers, RefundTx(p)
      PROVE  \E t \in Teams : \E i \in DOMAIN orders :
               \E s \in RefundCategory : Closes(t, i, s)
  <2>1. Closes(req[p].team, req[p].order, req[p].strategy)
    BY <1>7, RefundTxCloses
  <2>2. /\ req[p].team \in Teams /\ req[p].order \in DOMAIN orders
        /\ req[p].strategy \in RefundCategory
    BY <2>1 DEF Closes, OnlyTeam
  <2> QED BY <2>1, <2>2
<1>8. ASSUME NEW p \in Workers, Abandon(p)
      PROVE  Untouched
  BY <1>8 DEF Abandon, Untouched
<1>9. ASSUME ActivityEnds \/ UNCHANGED vars
      PROVE  Untouched
  BY <1>9 DEF ActivityEnds, vars, Untouched
<1> QED
  BY <1>2, <1>3, <1>4, <1>5, <1>6, <1>7, <1>8, <1>9 DEF Next

-----------------------------------------------------------------------------
(* Notifications                                                           *)

\* A step that writes no settlement notification and neither forms a team nor
\* undoes one keeps SettlementNotifiedOnce.
LEMMA SettledUnchanged ==
  ASSUME SettlementNotifiedOnce, DOMAIN tasks \subseteq DOMAIN tasks',
         \A t \in Teams :
           /\ SettlementRows(t)' = SettlementRows(t)
           /\ team'[t].status \in Formed <=> team[t].status \in Formed
  PROVE  SettlementNotifiedOnce'
<1> SUFFICES ASSUME NEW t \in Teams
             PROVE  IF team'[t].status \in Formed
                    THEN \E n \in DOMAIN tasks' : SettlementRows(t)' = {n}
                    ELSE SettlementRows(t)' = {}
  BY DEF SettlementNotifiedOnce
<1> QED BY DEF SettlementNotifiedOnce

\* Writing the notification k adds its row n to the rows that look for it.
LEMMA TaskRows ==
  ASSUME IndInv, NEW k \in Task, tasks' = Append(tasks, k),
         NEW n, n = Len(tasks) + 1
  PROVE  /\ DOMAIN tasks \subseteq DOMAIN tasks' /\ n \in DOMAIN tasks'
         /\ tasks'[n] = k
         /\ \A m \in DOMAIN tasks : tasks'[m] = tasks[m]
         /\ DOMAIN tasks' = DOMAIN tasks \cup {n}
         /\ \A t : SettlementRows(t)' =
              IF k.category = "settlement" /\ k.team = t
              THEN SettlementRows(t) \cup {n} ELSE SettlementRows(t)
         /\ \A i : RefundRows(i)' =
              IF k.category \in RefundCategory /\ i \in k.orders
              THEN RefundRows(i) \cup {n} ELSE RefundRows(i)
<1>1. /\ DOMAIN tasks' = DOMAIN tasks \cup {n} /\ n \notin DOMAIN tasks
      /\ \A m \in DOMAIN tasks : tasks'[m] = tasks[m]
      /\ tasks'[n] = k
  BY AppendTask DEF IndInv, TypeOK
<1>2. ASSUME NEW t
      PROVE  {m \in DOMAIN tasks' :
                tasks'[m].category = "settlement" /\ tasks'[m].team = t} =
              IF k.category = "settlement" /\ k.team = t
              THEN SettlementRows(t) \cup {n} ELSE SettlementRows(t)
  BY <1>1 DEF SettlementRows
<1>3. ASSUME NEW i
      PROVE  {m \in DOMAIN tasks' :
                tasks'[m].category \in RefundCategory /\ i \in tasks'[m].orders} =
              IF k.category \in RefundCategory /\ i \in k.orders
              THEN RefundRows(i) \cup {n} ELSE RefundRows(i)
  BY <1>1 DEF RefundRows
<1> QED BY <1>1, <1>2, <1>3 DEF SettlementRows, RefundRows

\* A step that updates a row adds none.
LEMMA SameLength ==
  ASSUME IndInv, orders' \in Seq(OrderRow), DOMAIN orders' = DOMAIN orders,
         RowsWithinBound
  PROVE  RowsWithinBound'
<1>1. /\ DOMAIN orders = 1..Len(orders) /\ Len(orders) \in Nat
      /\ DOMAIN orders' = 1..Len(orders') /\ Len(orders') \in Nat
  BY DEF IndInv, TypeOK
<1>2. Len(orders') = Len(orders)
  BY <1>1
<1> QED BY <1>2 DEF RowsWithinBound

\* A new order has no notification, and seating it writes none.
LEMMA SeatNotify ==
  ASSUME IndInv, NotifyInv, NEW t \in Teams, NEW row \in OrderRow, Seats(t, row)
  PROVE  NotifyInv'
<1> DEFINE n == Len(orders) + 1
<1>1. /\ DOMAIN orders' = DOMAIN orders \cup {n}
      /\ n \notin DOMAIN orders
      /\ \A i \in DOMAIN orders : orders'[i] = orders[i]
      /\ orders'[n] = row
  BY AppendRow DEF Seats, IndInv, TypeOK
<1>2. tasks' = tasks /\ row.status = "create"
  BY DEF Seats
<1> HIDE DEF n
<1>3. SettlementNotifiedOnce'
  <2>1. /\ \A x \in Teams : SettlementRows(x)' = SettlementRows(x)
        /\ DOMAIN tasks \subseteq DOMAIN tasks'
    BY <1>2 DEF SettlementRows
  <2>2. ASSUME NEW x \in Teams
        PROVE  team'[x].status \in Formed <=> team[x].status \in Formed
    BY DEF Seats, OnlyTeam, Exists, Formed, TeamStatus
  <2> QED BY <2>1, <2>2, SettledUnchanged DEF NotifyInv
<1>4. RefundNotifiedOnce'
  <2> SUFFICES ASSUME NEW i \in DOMAIN orders'
               PROVE  IF orders'[i].status = "close"
                      THEN \E m \in DOMAIN tasks' :
                             RefundRows(i)' = {m} /\ tasks'[m].team = orders'[i].team
                      ELSE RefundRows(i)' = {}
    BY DEF RefundNotifiedOnce
  <2>1. RefundRows(i)' = RefundRows(i)
    BY <1>2 DEF RefundRows
  <2>2. CASE i = n
    <3>1. RefundRows(i) = {}
      BY <2>2, <1>1 DEF RefundRows, NotifyInv, TasksHaveRows
    <3> QED BY <3>1, <2>1, <2>2, <1>1, <1>2
  <2>3. CASE i # n
    BY <2>1, <2>3, <1>1, <1>2 DEF NotifyInv, RefundNotifiedOnce
  <2> QED BY <2>2, <2>3
<1>5. TasksHaveRows'
  BY <1>1, <1>2 DEF NotifyInv, TasksHaveRows
<1>6. RowsWithinBound'
  <2>1. Len(orders) \in Nat /\ Len(orders') = Len(orders) + 1
    BY AppendProperties DEF Seats, IndInv, TypeOK
  <2> QED BY <2>1, MaxOrdersAssumption DEF Seats, RowsWithinBound
<1> QED BY <1>3, <1>4, <1>5, <1>6 DEF NotifyInv

\* Paying an order writes a settlement notification exactly when the team
\* leaves "progress", and no refund notification.
LEMMA PayNotify ==
  ASSUME IndInv, NotifyInv, NEW t \in Teams, NEW i \in DOMAIN orders, Pays(t, i)
  PROVE  NotifyInv'
<1> DEFINE k == SettlementTask(t, PaidNext(t))
<1>1. /\ orders' \in Seq(OrderRow) /\ DOMAIN orders' = DOMAIN orders
      /\ \A j \in DOMAIN orders : /\ orders'[j].team = orders[j].team
                                  /\ j # i => orders'[j] = orders[j]
      /\ orders'[i].status = "complete" /\ orders[i].status = "create"
  BY UpdateRow DEF Pays, IndInv, TypeOK, OrderStatus
<1>2. k.category = "settlement" /\ k.team = t /\ k.orders = PaidNext(t)
      /\ k.category \notin RefundCategory
  BY DEF SettlementTask, RefundCategory
<1>k. k \in Task
  <2>1. PaidNext(t) \in SUBSET Nat
    BY <1>1 DEF PaidNext
  <2> QED BY <2>1 DEF SettlementTask, Task
<1>3. PaidNext(t) \subseteq DOMAIN orders'
  BY DEF PaidNext
<1>4. \/ tasks' = tasks /\ team'[t].status = team[t].status
      \/ /\ tasks' = Append(tasks, k)
         /\ team[t].status = "progress" /\ team'[t].status = "complete"
  BY DEF Pays
<1>5. \A x \in Teams : x # t => team'[x] = team[x]
  BY DEF Pays, OnlyTeam
<1> PICK n : n = Len(tasks) + 1
  OBVIOUS
<1> HIDE DEF k
<1>a. ASSUME tasks' = Append(tasks, k)
      PROVE  /\ DOMAIN tasks \subseteq DOMAIN tasks' /\ n \in DOMAIN tasks'
             /\ tasks'[n] = k
             /\ \A m \in DOMAIN tasks : tasks'[m] = tasks[m]
             /\ DOMAIN tasks' = DOMAIN tasks \cup {n}
             /\ \A x : SettlementRows(x)' = IF x = t THEN SettlementRows(x) \cup {n}
                                                   ELSE SettlementRows(x)
             /\ \A j : RefundRows(j)' = RefundRows(j)
  BY <1>a, <1>2, <1>k, TaskRows
<1>6. SettlementNotifiedOnce'
  <2>1. CASE tasks' = tasks /\ team'[t].status = team[t].status
    <3>1. /\ \A x \in Teams : /\ SettlementRows(x)' = SettlementRows(x)
                              /\ team'[x].status = team[x].status
          /\ DOMAIN tasks \subseteq DOMAIN tasks'
      BY <2>1, <1>5 DEF SettlementRows
    <3> QED BY <3>1, SettledUnchanged DEF NotifyInv
  <2>2. CASE /\ tasks' = Append(tasks, k)
             /\ team[t].status = "progress" /\ team'[t].status = "complete"
    <3> SUFFICES ASSUME NEW x \in Teams
                 PROVE  IF team'[x].status \in Formed
                        THEN \E m \in DOMAIN tasks' : SettlementRows(x)' = {m}
                        ELSE SettlementRows(x)' = {}
      BY DEF SettlementNotifiedOnce
    <3>1. CASE x = t
      <4>1. SettlementRows(t) = {}
        BY <2>2 DEF NotifyInv, SettlementNotifiedOnce, Formed
      <4>2. SettlementRows(t)' = {n} /\ n \in DOMAIN tasks'
        BY <4>1, <2>2, <1>a
      <4>3. team'[t].status \in Formed
        BY <2>2 DEF Formed, TeamStatus
      <4> QED BY <4>2, <4>3, <3>1
    <3>2. CASE x # t
      <4>1. SettlementRows(x)' = SettlementRows(x) /\ DOMAIN tasks \subseteq DOMAIN tasks'
        BY <3>2, <2>2, <1>a
      <4> QED BY <4>1, <3>2, <1>5 DEF NotifyInv, SettlementNotifiedOnce
    <3> QED BY <3>1, <3>2
  <2> QED BY <1>4, <2>1, <2>2
<1>b. /\ \A j : RefundRows(j)' = RefundRows(j)
      /\ \A m \in DOMAIN tasks : m \in DOMAIN tasks' /\ tasks'[m] = tasks[m]
  <2>1. CASE tasks' = tasks
    BY <2>1 DEF RefundRows
  <2>2. CASE tasks' = Append(tasks, k)
    BY <2>2, <1>a
  <2> QED BY <1>4, <2>1, <2>2
<1>7. RefundNotifiedOnce'
  <2> SUFFICES ASSUME NEW j \in DOMAIN orders
               PROVE  IF orders'[j].status = "close"
                      THEN \E m \in DOMAIN tasks' :
                             RefundRows(j)' = {m} /\ tasks'[m].team = orders'[j].team
                      ELSE RefundRows(j)' = {}
    BY <1>1 DEF RefundNotifiedOnce
  <2> QED BY <1>1, <1>b DEF NotifyInv, RefundNotifiedOnce
<1>8. TasksHaveRows'
  <2>1. CASE tasks' = tasks
    BY <2>1, <1>1 DEF NotifyInv, TasksHaveRows
  <2>2. CASE tasks' = Append(tasks, k)
    BY <2>2, <1>1, <1>2, <1>3, <1>a DEF NotifyInv, TasksHaveRows
  <2> QED BY <1>4, <2>1, <2>2
<1>9. RowsWithinBound'
  BY <1>1, SameLength DEF NotifyInv
<1> QED BY <1>6, <1>7, <1>8, <1>9 DEF NotifyInv

\* Closing an order writes its one refund notification and no settlement one.
LEMMA CloseNotify ==
  ASSUME IndInv, NotifyInv, NEW t \in Teams, NEW i \in DOMAIN orders,
         NEW s \in RefundCategory, Closes(t, i, s)
  PROVE  NotifyInv'
<1> DEFINE k == RefundTask(s, t, i)
<1>1. /\ orders' \in Seq(OrderRow) /\ DOMAIN orders' = DOMAIN orders
      /\ \A j \in DOMAIN orders : /\ orders'[j].team = orders[j].team
                                  /\ j # i => orders'[j] = orders[j]
      /\ orders'[i].status = "close" /\ orders[i].status # "close"
      /\ orders[i].team = t
  BY UpdateRow DEF Closes, IndInv, TypeOK, OrderStatus
<1>2. /\ k.category = s /\ k.team = t /\ k.orders = {i}
      /\ k.category # "settlement"
  BY DEF RefundTask, RefundCategory
<1>3. tasks' = Append(tasks, RefundTask(s, t, i))
  BY DEF Closes
<1>k. k \in Task
  <2>1. i \in Nat
    BY DEF IndInv, TypeOK
  <2> QED BY <2>1 DEF RefundTask, Task
<1> PICK n : n = Len(tasks) + 1
  OBVIOUS
<1>a. /\ DOMAIN tasks \subseteq DOMAIN tasks' /\ n \in DOMAIN tasks'
      /\ tasks'[n] = k
      /\ \A m \in DOMAIN tasks : tasks'[m] = tasks[m]
      /\ DOMAIN tasks' = DOMAIN tasks \cup {n}
      /\ \A x : SettlementRows(x)' = SettlementRows(x)
      /\ \A j : RefundRows(j)' = IF j = i THEN RefundRows(j) \cup {n}
                                        ELSE RefundRows(j)
  <2>1. tasks' = Append(tasks, k) /\ k.category \in RefundCategory
    BY <1>2, <1>3
  <2> HIDE DEF k
  <2> QED BY <2>1, <1>2, <1>k, TaskRows
<1> HIDE DEF k
<1>4. SettlementNotifiedOnce'
  <2>1. ASSUME NEW x \in Teams
        PROVE  team'[x].status \in Formed <=> team[x].status \in Formed
    BY DEF Closes, OnlyTeam
  <2> QED BY <2>1, <1>a, SettledUnchanged DEF NotifyInv
<1>5. RefundNotifiedOnce'
  <2> SUFFICES ASSUME NEW j \in DOMAIN orders
               PROVE  IF orders'[j].status = "close"
                      THEN \E m \in DOMAIN tasks' :
                             RefundRows(j)' = {m} /\ tasks'[m].team = orders'[j].team
                      ELSE RefundRows(j)' = {}
    BY <1>1 DEF RefundNotifiedOnce
  <2>1. CASE j = i
    <3>1. RefundRows(i) = {}
      BY <1>1 DEF NotifyInv, RefundNotifiedOnce
    <3>2. RefundRows(i)' = {n}
      BY <3>1, <1>a
    <3> QED BY <3>2, <2>1, <1>1, <1>2, <1>a
  <2>2. CASE j # i
    <3>1. RefundRows(j)' = RefundRows(j)
      BY <2>2, <1>a
    <3> QED BY <3>1, <2>2, <1>1, <1>a DEF NotifyInv, RefundNotifiedOnce
  <2> QED BY <2>1, <2>2
<1>6. TasksHaveRows'
  BY <1>1, <1>2, <1>a DEF NotifyInv, TasksHaveRows
<1>7. RowsWithinBound'
  BY <1>1, SameLength DEF NotifyInv
<1> QED BY <1>4, <1>5, <1>6, <1>7 DEF NotifyInv

\* Without rows, teams and notifications the invariant holds.
LEMMA NotifyInit == Init => NotifyInv
<1> SUFFICES ASSUME Init PROVE NotifyInv
  OBVIOUS
<1>1. DOMAIN orders = {} /\ DOMAIN tasks = {}
  BY DEF Init
<1>2. SettlementNotifiedOnce
  <2>1. \A t \in Teams : SettlementRows(t) = {} /\ team[t].status = "absent"
    BY <1>1 DEF Init, SettlementRows, NoTeamRow
  <2> QED BY <2>1 DEF SettlementNotifiedOnce, Formed, TeamStatus
<1>3. RowsWithinBound
  BY MaxOrdersAssumption DEF Init, RowsWithinBound
<1> QED BY <1>1, <1>2, <1>3 DEF NotifyInv, RefundNotifiedOnce, TasksHaveRows

\* Every step keeps the invariant of the notifications.
LEMMA NotifyNext == IndInv /\ NotifyInv /\ [Next]_vars => NotifyInv'
<1> SUFFICES ASSUME IndInv, NotifyInv, [Next]_vars PROVE NotifyInv'
  OBVIOUS
<1>1. CASE Untouched
  BY <1>1 DEF Untouched, NotifyInv, SettlementNotifiedOnce, RefundNotifiedOnce,
              SettlementRows, RefundRows, TasksHaveRows, RowsWithinBound
<1> QED BY <1>1, TableStep, SeatNotify, PayNotify, CloseNotify

\* The invariant the theorems on notifications and the refinement follow from.
THEOREM NotifyInvariance == Spec => [](IndInv /\ NotifyInv)
<1>1. Init => IndInv /\ NotifyInv
  BY InitInv, NotifyInit
<1>2. IndInv /\ NotifyInv /\ [Next]_vars => (IndInv /\ NotifyInv)'
  BY NextInv, NotifyNext
<1> QED BY <1>1, <1>2, PTL DEF Spec

\* A team has one settlement notification once it has formed and none before
\* (SettlementNotifiedOnce), whatever settlements and refunds race.
THEOREM SettlementNotifiedOnceCorrect == Spec => []SettlementNotifiedOnce
<1>1. NotifyInv => SettlementNotifiedOnce
  BY DEF NotifyInv
<1> QED BY <1>1, NotifyInvariance, PTL

\* An order is closed exactly when one refund notification was written for it
\* (RefundNotifiedOnce), for any number of racing refunds and timeout jobs.
THEOREM RefundNotifiedOnceCorrect == Spec => []RefundNotifiedOnce
<1>1. NotifyInv => RefundNotifiedOnce
  BY DEF NotifyInv
<1> QED BY <1>1, NotifyInvariance, PTL

-----------------------------------------------------------------------------
(* The refinement                                                          *)

\* Team t's announcements are the orders of its refund notifications.
LEMMA AnnouncedRows ==
  ASSUME NEW t
  PROVE  \A i : i \in Announced(t) <=>
                 \E n \in DOMAIN tasks :
                   /\ tasks[n].category \in RefundCategory /\ tasks[n].team = t
                   /\ i \in tasks[n].orders
BY DEF Announced

\* Writing a notification announces its orders for its team, if it is of a
\* refund.
LEMMA AnnouncedNext ==
  ASSUME IndInv, NEW k \in Task, tasks' = Append(tasks, k)
  PROVE  \A t : Announced(t)' =
           IF k.category \in RefundCategory /\ k.team = t
           THEN Announced(t) \cup k.orders ELSE Announced(t)
<1> PICK n : n = Len(tasks) + 1
  OBVIOUS
<1>1. /\ DOMAIN tasks' = DOMAIN tasks \cup {n} /\ tasks'[n] = k
      /\ \A m \in DOMAIN tasks : tasks'[m] = tasks[m]
  BY TaskRows
<1> SUFFICES ASSUME NEW t
             PROVE  Announced(t)' =
                      IF k.category \in RefundCategory /\ k.team = t
                      THEN Announced(t) \cup k.orders ELSE Announced(t)
  OBVIOUS
<1>2. \A i : i \in Announced(t)' <=>
        \E m \in DOMAIN tasks' :
          /\ tasks'[m].category \in RefundCategory /\ tasks'[m].team = t
          /\ i \in tasks'[m].orders
  BY DEF Announced
<1>3. \A i : i \in Announced(t)' <=>
        \/ i \in Announced(t)
        \/ k.category \in RefundCategory /\ k.team = t /\ i \in k.orders
  <2> SUFFICES ASSUME NEW i
               PROVE  i \in Announced(t)' <=>
                        \/ i \in Announced(t)
                        \/ k.category \in RefundCategory /\ k.team = t /\ i \in k.orders
    OBVIOUS
  <2>1. i \in Announced(t) <=>
          \E m \in DOMAIN tasks :
            /\ tasks[m].category \in RefundCategory /\ tasks[m].team = t
            /\ i \in tasks[m].orders
    BY AnnouncedRows
  <2> QED BY <1>1, <1>2, <2>1
<1> QED BY <1>3

\* The ledger counts as the tables do.
LEMMA LedgerCounts == \A S : Ledger!Cardinality(S) = Cardinality(S)
BY DEF Ledger!Cardinality, Cardinality, Ledger!IsFiniteSet, IsFiniteSet

\* Seating an order is the ledger's Seat.
LEMMA SeatSimulation ==
  ASSUME IndInv, NotifyInv, NEW t \in Teams, NEW row \in OrderRow, Seats(t, row)
  PROVE  \E o \in 1..MaxOrders : Ledger!Seat(t, o)
<1> PICK n : n = Len(orders) + 1
  OBVIOUS
<1>1. /\ DOMAIN orders' = DOMAIN orders \cup {n}
      /\ n \notin DOMAIN orders
      /\ \A i \in DOMAIN orders : orders'[i] = orders[i]
      /\ orders'[n] = row
  BY AppendRow DEF Seats, IndInv, TypeOK
<1>2. /\ tasks' = tasks /\ row.status = "create" /\ row.team = t
      /\ team[t].lock < Target /\ team'[t].lock = team[t].lock + 1
      /\ \A x \in Teams : x # t => team'[x] = team[x]
  BY DEF Seats, OnlyTeam
<1>3. n \in 1..MaxOrders
  <2>1. Len(orders) \in Nat
    BY DEF IndInv, TypeOK
  <2> QED BY <2>1, MaxOrdersAssumption DEF Seats
<1>4. \A x \in Teams : n \notin LiveOrders(x) /\ n \notin Announced(x)
  BY <1>1, AnnouncedRows DEF LiveOrders, NotifyInv, TasksHaveRows
<1>5. Cardinality(LiveOrders(t)) < Target
  BY <1>2 DEF IndInv, LockCountExact
<1>6. \A x \in Teams : LiveOrders(x)' = IF x = t THEN LiveOrders(x) \cup {n}
                                                 ELSE LiveOrders(x)
  BY <1>1, <1>2 DEF LiveOrders
<1>7. \A x \in Teams : Announced(x)' = Announced(x)
  BY <1>2 DEF Announced
<1>8. \A x \in Teams : team'[x].status \in Formed <=> team[x].status \in Formed
  BY DEF Seats, OnlyTeam, Exists, Formed, TeamStatus
<1>9. {i \in DOMAIN orders' : orders'[i].status = "complete"}
        = {i \in DOMAIN orders : orders[i].status = "complete"}
  BY <1>1, <1>2
<1>10. Ledger!Seat(t, n)
  BY <1>2, <1>4, <1>5, <1>6, <1>7, <1>8, <1>9, LedgerCounts DEF Ledger!Seat
<1> QED BY <1>3, <1>10

\* Paying an order is the ledger's Pay, on the team of the order's row, and
\* the team the settlement counts it on may form.
LEMMA PaySimulation ==
  ASSUME IndInv, NotifyInv, NEW t \in Teams, NEW i \in DOMAIN orders, Pays(t, i)
  PROVE  \E u \in Teams : Ledger!Pay(u, i)
<1>1. /\ orders' \in Seq(OrderRow) /\ DOMAIN orders' = DOMAIN orders
      /\ \A j \in DOMAIN orders : /\ orders'[j].team = orders[j].team
                                  /\ j # i => orders'[j] = orders[j]
      /\ orders'[i].status = "complete" /\ orders[i].status = "create"
  BY UpdateRow DEF Pays, IndInv, TypeOK, OrderStatus
<1>2. /\ \A x \in Teams : x # t => team'[x] = team[x]
      /\ team'[t].lock = team[t].lock
  BY DEF Pays, OnlyTeam
<1>3. orders[i].team \in Teams
  BY RowType DEF IndInv, TypeOK
<1>4. \A x \in Teams : team'[x].lock = team[x].lock
  BY <1>2
<1>5. \A x \in Teams : LiveOrders(x)' = LiveOrders(x)
  BY <1>1 DEF LiveOrders
<1>6. \A x \in Teams : Announced(x)' = Announced(x)
  <2>1. SettlementTask(t, PaidNext(t)).category \notin RefundCategory
    BY DEF SettlementTask, RefundCategory
  <2>2. CASE tasks' = tasks
    BY <2>2 DEF Announced
  <2>3. CASE tasks' = Append(tasks, SettlementTask(t, PaidNext(t)))
    <3>1. PaidNext(t) \in SUBSET Nat
      BY <1>1 DEF PaidNext
    <3>2. SettlementTask(t, PaidNext(t)) \in Task
      BY <3>1 DEF SettlementTask, Task
    <3> QED BY <3>2, <2>1, <2>3, AnnouncedNext
  <2> QED BY <2>2, <2>3 DEF Pays
<1> PICK u \in Teams : u = orders[i].team
  BY <1>3
<1>7. i \in LiveOrders(u)
  BY <1>1 DEF LiveOrders
<1> DEFINE paid   == {j \in DOMAIN orders : orders[j].status = "complete"}
           formed == {x \in Teams : team[x].status \in Formed}
           formedNext == {x \in Teams : team'[x].status \in Formed}
<1>8. {j \in DOMAIN orders' : orders'[j].status = "complete"} = paid \cup {i}
      /\ i \notin paid
  BY <1>1
<1>9. \E S \in SUBSET (Teams \ formed) :
        Cardinality(S) <= 1 /\ formedNext = formed \cup S
  <2>1. CASE team'[t].status = team[t].status
    <3>1. formedNext = formed \cup {}
      BY <2>1, <1>2
    <3>2. Cardinality({}) <= 1
      BY FS_EmptySet
    <3> HIDE DEF formed, formedNext
    <3> QED BY <3>1, <3>2
  <2>2. CASE team[t].status = "progress" /\ team'[t].status = "complete"
    <3>1. formedNext = formed \cup {t} /\ t \notin formed
      BY <2>2, <1>2 DEF Formed, TeamStatus
    <3>2. Cardinality({t}) <= 1
      BY FS_Singleton
    <3> HIDE DEF formed, formedNext
    <3>3. {t} \in SUBSET (Teams \ formed)
      BY <3>1
    <3> QED BY <3>1, <3>2, <3>3
  <2> QED BY <2>1, <2>2 DEF Pays
<1>10. Ledger!Pay(u, i)
  BY <1>4, <1>5, <1>6, <1>7, <1>8, <1>9, LedgerCounts DEF Ledger!Pay
<1> QED BY <1>10

\* Closing an order is the ledger's GiveBack.
LEMMA CloseSimulation ==
  ASSUME IndInv, NotifyInv, NEW t \in Teams, NEW i \in DOMAIN orders,
         NEW s \in RefundCategory, Closes(t, i, s)
  PROVE  Ledger!GiveBack(t, i)
<1>1. /\ orders' \in Seq(OrderRow) /\ DOMAIN orders' = DOMAIN orders
      /\ \A j \in DOMAIN orders : /\ orders'[j].team = orders[j].team
                                  /\ j # i => orders'[j] = orders[j]
      /\ orders'[i].status = "close" /\ orders[i].status # "close"
      /\ orders[i].team = t
  BY UpdateRow DEF Closes, IndInv, TypeOK, OrderStatus
<1>2. /\ \A x \in Teams : x # t => team'[x] = team[x]
      /\ team'[t].lock = team[t].lock - 1
  BY DEF Closes, OnlyTeam
<1>3. \A x \in Teams : LiveOrders(x)' = IF x = t THEN LiveOrders(x) \ {i}
                                                 ELSE LiveOrders(x)
  BY <1>1 DEF LiveOrders
<1>4. i \in LiveOrders(t)
  BY <1>1 DEF LiveOrders
<1>5. \A x \in Teams : Announced(x)' = IF x = t THEN Announced(x) \cup {i}
                                                ELSE Announced(x)
  <2>1. tasks' = Append(tasks, RefundTask(s, t, i))
    BY DEF Closes
  <2>2. /\ RefundTask(s, t, i).category = s /\ RefundTask(s, t, i).team = t
        /\ RefundTask(s, t, i).orders = {i}
    BY DEF RefundTask
  <2>3. RefundTask(s, t, i) \in Task
    <3>1. i \in Nat
      BY DEF IndInv, TypeOK
    <3> QED BY <3>1 DEF RefundTask, Task
  <2> QED BY <2>1, <2>2, <2>3, AnnouncedNext
<1>6. \A x \in Teams : team'[x].status \in Formed <=> team[x].status \in Formed
  BY DEF Closes, OnlyTeam
<1>7. {j \in DOMAIN orders' : orders'[j].status = "complete"}
        = {j \in DOMAIN orders : orders[j].status = "complete"} \ {i}
  BY <1>1
<1> QED BY <1>2, <1>3, <1>4, <1>5, <1>6, <1>7 DEF Ledger!GiveBack

\* The empty tables are the empty ledger.
LEMMA LedgerInit == Init => Ledger!Init
<1> SUFFICES ASSUME Init PROVE Ledger!Init
  OBVIOUS
<1>1. DOMAIN orders = {} /\ DOMAIN tasks = {}
  BY DEF Init
<1>2. \A t \in Teams : /\ team[t].lock = 0 /\ team[t].status \notin Formed
                       /\ LiveOrders(t) = {} /\ Announced(t) = {}
  BY <1>1 DEF Init, NoTeamRow, LiveOrders, Announced, Formed, TeamStatus
<1> QED BY <1>1, <1>2 DEF Ledger!Init

\* Every step of the trade core is a step of the ledger or a stutter.
LEMMA LedgerNext ==
  IndInv /\ NotifyInv /\ [Next]_vars => Ledger!Next \/ UNCHANGED Ledger!vars
<1> SUFFICES ASSUME IndInv, NotifyInv, [Next]_vars
             PROVE  Ledger!Next \/ UNCHANGED Ledger!vars
  OBVIOUS
<1>1. DOMAIN orders \subseteq 1..MaxOrders
  <2>1. DOMAIN orders = 1..Len(orders) /\ Len(orders) \in Nat
    BY DEF IndInv, TypeOK
  <2> QED BY <2>1, MaxOrdersAssumption DEF NotifyInv, RowsWithinBound
<1>2. CASE Untouched
  BY <1>2 DEF Untouched, Ledger!vars, LiveOrders, Announced
<1>3. ASSUME NEW t \in Teams, NEW row \in OrderRow, Seats(t, row)
      PROVE  Ledger!Next
  BY <1>3, SeatSimulation DEF Ledger!Next
<1>4. ASSUME NEW t \in Teams, NEW i \in DOMAIN orders, Pays(t, i)
      PROVE  Ledger!Next
  BY <1>1, <1>4, PaySimulation DEF Ledger!Next
<1>5. ASSUME NEW t \in Teams, NEW i \in DOMAIN orders, NEW s \in RefundCategory,
             Closes(t, i, s)
      PROVE  Ledger!Next
  BY <1>1, <1>5, CloseSimulation DEF Ledger!Next
<1> QED BY <1>2, <1>3, <1>4, <1>5, TableStep

\* GroupBuyTrade implements the ledger of seats (ImplementsLedger): stale
\* reads, racing transactions and the outbox together take only the ledger's
\* steps, for every number of users, teams, requests and timeout jobs.
THEOREM LedgerImplemented == Spec => ImplementsLedger
<1>1. IndInv /\ NotifyInv /\ [Next]_vars
        => [Ledger!vars' # Ledger!vars /\ Ledger!Next]_(Ledger!vars)
  BY LedgerNext
<1> QED BY <1>1, LedgerInit, NotifyInvariance, PTL
       DEF Spec, ImplementsLedger, Ledger!Spec, Ledger!Steps

-----------------------------------------------------------------------------
(* The count of payments, for a mall that does not reuse an out_trade_no   *)

SettleStages == {"settleTeam", "settleTx"}

\* A request that fits PaymentInv in slot p, as LocksAreFresh and
\* SettlesOwnTeam ask of it.
Fits(p, r) ==
  /\ r.pc \in LockStages =>
       /\ RowsOf(r.user, r.no) = {}
       /\ \A q \in Workers : /\ req[q].pc \in LockStages
                             /\ req[q].user = r.user /\ req[q].no = r.no
                             => q = p
  /\ r.pc \in SettleStages =>
       /\ RowsOf(r.user, r.no) # {}
       /\ \A i \in RowsOf(r.user, r.no) : orders[i].team = r.team

\* A step that only puts a fitting request into one slot keeps PaymentInv.
LEMMA FittingRequest ==
  ASSUME IndInv, PaymentInv, Untouched, NEW p \in Workers, NEW r \in Request,
         Fits(p, r), req' = [req EXCEPT ![p] = r]
  PROVE  PaymentInv'
<1>1. /\ \A q \in Workers : req'[q] = IF q = p THEN r ELSE req[q]
      /\ team' = team /\ orders' = orders
  BY DEF IndInv, TypeOK, Untouched
<1>2. \A u, no : RowsOf(u, no)' = RowsOf(u, no)
  BY <1>1 DEF RowsOf
<1>3. OneRowPerTradeNo' /\ CompleteCountExact'
  BY <1>1 DEF PaymentInv, OneRowPerTradeNo, CompleteCountExact, PaidOrders
<1>4. LocksAreFresh'
  <2> SUFFICES ASSUME NEW x \in Workers, req'[x].pc \in LockStages
               PROVE  /\ RowsOf(req'[x].user, req'[x].no) = {}
                      /\ \A q \in Workers : /\ req'[q].pc \in LockStages
                                            /\ req'[q].user = req'[x].user
                                            /\ req'[q].no = req'[x].no
                                            => q = x
    BY <1>1 DEF LocksAreFresh, RowsOf
  <2>1. CASE x = p
    BY <2>1, <1>1 DEF Fits
  <2>2. CASE x # p
    BY <2>2, <1>1 DEF Fits, PaymentInv, LocksAreFresh
  <2> QED BY <2>1, <2>2
<1>5. SettlesOwnTeam'
  <2> SUFFICES ASSUME NEW x \in Workers, req'[x].pc \in SettleStages
               PROVE  /\ RowsOf(req'[x].user, req'[x].no) # {}
                      /\ \A i \in RowsOf(req'[x].user, req'[x].no) :
                           orders[i].team = req'[x].team
    BY <1>1 DEF SettlesOwnTeam, SettleStages, RowsOf
  <2>1. CASE x = p
    BY <2>1, <1>1 DEF Fits
  <2>2. CASE x # p
    BY <2>2, <1>1 DEF PaymentInv, SettlesOwnTeam, SettleStages
  <2> QED BY <2>1, <2>2
<1> QED BY <1>3, <1>4, <1>5 DEF PaymentInv

\* The request a worker carries fits the rows.
LEMMA WorkerFits ==
  ASSUME PaymentInv, NEW p \in Workers
  PROVE  Fits(p, req[p])
BY DEF PaymentInv, LocksAreFresh, SettlesOwnTeam, Fits, SettleStages

\* A request that is neither a lock nor a settlement fits any rows.
LEMMA OtherFits ==
  ASSUME NEW p \in Workers, NEW r, r.pc \in {"idle", "refundTx"}
  PROVE  Fits(p, r)
BY DEF Fits, LockStages, SettleStages

\* The reads before a lock keep PaymentInv: the number is fresh at the start,
\* and nothing else changes until the transaction.
LEMMA LockReadsFit ==
  ASSUME ~ ReuseTradeNo, IndInv, PaymentInv, NEW p \in Workers,
         \/ \E u \in Users, no \in TradeNos, t \in Teams \cup {Nil} :
              LockStart(p, u, no, t)
         \/ LockProgress(p)
         \/ LockFilter(p)
  PROVE  PaymentInv'
<1>1. Untouched /\ req[p] \in Request
  BY DEF LockStart, LockProgress, LockFilter, Untouched, IndInv, TypeOK
<1>2. ASSUME NEW u \in Users, NEW no \in TradeNos, NEW t \in Teams \cup {Nil},
             LockStart(p, u, no, t)
      PROVE  PaymentInv'
  <2> DEFINE r == NewRequest("lockProgress", u, no, t, 0, Nil)
  <2>1. /\ r \in Request /\ r.pc = "lockProgress"
        /\ r.user = u /\ r.no = no
    BY DEF NewRequest, Request, Stage
  <2>2. FreshTradeNo(u, no) /\ req' = [req EXCEPT ![p] = r]
    BY <1>2 DEF LockStart
  <2> HIDE DEF r
  <2>3. Fits(p, r)
    BY <2>1, <2>2 DEF Fits, FreshTradeNo, SettleStages
  <2> QED BY <2>1, <2>2, <2>3, <1>1, FittingRequest
<1>3. CASE LockProgress(p)
  <2> DEFINE r == [req[p] EXCEPT !.pc = "lockFilter"]
  <2>1. /\ r \in Request /\ r.pc = "lockFilter"
        /\ r.user = req[p].user /\ r.no = req[p].no
    BY <1>1 DEF Request, Stage
  <2>2. req' = [req EXCEPT ![p] = r] /\ req[p].pc \in LockStages
    BY <1>3 DEF LockProgress, LockStages
  <2> HIDE DEF r
  <2>3. Fits(p, r)
    BY <2>1, <2>2, WorkerFits DEF Fits, SettleStages
  <2> QED BY <2>1, <2>2, <2>3, <1>1, FittingRequest
<1>4. CASE LockFilter(p)
  <2> DEFINE one == [req[p] EXCEPT !.pc = "lockTx"]
             r == [one EXCEPT !.count = QueryOrderCount(req[p].user)]
  <2>1. one \in Request /\ one.pc = "lockTx"
        /\ one.user = req[p].user /\ one.no = req[p].no
    BY <1>1 DEF Request, Stage
  <2>2. QueryOrderCount(req[p].user) \in Int
    BY RowsFinite DEF QueryOrderCount, OrdersOfUser, IndInv, TypeOK
  <2>3. req' = [req EXCEPT ![p] = r] /\ req[p].pc \in LockStages
    BY <1>4 DEF LockFilter, LockStages
  <2> HIDE DEF one
  <2>4. r \in Request /\ r.pc = "lockTx" /\ r.user = one.user /\ r.no = one.no
    BY <2>1, <2>2 DEF Request
  <2> HIDE DEF r
  <2>5. Fits(p, r)
    BY <2>1, <2>3, <2>4, WorkerFits DEF Fits, SettleStages
  <2> QED BY <2>3, <2>4, <2>5, <1>1, FittingRequest
<1> QED BY <1>2, <1>3, <1>4

\* The reads before a settlement keep PaymentInv: the row found by the
\* out_trade_no is the only one, so its team is the team of the order.
LEMMA SettleReadsFit ==
  ASSUME IndInv, PaymentInv, NEW p \in Workers,
         \/ \E u \in Users, no \in TradeNos : SettleStart(p, u, no)
         \/ SettleTeam(p)
  PROVE  PaymentInv'
<1>1. Untouched /\ req[p] \in Request
  BY DEF SettleStart, SettleTeam, Untouched, IndInv, TypeOK
<1>2. ASSUME NEW u \in Users, NEW no \in TradeNos, SettleStart(p, u, no)
      PROVE  PaymentInv'
  <2> DEFINE i == QueryMarketPayOrder(u, no)
             r == NewRequest("settleTeam", u, no, orders[i].team, 0, Nil)
  <2>1. i \in RowsOf(u, no) /\ req' = [req EXCEPT ![p] = r]
    BY <1>2, QueryRow DEF SettleStart, IndInv, TypeOK
  <2> HIDE DEF i
  <2>2. i \in DOMAIN orders /\ orders[i].team \in Teams
    BY <2>1, RowType DEF RowsOf, IndInv, TypeOK
  <2>3. /\ r \in Request /\ r.pc = "settleTeam" /\ r.user = u /\ r.no = no
        /\ r.team = orders[i].team
    BY <2>2 DEF NewRequest, Request, Stage
  <2>4. \A k \in RowsOf(u, no) : k = i
    BY <2>1 DEF PaymentInv, OneRowPerTradeNo, RowsOf
  <2> HIDE DEF r
  <2>5. Fits(p, r)
    BY <2>1, <2>3, <2>4 DEF Fits, LockStages
  <2> QED BY <2>1, <2>3, <2>5, <1>1, FittingRequest
<1>3. CASE SettleTeam(p)
  <2> DEFINE c == team[req[p].team].complete
             one == [req[p] EXCEPT !.pc = "settleTx"]
             r == [one EXCEPT !.count = c]
  <2>1. /\ one \in Request /\ one.pc = "settleTx" /\ one.user = req[p].user
        /\ one.no = req[p].no /\ one.team = req[p].team
    BY <1>1 DEF Request, Stage
  <2>2. req' = [req EXCEPT ![p] = r] /\ req[p].pc \in SettleStages
    BY <1>3 DEF SettleTeam, SettleStages
  <2>3. c \in Int
    <3>1. req[p].team \in Teams
      BY <2>2 DEF IndInv, RequestsAgree, Agrees, SettleStages
    <3> QED BY <3>1 DEF IndInv, TypeOK, TeamRow
  <2> HIDE DEF one, c
  <2>4. /\ r \in Request /\ r.pc = "settleTx" /\ r.user = one.user
        /\ r.no = one.no /\ r.team = one.team
    BY <2>1, <2>3 DEF Request
  <2> HIDE DEF r
  <2>5. Fits(p, r)
    BY <2>1, <2>2, <2>4, WorkerFits DEF Fits, LockStages, SettleStages
  <2> QED BY <2>2, <2>4, <2>5, <1>1, FittingRequest
<1> QED BY <1>2, <1>3

\* The reads of a refund, the timeout job's scan, early returns and the passing
\* of time keep PaymentInv.
LEMMA OtherReadsFit ==
  ASSUME IndInv, PaymentInv,
         \/ \E p \in Workers, u \in Users, no \in TradeNos : RefundStart(p, u, no)
         \/ \E j \in Jobs : JobScan(j) \/ JobRefund(j)
         \/ \E p \in Workers : Abandon(p)
         \/ ActivityEnds
         \/ UNCHANGED vars
  PROVE  PaymentInv'
<1>1. Untouched
  BY DEF RefundStart, JobScan, JobRefund, Abandon, ActivityEnds, vars, Untouched
<1>2. CASE UNCHANGED req
  BY <1>1, <1>2 DEF Untouched, PaymentInv, OneRowPerTradeNo, LocksAreFresh,
     SettlesOwnTeam, RowsOf, CompleteCountExact, PaidOrders
<1>3. ASSUME NEW p \in Workers, NEW u \in Users, NEW no \in TradeNos,
             RefundRead(p, u, no)
      PROVE  PaymentInv'
  <2>1. PICK r \in Request : r.pc = "refundTx" /\ req' = [req EXCEPT ![p] = r]
    BY <1>3, RefundReadAgrees
  <2>2. Fits(p, r)
    BY <2>1, OtherFits
  <2> QED BY <2>1, <2>2, <1>1, FittingRequest
<1>4. ASSUME NEW p \in Workers, Abandon(p)
      PROVE  PaymentInv'
  <2>1. IdleRequest \in Request /\ IdleRequest.pc = "idle"
        /\ req' = [req EXCEPT ![p] = IdleRequest]
    BY <1>4, IdleAgrees DEF Abandon, Finish, IdleRequest, NewRequest
  <2>2. Fits(p, IdleRequest)
    BY <2>1, OtherFits
  <2> QED BY <2>1, <2>2, <1>1, FittingRequest
<1>5. ASSUME NEW j \in Jobs, JobRefund(j)
      PROVE  PaymentInv'
  <2>1. PICK i \in batch[j] : \/ RefundRead(j, orders[i].user, orders[i].no)
                             \/ UNCHANGED req
    BY <1>5 DEF JobRefund
  <2>2. i \in DOMAIN orders /\ j \in Workers
    BY DEF IndInv, JobRowsExist, Workers
  <2>3. orders[i].user \in Users /\ orders[i].no \in TradeNos
    BY <2>2, RowType DEF IndInv, TypeOK
  <2> QED BY <2>1, <2>2, <2>3, <1>2, <1>3
<1> QED
  BY <1>2, <1>3, <1>4, <1>5 DEF RefundStart, JobScan, ActivityEnds, vars

\* A transaction that updates a row keeps the request part of PaymentInv.
LEMMA UpdateKeepsRequests ==
  ASSUME IndInv, PaymentInv, NEW p \in Workers, Finish(p),
         DOMAIN orders' = DOMAIN orders,
         \A k \in DOMAIN orders : /\ orders'[k].user = orders[k].user
                                 /\ orders'[k].no = orders[k].no
                                 /\ orders'[k].team = orders[k].team
  PROVE  OneRowPerTradeNo' /\ LocksAreFresh' /\ SettlesOwnTeam'
<1>1. \A q \in Workers : req'[q] = IF q = p THEN IdleRequest ELSE req[q]
  BY DEF Finish, IndInv, TypeOK
<1>2. IdleRequest.pc = "idle"
  BY DEF IdleRequest, NewRequest
<1>3. \A u, no : {i \in DOMAIN orders' : orders'[i].user = u /\ orders'[i].no = no}
                  = RowsOf(u, no)
  BY DEF RowsOf
<1>4. \A q \in Workers : req'[q].pc # "idle" => req'[q] = req[q]
  BY <1>1, <1>2
<1>5. OneRowPerTradeNo'
  BY DEF PaymentInv, OneRowPerTradeNo
<1>6. LocksAreFresh'
  <2> SUFFICES ASSUME NEW x \in Workers, req'[x].pc \in LockStages
               PROVE  /\ RowsOf(req'[x].user, req'[x].no) = {}
                      /\ \A q \in Workers : /\ req'[q].pc \in LockStages
                                            /\ req'[q].user = req'[x].user
                                            /\ req'[q].no = req'[x].no
                                            => q = x
    BY <1>3 DEF LocksAreFresh, RowsOf
  <2>1. \A q \in Workers : req'[q].pc \in LockStages => req'[q] = req[q]
    BY <1>4 DEF LockStages
  <2> QED BY <2>1 DEF PaymentInv, LocksAreFresh
<1>7. SettlesOwnTeam'
  <2> SUFFICES ASSUME NEW x \in Workers, req'[x].pc \in SettleStages
               PROVE  /\ RowsOf(req'[x].user, req'[x].no) # {}
                      /\ \A i \in RowsOf(req'[x].user, req'[x].no) :
                           orders'[i].team = req'[x].team
    BY <1>3 DEF SettlesOwnTeam, SettleStages, RowsOf
  <2>1. req'[x] = req[x]
    BY <1>4 DEF SettleStages
  <2>2. \A i \in RowsOf(req[x].user, req[x].no) : orders'[i].team = orders[i].team
    BY DEF RowsOf
  <2> QED BY <2>1, <2>2 DEF PaymentInv, SettlesOwnTeam, SettleStages
<1> QED BY <1>5, <1>6, <1>7

\* A settlement keeps PaymentInv: the row it pays is one of the team it counts
\* the payment on.
LEMMA SettleTxPayment ==
  ASSUME IndInv, PaymentInv, NEW p \in Workers, SettleTx(p)
  PROVE  PaymentInv'
<1>1. PICK i \in RowsOf(req[p].user, req[p].no) : Pays(req[p].team, i)
  BY SettleTxPays
<1> PICK t : t = req[p].team
  OBVIOUS
<1>2. /\ t \in Teams /\ team'[t].complete = team[t].complete + 1
      /\ \A x \in Teams : x # t => team'[x] = team[x]
  BY <1>1 DEF Pays, OnlyTeam
<1>3. /\ i \in DOMAIN orders /\ orders[i].team = t
      /\ orders[i].status = "create"
  BY <1>1 DEF Pays, SettleTx, PaymentInv, SettlesOwnTeam
<1>4. /\ DOMAIN orders' = DOMAIN orders
      /\ \A k \in DOMAIN orders : /\ orders'[k].user = orders[k].user
                                  /\ orders'[k].no = orders[k].no
                                  /\ orders'[k].team = orders[k].team
                                  /\ k # i => orders'[k] = orders[k]
      /\ orders'[i].status = "complete"
  <2>1. orders' = [orders EXCEPT ![i].status = "complete"]
    BY <1>1 DEF Pays
  <2>2. orders \in Seq(OrderRow) /\ "complete" \in OrderStatus
    BY DEF IndInv, TypeOK, OrderStatus
  <2> QED BY <2>1, <2>2, <1>3, UpdateRow
<1>5. OneRowPerTradeNo' /\ LocksAreFresh' /\ SettlesOwnTeam'
  BY <1>4, UpdateKeepsRequests DEF SettleTx
<1>6. CompleteCountExact'
  <2> SUFFICES ASSUME NEW x \in Teams
               PROVE  team'[x].complete = Cardinality(PaidOrders(x)')
    BY DEF CompleteCountExact
  <2>1. team[x].complete = Cardinality(PaidOrders(x)) /\ IsFiniteSet(PaidOrders(x))
    BY RowsFinite DEF IndInv, TypeOK, PaymentInv, CompleteCountExact, PaidOrders
  <2>2. CASE x = t
    <3>1. i \notin PaidOrders(x) /\ PaidOrders(x)' = PaidOrders(x) \cup {i}
      BY <1>2, <1>3, <1>4, <2>2 DEF PaidOrders
    <3>2. Cardinality(PaidOrders(x)') = Cardinality(PaidOrders(x)) + 1
      BY <2>1, <3>1, FS_AddElement
    <3> QED BY <2>1, <2>2, <3>2, <1>2
  <2>3. CASE x # t
    <3>1. PaidOrders(x)' = PaidOrders(x)
      BY <1>2, <1>3, <1>4, <2>3 DEF PaidOrders
    <3> QED BY <2>1, <2>3, <3>1, <1>2
  <2> QED BY <2>2, <2>3
<1> QED BY <1>5, <1>6 DEF PaymentInv

\* A refund keeps PaymentInv: complete_count goes down exactly when the closed
\* row was paid.
LEMMA RefundTxPayment ==
  ASSUME IndInv, PaymentInv, NEW p \in Workers, RefundTx(p)
  PROVE  PaymentInv'
<1> PICK t, i, s : t = req[p].team /\ i = req[p].order /\ s = req[p].strategy
  OBVIOUS
<1>1. Closes(req[p].team, req[p].order, req[p].strategy)
  BY RefundTxCloses
<1>2. /\ t \in Teams
      /\ \A x \in Teams : x # t => team'[x] = team[x]
      /\ team'[t].complete = IF s = "unpaid2Refund" THEN team[t].complete
                                                    ELSE team[t].complete - 1
  BY <1>1 DEF Closes, OnlyTeam
<1>3. /\ i \in DOMAIN orders /\ orders[i].team = t
      /\ orders[i].status = IF s = "unpaid2Refund" THEN "create" ELSE "complete"
  BY <1>1 DEF Closes
<1>4. /\ DOMAIN orders' = DOMAIN orders
      /\ \A k \in DOMAIN orders : /\ orders'[k].user = orders[k].user
                                  /\ orders'[k].no = orders[k].no
                                  /\ orders'[k].team = orders[k].team
                                  /\ k # i => orders'[k] = orders[k]
      /\ orders'[i].status = "close"
  <2>1. orders' = [orders EXCEPT ![i].status = "close"]
    BY <1>1 DEF Closes
  <2>2. orders \in Seq(OrderRow) /\ "close" \in OrderStatus
    BY DEF IndInv, TypeOK, OrderStatus
  <2> QED BY <2>1, <2>2, <1>3, UpdateRow
<1>5. OneRowPerTradeNo' /\ LocksAreFresh' /\ SettlesOwnTeam'
  BY <1>4, UpdateKeepsRequests DEF RefundTx
<1>6. CompleteCountExact'
  <2> SUFFICES ASSUME NEW x \in Teams
               PROVE  team'[x].complete = Cardinality(PaidOrders(x)')
    BY DEF CompleteCountExact
  <2>1. team[x].complete = Cardinality(PaidOrders(x)) /\ IsFiniteSet(PaidOrders(x))
    BY RowsFinite DEF IndInv, TypeOK, PaymentInv, CompleteCountExact, PaidOrders
  <2>2. CASE x = t /\ s # "unpaid2Refund"
    <3>1. i \in PaidOrders(x) /\ PaidOrders(x)' = PaidOrders(x) \ {i}
      BY <1>3, <1>4, <2>2 DEF PaidOrders
    <3>2. Cardinality(PaidOrders(x)') = Cardinality(PaidOrders(x)) - 1
      BY <2>1, <3>1, FS_RemoveElement
    <3>3. team'[x].complete = team[x].complete - 1
      BY <2>2, <1>2
    <3> QED BY <2>1, <3>2, <3>3
  <2>3. CASE x # t \/ s = "unpaid2Refund"
    <3>1. PaidOrders(x)' = PaidOrders(x)
      BY <1>3, <1>4, <2>3 DEF PaidOrders
    <3> QED BY <2>1, <2>3, <3>1, <1>2
  <2> QED BY <2>2, <2>3
<1> QED BY <1>5, <1>6 DEF PaymentInv

\* A lock keeps PaymentInv: the inserted row is the first of its number, and no
\* other request in flight names it.
LEMMA LockTxPayment ==
  ASSUME IndInv, PaymentInv, NEW p \in Workers, LockTx(p)
  PROVE  PaymentInv'
<1> PICK n, u, no : n = Len(orders) + 1 /\ u = req[p].user /\ no = req[p].no
  OBVIOUS
<1>1. PICK t \in Teams, row \in OrderRow :
        Seats(t, row) /\ row.user = u /\ row.no = no
  BY LockTxSeats
<1>2. /\ DOMAIN orders' = DOMAIN orders \cup {n}
      /\ n \notin DOMAIN orders
      /\ \A i \in DOMAIN orders : orders'[i] = orders[i]
      /\ orders'[n] = row
  BY <1>1, AppendRow DEF Seats, IndInv, TypeOK
<1>3. \A q \in Workers : req'[q] = IF q = p THEN IdleRequest ELSE req[q]
  BY DEF LockTx, Finish, IndInv, TypeOK
<1>4. IdleRequest.pc = "idle"
  BY DEF IdleRequest, NewRequest
<1>5. RowsOf(u, no) = {} /\ req[p].pc \in LockStages
  BY DEF LockTx, LockStages, PaymentInv, LocksAreFresh
<1>6. ASSUME NEW v, NEW m, ~ (v = u /\ m = no)
      PROVE  {i \in DOMAIN orders' : orders'[i].user = v /\ orders'[i].no = m}
               = RowsOf(v, m)
  BY <1>1, <1>2, <1>6 DEF RowsOf
<1>7. OneRowPerTradeNo'
  BY <1>1, <1>2, <1>5 DEF PaymentInv, OneRowPerTradeNo, RowsOf
<1>8. LocksAreFresh'
  <2> SUFFICES ASSUME NEW x \in Workers, req'[x].pc \in LockStages
               PROVE  /\ {i \in DOMAIN orders' : /\ orders'[i].user = req'[x].user
                                                 /\ orders'[i].no = req'[x].no} = {}
                      /\ \A q \in Workers : /\ req'[q].pc \in LockStages
                                            /\ req'[q].user = req'[x].user
                                            /\ req'[q].no = req'[x].no
                                            => q = x
    BY DEF LocksAreFresh, RowsOf
  <2>1. \A q \in Workers : req'[q].pc \in LockStages => q # p /\ req'[q] = req[q]
    BY <1>3, <1>4 DEF LockStages
  <2>2. ~ (req[x].user = u /\ req[x].no = no)
    BY <2>1, <1>5 DEF PaymentInv, LocksAreFresh
  <2>3. RowsOf(req[x].user, req[x].no) = {}
    BY <2>1 DEF PaymentInv, LocksAreFresh
  <2> QED BY <2>1, <2>2, <2>3, <1>6 DEF PaymentInv, LocksAreFresh
<1>9. SettlesOwnTeam'
  <2> SUFFICES ASSUME NEW x \in Workers, req'[x].pc \in SettleStages
               PROVE  LET rows == {i \in DOMAIN orders' :
                                     /\ orders'[i].user = req'[x].user
                                     /\ orders'[i].no = req'[x].no}
                      IN  rows # {} /\ \A i \in rows : orders'[i].team = req'[x].team
    BY DEF SettlesOwnTeam, SettleStages, RowsOf
  <2>1. req'[x] = req[x]
    BY <1>3, <1>4 DEF SettleStages
  <2>2. /\ RowsOf(req[x].user, req[x].no) # {}
        /\ \A i \in RowsOf(req[x].user, req[x].no) : orders[i].team = req[x].team
    BY <2>1 DEF PaymentInv, SettlesOwnTeam, SettleStages
  <2>3. ~ (req[x].user = u /\ req[x].no = no)
    BY <2>2, <1>5
  <2>4. \A i \in RowsOf(req[x].user, req[x].no) : orders'[i] = orders[i]
    BY <1>2 DEF RowsOf
  <2> QED BY <2>1, <2>2, <2>3, <2>4, <1>6
<1>10. CompleteCountExact'
  <2> SUFFICES ASSUME NEW x \in Teams
               PROVE  team'[x].complete = Cardinality(PaidOrders(x)')
    BY DEF CompleteCountExact
  <2>1. team[x].complete = Cardinality(PaidOrders(x))
    BY DEF PaymentInv, CompleteCountExact
  <2>2. PaidOrders(x)' = PaidOrders(x)
    BY <1>1, <1>2 DEF PaidOrders, Seats
  <2>3. ~ Exists(x) => PaidOrders(x) = {}
    BY DEF IndInv, RowsHaveTeams, PaidOrders
  <2>4. ~ Exists(x) => Cardinality(PaidOrders(x)) = 0
    BY <2>3, FS_EmptySet
  <2> QED BY <2>1, <2>2, <2>4, <1>1 DEF Seats, OnlyTeam
<1> QED BY <1>7, <1>8, <1>9, <1>10 DEF PaymentInv

\* The empty tables satisfy PaymentInv.
LEMMA PaymentInit == Init => PaymentInv
<1> SUFFICES ASSUME Init PROVE PaymentInv
  OBVIOUS
<1>1. DOMAIN orders = {}
  BY DEF Init
<1>2. \A p \in Workers : req[p].pc = "idle"
  BY DEF Init, IdleRequest, NewRequest
<1>3. CompleteCountExact
  <2>1. \A t \in Teams : PaidOrders(t) = {} /\ team[t].complete = 0
    BY <1>1 DEF Init, PaidOrders, NoTeamRow
  <2> QED BY <2>1, FS_EmptySet DEF CompleteCountExact
<1> QED BY <1>1, <1>2, <1>3 DEF PaymentInv, OneRowPerTradeNo, LocksAreFresh,
        SettlesOwnTeam, LockStages

\* Every step keeps PaymentInv when the mall does not reuse an out_trade_no.
LEMMA PaymentNext ==
  ASSUME ~ ReuseTradeNo
  PROVE  IndInv /\ PaymentInv /\ [Next]_vars => PaymentInv'
<1> SUFFICES ASSUME IndInv, PaymentInv, [Next]_vars PROVE PaymentInv'
  OBVIOUS
<1>1. \A p \in Procs : p \in Workers
  BY DEF Workers
<1>2. ASSUME NEW p \in Procs, NEW u \in Users, NEW no \in TradeNos,
             \/ \E t \in Teams \cup {Nil} : LockStart(p, u, no, t)
             \/ SettleStart(p, u, no) \/ RefundStart(p, u, no)
      PROVE  PaymentInv'
  BY <1>1, <1>2, LockReadsFit, SettleReadsFit, OtherReadsFit
<1>3. ASSUME NEW p \in Procs, LockProgress(p) \/ LockFilter(p) \/ SettleTeam(p)
      PROVE  PaymentInv'
  BY <1>1, <1>3, LockReadsFit, SettleReadsFit
<1>4. ASSUME NEW p \in Procs, LockTx(p) \/ SettleTx(p)
      PROVE  PaymentInv'
  BY <1>1, <1>4, LockTxPayment, SettleTxPayment
<1>5. ASSUME NEW j \in Jobs, JobScan(j) \/ JobRefund(j)
      PROVE  PaymentInv'
  BY <1>5, OtherReadsFit
<1>6. ASSUME NEW p \in Workers, RefundTx(p) \/ Abandon(p)
      PROVE  PaymentInv'
  BY <1>6, RefundTxPayment, OtherReadsFit
<1>7. ASSUME ActivityEnds \/ UNCHANGED vars
      PROVE  PaymentInv'
  BY <1>7, OtherReadsFit
<1> QED BY <1>2, <1>3, <1>4, <1>5, <1>6, <1>7 DEF Next

\* complete_count is the number of paid orders of the team
\* (CompleteCountExact), whatever settlements and refunds interleave, for a
\* mall that uses an out_trade_no for one order.
THEOREM CompleteCountCorrect ==
  ASSUME ~ ReuseTradeNo
  PROVE  Spec => []CompleteCountExact
<1>1. Init => IndInv /\ PaymentInv
  BY InitInv, PaymentInit
<1>2. IndInv /\ PaymentInv /\ [Next]_vars => (IndInv /\ PaymentInv)'
  BY NextInv, PaymentNext
<1>3. PaymentInv => CompleteCountExact
  BY DEF PaymentInv
<1> QED BY <1>1, <1>2, <1>3, PTL DEF Spec
=============================================================================
