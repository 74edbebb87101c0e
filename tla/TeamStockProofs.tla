--------------------------- MODULE TeamStockProofs ---------------------------
(***************************************************************************)
(* Proofs about TeamStock for every number of joins, consumers and message *)
(* copies, every target and every set of failures.                         *)
(***************************************************************************)
EXTENDS TeamStock, TLAPS, FiniteSetTheorems

Seated == {o \in Orders : stage[o] = "seated"}

-----------------------------------------------------------------------------
(* Facts the actions share                                                 *)

\* Sets of orders are finite.
LEMMA OrdersFinite ==
  ASSUME NEW S \in SUBSET Orders
  PROVE  IsFiniteSet(S) /\ Cardinality(S) \in Nat
<1>1. IsFiniteSet(Orders)
  BY JoinsAssumption, FS_AddElement DEF Orders
<1> QED BY <1>1, FS_Subset, FS_CardinalityType

\* A failure other than a lost reply excuses no second credit.
LEMMA SameExcuse ==
  ASSUME UNCHANGED faults \/ \E f \in FaultKind \ {"replyLost"} : Fault(f)
  PROVE  Excused' = Excused
BY DEF Excused, Fault

\* faults only collects failures the instance allows.
LEMMA FaultsType ==
  ASSUME TypeOK, UNCHANGED faults \/ \E f \in FaultKind : Fault(f)
  PROVE  faults' \subseteq Faults
BY DEF TypeOK, Fault

\* The order's stage changes; the seats are counted with it.
LEMMA SeatMoves ==
  ASSUME StockInv, NEW o \in Orders, NEW s \in OrderStage,
         stage' = [stage EXCEPT ![o] = s]
  PROVE  /\ stage' \in [Orders -> OrderStage]
         /\ \A x \in Orders : stage'[x] = IF x = o THEN s ELSE stage[x]
         /\ (stage[o] = "seated" <=> s = "seated") => Seated' = Seated
         /\ stage[o] # "seated" /\ s = "seated"
              => Cardinality(Seated') = Cardinality(Seated) + 1
         /\ stage[o] = "seated" /\ s # "seated"
              => Cardinality(Seated') = Cardinality(Seated) - 1
<1>1. /\ stage' \in [Orders -> OrderStage]
      /\ \A x \in Orders : stage'[x] = IF x = o THEN s ELSE stage[x]
  BY DEF StockInv, TypeOK
<1>2. (stage[o] = "seated" <=> s = "seated") => Seated' = Seated
  BY <1>1 DEF Seated
<1>3. IsFiniteSet(Seated)
  BY OrdersFinite DEF Seated
<1>4. ASSUME stage[o] # "seated", s = "seated"
      PROVE  Cardinality(Seated') = Cardinality(Seated) + 1
  <2>1. o \notin Seated /\ Seated' = Seated \cup {o}
    BY <1>1, <1>4 DEF Seated
  <2> QED BY <2>1, <1>3, FS_AddElement
<1>5. ASSUME stage[o] = "seated", s # "seated"
      PROVE  Cardinality(Seated') = Cardinality(Seated) - 1
  <2>1. o \in Seated /\ Seated' = Seated \ {o}
    BY <1>1, <1>5 DEF Seated
  <2> QED BY <2>1, <1>3, FS_RemoveElement
<1> QED BY <1>1, <1>2, <1>4, <1>5

\* A step that leaves the messages alone and closes no refund keeps what is
\* said of them.
LEMMA DeliveryFrame ==
  ASSUME StockInv, UNCHANGED delivery,
         \A x \in Orders : stage[x] = "refunded" => stage'[x] = "refunded",
         Excused' = Excused
  PROVE  RefundsOnly' /\ LockGuardsCredit'
BY DEF StockInv, RefundsOnly, LockGuardsCredit, delivery

-----------------------------------------------------------------------------
(* Joining                                                                 *)

\* Steps of a join that leave Redis and the seats alone.
LEMMA JoinMovesInv ==
  ASSUME StockInv, NEW o \in Joins,
         QueryGroupBuyProgress(o) \/ LockFails(o) \/ SlotLeaks(o)
  PROVE  StockInv'
<1>1. PICK s \in OrderStage \ {"seated", "refunded"} :
        stage' = [stage EXCEPT ![o] = s]
  BY DEF QueryGroupBuyProgress, LockFails, SlotLeaks, OrderStage
<1>2. /\ stage[o] \notin {"seated", "refunded"} /\ o \in Orders
      /\ UNCHANGED <<redis, lockCount, delivery>>
      /\ UNCHANGED faults \/ \E f \in FaultKind \ {"replyLost"} : Fault(f)
  BY DEF QueryGroupBuyProgress, LockFails, SlotLeaks, FaultKind, Orders
<1>3. /\ stage' \in [Orders -> OrderStage] /\ Seated' = Seated
      /\ \A x \in Orders : stage'[x] = IF x = o THEN s ELSE stage[x]
  BY <1>1, <1>2, SeatMoves
<1>4. faults' \subseteq Faults /\ Excused' = Excused
  BY <1>2, FaultsType, SameExcuse DEF StockInv
<1>5. TypeOK'
  BY <1>2, <1>3, <1>4 DEF StockInv, TypeOK, redis, delivery
<1>6. SeatsCounted'
  BY <1>2, <1>3 DEF StockInv, SeatsCounted, Seated
<1>7. RefundsOnly' /\ LockGuardsCredit'
  BY <1>2, <1>3, <1>4, DeliveryFrame
<1>8. SlotsTaken'
  BY <1>2 DEF StockInv, SlotsTaken, redis
<1> QED BY <1>5, <1>6, <1>7, <1>8 DEF StockInv

\* The occupancy script keeps the invariant: it takes the next number only
\* when the counters leave room, and undoes its INCR otherwise.
LEMMA OccupyTeamStockInv ==
  ASSUME StockInv, NEW o \in Joins, OccupyTeamStock(o)
  PROVE  StockInv'
<1>1. PICK s \in OrderStage \ {"seated", "refunded"} :
        stage' = [stage EXCEPT ![o] = s]
  BY DEF OccupyTeamStock, OrderStage
<1>2. /\ stage[o] \notin {"seated", "refunded"} /\ o \in Orders
      /\ UNCHANGED <<recovery, lockCount, delivery, faults>>
  BY DEF OccupyTeamStock, Orders
<1>3. /\ stage' \in [Orders -> OrderStage] /\ Seated' = Seated
      /\ \A x \in Orders : stage'[x] = IF x = o THEN s ELSE stage[x]
  BY <1>1, <1>2, SeatMoves
<1>4. stock \in Nat /\ recovery \in Nat /\ slots \in SUBSET Nat
  BY DEF StockInv, TypeOK
<1>5. /\ stock' \in Nat /\ slots' \in SUBSET Nat
      /\ SlotsTaken'
  <2>1. CASE HasSlot(stock + 1) /\ stock' = stock + 1
             /\ slots' = slots \cup {stock + 1}
    BY <2>1, <1>2, <1>4, TargetAssumption DEF HasSlot, StockInv, SlotsTaken
  <2>2. CASE stock' = (stock + 1) - 1 /\ slots' = slots
    <3>1. stock' = stock
      BY <2>2, <1>4
    <3> QED BY <3>1, <2>2, <1>2, <1>4 DEF StockInv, SlotsTaken
  <2> QED BY <2>1, <2>2 DEF OccupyTeamStock
<1>6. TypeOK'
  BY <1>2, <1>3, <1>5 DEF StockInv, TypeOK, delivery
<1>7. SeatsCounted'
  BY <1>2, <1>3 DEF StockInv, SeatsCounted, Seated
<1>8. RefundsOnly' /\ LockGuardsCredit'
  BY <1>2, <1>3, SameExcuse, DeliveryFrame
<1> QED BY <1>5, <1>6, <1>7, <1>8 DEF StockInv

\* The lock transaction keeps the invariant: one seat more, within the target.
LEMMA LockCommitsInv ==
  ASSUME StockInv, NEW o \in Joins, LockCommits(o)
  PROVE  StockInv'
<1>1. /\ stage' = [stage EXCEPT ![o] = "seated"] /\ o \in Orders
      /\ stage[o] = "occupied" /\ "seated" \in OrderStage
      /\ lockCount < Target /\ lockCount' = lockCount + 1
      /\ UNCHANGED <<redis, delivery, faults>>
  BY DEF LockCommits, Orders, OrderStage
<1>2. /\ stage' \in [Orders -> OrderStage]
      /\ \A x \in Orders : stage'[x] = IF x = o THEN "seated" ELSE stage[x]
      /\ Cardinality(Seated') = Cardinality(Seated) + 1
  BY <1>1, SeatMoves
<1>3. lockCount \in Nat /\ lockCount = Cardinality(Seated)
  BY DEF StockInv, TypeOK, SeatsCounted, Seated
<1>4. TypeOK'
  BY <1>1, <1>2, <1>3 DEF StockInv, TypeOK, redis, delivery
<1>5. SeatsCounted'
  BY <1>1, <1>2, <1>3, TargetAssumption DEF SeatsCounted, Seated
<1>6. RefundsOnly' /\ LockGuardsCredit'
  BY <1>1, <1>2, SameExcuse, DeliveryFrame
<1>7. SlotsTaken'
  BY <1>1 DEF StockInv, SlotsTaken, redis
<1> QED BY <1>4, <1>5, <1>6, <1>7 DEF StockInv

\* Giving a slot back after a failed transaction keeps the invariant.
LEMMA RecoveryTeamStockInv ==
  ASSUME StockInv, NEW o \in Joins, RecoveryTeamStock(o)
  PROVE  StockInv'
<1>1. /\ stage' = [stage EXCEPT ![o] = "recovered"] /\ o \in Orders
      /\ stage[o] = "failed" /\ "recovered" \in OrderStage
      /\ recovery' = recovery + 1
      /\ UNCHANGED <<stock, slots, lockCount, delivery, faults>>
  BY DEF RecoveryTeamStock, Orders, OrderStage
<1>2. /\ stage' \in [Orders -> OrderStage] /\ Seated' = Seated
      /\ \A x \in Orders : stage'[x] = IF x = o THEN "recovered" ELSE stage[x]
  BY <1>1, SeatMoves
<1>3. TypeOK'
  BY <1>1, <1>2 DEF StockInv, TypeOK, delivery
<1>4. SeatsCounted'
  BY <1>1, <1>2 DEF StockInv, SeatsCounted, Seated
<1>5. RefundsOnly' /\ LockGuardsCredit'
  BY <1>1, <1>2, SameExcuse, DeliveryFrame
<1>6. SlotsTaken'
  BY <1>1, TargetAssumption DEF StockInv, TypeOK, SlotsTaken
<1> QED BY <1>3, <1>4, <1>5, <1>6 DEF StockInv

\* A slot given back without a reason keeps the invariant.
LEMMA RecoveryUndueInv ==
  ASSUME StockInv, NEW o \in Joins, RecoveryUndue(o)
  PROVE  StockInv'
<1>1. /\ recovery' = recovery + 1
      /\ UNCHANGED <<stock, slots, lockCount, stage, delivery>>
      /\ \E f \in FaultKind \ {"replyLost"} : Fault(f)
  BY DEF RecoveryUndue, FaultKind
<1>2. faults' \subseteq Faults /\ Excused' = Excused
  BY <1>1, FaultsType, SameExcuse DEF StockInv
<1>3. TypeOK' /\ SeatsCounted'
  BY <1>1, <1>2 DEF StockInv, TypeOK, SeatsCounted, delivery
<1>4. SlotsTaken'
  BY <1>1, TargetAssumption DEF StockInv, TypeOK, SlotsTaken
<1>5. RefundsOnly' /\ LockGuardsCredit'
  BY <1>1, <1>2, DeliveryFrame
<1> QED BY <1>3, <1>4, <1>5 DEF StockInv

\* The expiry of a lock key keeps the invariant.
LEMMA SlotExpiresInv ==
  ASSUME StockInv, NEW n \in slots, SlotExpires(n)
  PROVE  StockInv'
<1>1. /\ slots' = slots \ {n}
      /\ UNCHANGED <<stock, recovery, lockCount, stage, delivery, faults>>
  BY DEF SlotExpires
<1>2. TypeOK' /\ SeatsCounted' /\ SlotsTaken'
  BY <1>1 DEF StockInv, TypeOK, SeatsCounted, SlotsTaken, delivery
<1>3. RefundsOnly' /\ LockGuardsCredit'
  BY <1>1, SameExcuse, DeliveryFrame
<1> QED BY <1>2, <1>3 DEF StockInv

-----------------------------------------------------------------------------
(* Refunding                                                               *)

\* The refund transaction keeps the invariant: one seat less.
LEMMA RefundInv ==
  ASSUME StockInv, NEW o \in Orders, Refund(o)
  PROVE  StockInv'
<1>1. /\ stage' = [stage EXCEPT ![o] = "refunded"]
      /\ stage[o] = "seated" /\ "refunded" \in OrderStage
      /\ lockCount' = lockCount - 1 /\ outbox' = outbox \cup {o}
      /\ UNCHANGED <<redis, queue, refundLock, credited, consumer, conn, faults>>
  BY DEF Refund, OrderStage
<1>2. /\ stage' \in [Orders -> OrderStage]
      /\ \A x \in Orders : stage'[x] = IF x = o THEN "refunded" ELSE stage[x]
      /\ Cardinality(Seated') = Cardinality(Seated) - 1
  BY <1>1, SeatMoves
<1>3. lockCount \in Nat /\ lockCount = Cardinality(Seated)
      /\ Cardinality(Seated') \in Nat
  BY OrdersFinite DEF StockInv, TypeOK, SeatsCounted, Seated
<1>4. TypeOK'
  BY <1>1, <1>2, <1>3 DEF StockInv, TypeOK, redis
<1>5. SeatsCounted'
  <2>1. lockCount' <= Target
    BY <1>1, <1>3, TargetAssumption DEF StockInv, SeatsCounted
  <2> QED BY <2>1, <1>1, <1>2, <1>3 DEF SeatsCounted, Seated
<1>6. RefundsOnly'
  BY <1>1, <1>2 DEF StockInv, RefundsOnly
<1>7. LockGuardsCredit'
  BY <1>1, SameExcuse DEF StockInv, LockGuardsCredit
<1>8. SlotsTaken'
  BY <1>1 DEF StockInv, SlotsTaken, redis
<1> QED BY <1>4, <1>5, <1>6, <1>7, <1>8 DEF StockInv

\* Publishing a notification, or dropping it, keeps the invariant: the message
\* is about a refund.
LEMMA PublishInv ==
  ASSUME StockInv, NEW o \in Orders,
         Publish(o) \/ PublishSkipped(o) \/ PublishLost(o) \/ NotifyGivenUp(o)
  PROVE  StockInv'
<1>1. /\ o \in outbox /\ outbox' \subseteq outbox
      /\ queue' = queue \/ queue' = [queue EXCEPT ![o] = @ + 1]
      /\ UNCHANGED <<redis, lockCount, stage, refundLock, credited, consumer, conn>>
      /\ UNCHANGED faults \/ \E f \in FaultKind \ {"replyLost"} : Fault(f)
  BY DEF Publish, PublishSkipped, PublishLost, NotifyGivenUp, FaultKind
<1>2. queue \in [Orders -> Nat] /\ stage[o] = "refunded"
  BY <1>1 DEF StockInv, TypeOK, RefundsOnly
<1>3. /\ queue' \in [Orders -> Nat]
      /\ \A x \in Orders : queue'[x] > 0 => queue[x] > 0 \/ x = o
  BY <1>1, <1>2
<1>f. faults' \subseteq Faults /\ Excused' = Excused
  BY <1>1, FaultsType, SameExcuse DEF StockInv
<1>4. TypeOK'
  BY <1>1, <1>3, <1>f DEF StockInv, TypeOK, redis
<1>5. SeatsCounted' /\ SlotsTaken'
  BY <1>1 DEF StockInv, SeatsCounted, SlotsTaken, redis
<1>6. RefundsOnly'
  BY <1>1, <1>2, <1>3 DEF StockInv, RefundsOnly
<1>7. LockGuardsCredit'
  BY <1>1, <1>f DEF StockInv, LockGuardsCredit
<1> QED BY <1>4, <1>5, <1>6, <1>7 DEF StockInv

\* The steps that restart a process between two messages keep the invariant.
LEMMA RestartInv ==
  ASSUME StockInv, NEW c \in Consumers, Restart(c) \/ StartWithoutMQ(c)
  PROVE  StockInv'
<1>1. /\ conn' \in [Consumers -> Connection]
      /\ UNCHANGED <<redis, lockCount, stage, outbox, queue, refundLock, credited,
                     consumer>>
      /\ UNCHANGED faults \/ \E f \in FaultKind \ {"replyLost"} : Fault(f)
  BY DEF Restart, StartWithoutMQ, StockInv, TypeOK, Connection, FaultKind
<1>2. faults' \subseteq Faults /\ Excused' = Excused
  BY <1>1, FaultsType, SameExcuse DEF StockInv
<1>3. TypeOK'
  BY <1>1, <1>2 DEF StockInv, TypeOK, redis
<1> QED BY <1>1, <1>2, <1>3 DEF StockInv, SeatsCounted, SlotsTaken, RefundsOnly,
        LockGuardsCredit, redis

-----------------------------------------------------------------------------
(* Consuming                                                               *)

\* What a step of one consumer has to show: it handles a refund or nothing,
\* every message is about a refund, and refund_lock still guards the credit.
LEMMA ConsumerStep ==
  ASSUME StockInv, NEW c \in Consumers, NEW v \in ConsumerState,
         consumer' = [consumer EXCEPT ![c] = v],
         v.pc # "idle" => v.order \in Orders /\ stage[v.order] = "refunded",
         queue' \in [Orders -> Nat],
         \A x \in Orders : queue'[x] > 0 => stage[x] = "refunded",
         credited' \in [Orders -> Nat],
         \A x \in Orders : credited'[x] > 0 => stage[x] = "refunded",
         recovery' \in {recovery, recovery + 1, recovery + 2},
         refundLock' \in SUBSET Orders,
         conn' \in [Consumers -> Connection],
         faults' \subseteq Faults,
         UNCHANGED <<stock, slots, lockCount, stage, outbox>>,
         LockGuardsCredit'
  PROVE  StockInv'
<1>1. consumer' \in [Consumers -> ConsumerState]
      /\ \A d \in Consumers : consumer'[d] = IF d = c THEN v ELSE consumer[d]
  BY DEF StockInv, TypeOK
<1>2. recovery \in Nat /\ recovery' \in Nat /\ recovery <= recovery'
      /\ stock \in Nat
  BY DEF StockInv, TypeOK
<1>3. TypeOK'
  BY <1>1, <1>2 DEF StockInv, TypeOK
<1>4. SeatsCounted'
  BY DEF StockInv, SeatsCounted
<1>5. SlotsTaken'
  BY <1>2, TargetAssumption DEF StockInv, SlotsTaken
<1>6. RefundsOnly'
  BY <1>1 DEF StockInv, RefundsOnly
<1> QED BY <1>3, <1>4, <1>5, <1>6 DEF StockInv

\* What a consumer that is not idle holds.
LEMMA Handling ==
  ASSUME StockInv, NEW c \in Consumers, consumer[c].pc # "idle"
  PROVE  /\ consumer[c] \in ConsumerState
         /\ consumer[c].order \in Orders /\ stage[consumer[c].order] = "refunded"
BY DEF StockInv, TypeOK, RefundsOnly

\* A message the broker takes back is about a refund.
LEMMA RequeueRefund ==
  ASSUME StockInv, NEW c \in Consumers, consumer[c].pc # "idle",
         queue' \in {queue, [queue EXCEPT ![consumer[c].order] = @ + 1]}
  PROVE  /\ queue' \in [Orders -> Nat]
         /\ \A x \in Orders : queue'[x] > 0 => stage[x] = "refunded"
<1> PICK o \in Orders : o = consumer[c].order /\ stage[o] = "refunded"
  BY Handling
<1>1. queue \in [Orders -> Nat]
      /\ \A x \in Orders : queue[x] > 0 => stage[x] = "refunded"
  BY DEF StockInv, TypeOK, RefundsOnly
<1>2. CASE queue' = queue
  BY <1>1, <1>2
<1>3. CASE queue' = [queue EXCEPT ![o] = @ + 1]
  BY <1>1, <1>3
<1> QED BY <1>2, <1>3

\* A consumer that lets go of its message without a credit, keeping the locks,
\* deleting the refund_lock it holds or leaving one behind.
LEMMA LetsGo ==
  ASSUME StockInv, NEW c \in Consumers, consumer[c].pc # "idle", Nack(c) \/ Ack(c),
         \/ UNCHANGED refundLock
         \/ refundLock' = refundLock \cup {consumer[c].order}
         \/ /\ consumer[c].pc = "locked"
            /\ refundLock' = refundLock \ {consumer[c].order},
         UNCHANGED <<redis, lockCount, stage, outbox, credited>>,
         conn' \in [Consumers -> Connection],
         UNCHANGED faults \/ \E f \in FaultKind \ {"replyLost"} : Fault(f)
  PROVE  StockInv'
<1> PICK o \in Orders : o = consumer[c].order /\ stage[o] = "refunded"
  BY Handling
<1>1. /\ IdleConsumer \in ConsumerState /\ IdleConsumer.pc = "idle"
      /\ consumer' = [consumer EXCEPT ![c] = IdleConsumer]
  BY DEF Nack, Ack, IdleConsumer, ConsumerState
<1>2. queue' \in {queue, [queue EXCEPT ![consumer[c].order] = @ + 1]}
  BY DEF Nack, Ack, Requeue
<1>3. faults' \subseteq Faults /\ Excused' = Excused
  BY FaultsType, SameExcuse DEF StockInv
<1>4. \A d \in Consumers :
        consumer'[d] = IF d = c THEN IdleConsumer ELSE consumer[d]
  BY <1>1 DEF StockInv, TypeOK
<1>5. LockGuardsCredit'
  <2>1. CASE refundLock' \in {refundLock, refundLock \cup {o}}
    BY <2>1, <1>1, <1>3, <1>4 DEF StockInv, LockGuardsCredit
  <2>2. CASE consumer[c].pc = "locked" /\ refundLock' = refundLock \ {o}
    <3>1. \A d \in Consumers : consumer'[d].pc = "locked" =>
            d # c /\ consumer'[d] = consumer[d] /\ consumer[d].order # o
      BY <2>2, <1>1, <1>4 DEF StockInv, LockGuardsCredit
    <3>2. credited[o] # 1 + Excused
      BY <2>2 DEF StockInv, LockGuardsCredit
    <3> QED BY <3>1, <3>2, <2>2, <1>3 DEF StockInv, LockGuardsCredit
  <2> QED BY <2>1, <2>2
<1>6. /\ queue' \in [Orders -> Nat]
      /\ \A x \in Orders : queue'[x] > 0 => stage[x] = "refunded"
  BY <1>2, RequeueRefund
<1>7. /\ credited' \in [Orders -> Nat] /\ recovery' = recovery
      /\ \A x \in Orders : credited'[x] > 0 => stage[x] = "refunded"
      /\ UNCHANGED <<stock, slots, lockCount, stage, outbox>>
      /\ refundLock' \in SUBSET Orders
  BY DEF StockInv, TypeOK, RefundsOnly, redis
<1> HIDE DEF IdleConsumer
<1> QED BY <1>1, <1>3, <1>5, <1>6, <1>7, ConsumerStep

\* Taking a message keeps the invariant.
LEMMA DeliverInv ==
  ASSUME StockInv, NEW c \in Consumers, NEW o \in Orders, Deliver(c, o)
  PROVE  StockInv'
<1> DEFINE v == [pc |-> "received", order |-> o]
<1>1. /\ v \in ConsumerState /\ v.pc = "received" /\ v.order = o
      /\ consumer' = [consumer EXCEPT ![c] = v]
  BY DEF Deliver, ConsumerState
<1>2. queue \in [Orders -> Nat] /\ queue[o] > 0 /\ stage[o] = "refunded"
      /\ queue' = [queue EXCEPT ![o] = @ - 1]
      /\ \A x \in Orders : queue[x] > 0 => stage[x] = "refunded"
  BY DEF Deliver, StockInv, TypeOK, RefundsOnly
<1>3. /\ queue' \in [Orders -> Nat]
      /\ \A x \in Orders : queue'[x] > 0 => stage[x] = "refunded"
  BY <1>2
<1>4. UNCHANGED <<redis, lockCount, stage, outbox, refundLock, credited, conn, faults>>
  BY DEF Deliver
<1> HIDE DEF v
<1>5. \A d \in Consumers : consumer'[d] = IF d = c THEN v ELSE consumer[d]
  BY <1>1 DEF StockInv, TypeOK
<1>6. LockGuardsCredit'
  BY <1>1, <1>4, <1>5, SameExcuse DEF StockInv, LockGuardsCredit
<1>7. /\ credited' \in [Orders -> Nat] /\ recovery' = recovery
      /\ \A x \in Orders : credited'[x] > 0 => stage[x] = "refunded"
      /\ UNCHANGED <<stock, slots, lockCount, stage, outbox>>
      /\ refundLock' \in SUBSET Orders /\ conn' \in [Consumers -> Connection]
      /\ faults' \subseteq Faults
  BY <1>4 DEF StockInv, TypeOK, RefundsOnly, redis
<1> QED BY <1>1, <1>2, <1>3, <1>6, <1>7, ConsumerStep

\* SETNX keeps the invariant: it succeeds only when nobody holds the lock and
\* no credit is final.
LEMMA SetRefundLockInv ==
  ASSUME StockInv, NEW c \in Consumers, SetRefundLock(c)
  PROVE  StockInv'
<1>1. /\ consumer[c].pc = "received" /\ consumer[c] \in ConsumerState
      /\ UNCHANGED <<redis, lockCount, stage, outbox, credited, conn, faults>>
  BY DEF SetRefundLock, StockInv, TypeOK
<1> PICK o \in Orders : o = consumer[c].order /\ stage[o] = "refunded"
  BY <1>1, Handling
<1>2. CASE o \notin refundLock /\ refundLock' = refundLock \cup {o}
           /\ consumer' = [consumer EXCEPT ![c].pc = "locked"] /\ UNCHANGED queue
  <2> DEFINE v == [consumer[c] EXCEPT !.pc = "locked"]
  <2>1. /\ v \in ConsumerState /\ v.pc = "locked" /\ v.order = o
        /\ consumer' = [consumer EXCEPT ![c] = v]
    BY <1>1, <1>2 DEF ConsumerState
  <2> HIDE DEF v
  <2>2. \A d \in Consumers : consumer'[d] = IF d = c THEN v ELSE consumer[d]
    BY <2>1 DEF StockInv, TypeOK
  <2>3. \A d \in Consumers : consumer[d].pc = "locked" => consumer[d].order # o
    BY <1>2 DEF StockInv, LockGuardsCredit
  <2>4. credited[o] # 1 + Excused
    BY <1>2 DEF StockInv, LockGuardsCredit
  <2>5. LockGuardsCredit'
    BY <2>1, <2>2, <2>3, <2>4, <1>1, <1>2, SameExcuse DEF StockInv, LockGuardsCredit
  <2>6. /\ credited' \in [Orders -> Nat] /\ recovery' = recovery
        /\ \A x \in Orders : credited'[x] > 0 => stage[x] = "refunded"
        /\ queue' \in [Orders -> Nat]
        /\ \A x \in Orders : queue'[x] > 0 => stage[x] = "refunded"
        /\ UNCHANGED <<stock, slots, lockCount, stage, outbox>>
        /\ refundLock' \in SUBSET Orders /\ conn' \in [Consumers -> Connection]
        /\ faults' \subseteq Faults
    BY <1>1, <1>2 DEF StockInv, TypeOK, RefundsOnly, redis
  <2> QED BY <2>1, <2>5, <2>6, ConsumerStep
<1>3. CASE Ack(c) /\ UNCHANGED refundLock
  <2>1. conn' \in [Consumers -> Connection]
    BY <1>1 DEF StockInv, TypeOK
  <2> QED BY <2>1, <1>1, <1>3, LetsGo
<1> QED BY <1>2, <1>3 DEF SetRefundLock

\* The credit keeps the invariant: the holder of refund_lock was the only one,
\* and the lock stays.
LEMMA IncrRecoveryInv ==
  ASSUME StockInv, NEW c \in Consumers, IncrRecovery(c)
  PROVE  StockInv'
<1>1. /\ consumer[c].pc = "locked" /\ recovery' = recovery + 1
      /\ UNCHANGED <<stock, slots, lockCount, stage, outbox, refundLock, conn, faults>>
      /\ UNCHANGED queue
  BY DEF IncrRecovery, Ack
<1> PICK o \in Orders : o = consumer[c].order /\ stage[o] = "refunded"
  BY <1>1, Handling
<1>2. /\ IdleConsumer \in ConsumerState /\ IdleConsumer.pc = "idle"
      /\ consumer' = [consumer EXCEPT ![c] = IdleConsumer]
  BY DEF IncrRecovery, Ack, IdleConsumer, ConsumerState
<1>3. \A d \in Consumers :
        consumer'[d] = IF d = c THEN IdleConsumer ELSE consumer[d]
  BY <1>2 DEF StockInv, TypeOK
<1>4. /\ credited' \in [Orders -> Nat] /\ credited \in [Orders -> Nat]
      /\ \A x \in Orders : credited'[x] = IF x = o THEN credited[o] + 1 ELSE credited[x]
  BY DEF IncrRecovery, StockInv, TypeOK
<1>5. /\ o \in refundLock /\ credited[o] <= 1 + Excused
      /\ credited[o] # 1 + Excused
      /\ \A d \in Consumers : consumer[d].pc = "locked" /\ consumer[d].order = o => d = c
  BY <1>1 DEF StockInv, LockGuardsCredit
<1>6. Excused' = Excused /\ Excused \in Nat
  BY <1>1, SameExcuse DEF Excused
<1>7. LockGuardsCredit'
  <2>1. ASSUME NEW d \in Consumers, consumer'[d].pc = "locked"
        PROVE  /\ d # c /\ consumer'[d] = consumer[d] /\ consumer[d].order # o
               /\ consumer[d].order \in refundLock
    BY <2>1, <1>2, <1>3, <1>5 DEF StockInv, LockGuardsCredit
  <2>2. credited[o] + 1 <= 1 + Excused
    BY <1>4, <1>5, <1>6
  <2> QED BY <2>1, <2>2, <1>1, <1>4, <1>5, <1>6 DEF StockInv, LockGuardsCredit
<1>8. /\ \A x \in Orders : credited'[x] > 0 => stage[x] = "refunded"
      /\ queue' \in [Orders -> Nat]
      /\ \A x \in Orders : queue'[x] > 0 => stage[x] = "refunded"
      /\ refundLock' \in SUBSET Orders /\ conn' \in [Consumers -> Connection]
      /\ faults' \subseteq Faults
  BY <1>1, <1>4 DEF StockInv, TypeOK, RefundsOnly
<1> HIDE DEF IdleConsumer
<1> QED BY <1>1, <1>2, <1>4, <1>7, <1>8, ConsumerStep

\* A lost reply keeps the invariant: it is the one excuse, and it was not used
\* before.
LEMMA ReplyLostInv ==
  ASSUME StockInv, NEW c \in Consumers, ReplyLost(c)
  PROVE  StockInv'
<1>1. /\ consumer[c].pc = "locked" /\ recovery' \in {recovery + 1, recovery + 2}
      /\ UNCHANGED <<stock, slots, lockCount, stage, outbox, conn>>
      /\ Fault("replyLost")
      /\ refundLock' \in {refundLock, refundLock \ {consumer[c].order}}
  BY DEF ReplyLost
<1> PICK o \in Orders : o = consumer[c].order /\ stage[o] = "refunded"
  BY <1>1, Handling
<1>2. /\ IdleConsumer \in ConsumerState /\ IdleConsumer.pc = "idle"
      /\ consumer' = [consumer EXCEPT ![c] = IdleConsumer]
  BY DEF ReplyLost, Nack, Ack, IdleConsumer, ConsumerState
<1>3. \A d \in Consumers :
        consumer'[d] = IF d = c THEN IdleConsumer ELSE consumer[d]
  BY <1>2 DEF StockInv, TypeOK
<1>4. credited \in [Orders -> Nat]
  BY DEF StockInv, TypeOK
<1>5. Excused = 0 /\ Excused' = 1 /\ faults' \subseteq Faults
  <2>1. faults' \subseteq Faults
    BY <1>1, FaultsType DEF StockInv, FaultKind
  <2> QED BY <2>1, <1>1 DEF Fault, Excused
<1>6. /\ \A x \in Orders : credited[x] <= 1
      /\ credited[o] # 1 /\ o \in refundLock
      /\ \A d \in Consumers : consumer[d].pc = "locked" /\ consumer[d].order = o => d = c
  BY <1>1, <1>5 DEF StockInv, LockGuardsCredit
<1>c. /\ credited' \in [Orders -> Nat]
      /\ \/ /\ refundLock' = refundLock \ {o}
            /\ \A x \in Orders : credited'[x] = IF x = o THEN 1 ELSE credited[x]
         \/ /\ refundLock' = refundLock
            /\ \A x \in Orders : credited'[x] = IF x = o THEN 2 ELSE credited[x]
  <2>1. credited[o] = 0
    BY <1>4, <1>6
  <2>2. CASE /\ credited' = [credited EXCEPT ![o] = @ + 1]
             /\ refundLock' = refundLock \ {o}
    BY <2>1, <2>2, <1>4
  <2>3. CASE credited' = [credited EXCEPT ![o] = @ + 2] /\ refundLock' = refundLock
    BY <2>1, <2>3, <1>4
  <2> QED BY <2>2, <2>3 DEF ReplyLost
<1>7. LockGuardsCredit'
  <2>1. ASSUME NEW d \in Consumers, consumer'[d].pc = "locked"
        PROVE  /\ d # c /\ consumer'[d] = consumer[d] /\ consumer[d].order # o
               /\ consumer[d].order \in refundLock
    BY <2>1, <1>2, <1>3, <1>6 DEF StockInv, LockGuardsCredit
  <2>2. ASSUME NEW x \in Orders
        PROVE  /\ credited'[x] <= 1 + Excused'
               /\ credited'[x] = 1 + Excused' => x = o /\ o \in refundLock'
    BY <1>4, <1>5, <1>6, <1>c
  <2>3. \A d, e \in Consumers :
          /\ consumer'[d].pc = "locked" /\ consumer'[e].pc = "locked"
          /\ consumer'[e].order = consumer'[d].order
          => e = d
    BY <2>1 DEF StockInv, LockGuardsCredit
  <2>4. \A d \in Consumers : consumer'[d].pc = "locked" =>
          consumer'[d].order \in refundLock' /\ consumer'[d].order # o
    BY <2>1, <1>c
  <2> QED BY <2>2, <2>3, <2>4 DEF LockGuardsCredit
<1>8. /\ queue' \in [Orders -> Nat]
      /\ \A x \in Orders : queue'[x] > 0 => stage[x] = "refunded"
  <2>1. queue' \in {queue, [queue EXCEPT ![consumer[c].order] = @ + 1]}
    BY DEF ReplyLost, Nack, Ack, Requeue
  <2> QED BY <2>1, <1>1, RequeueRefund
<1>9. /\ \A x \in Orders : credited'[x] > 0 => stage[x] = "refunded"
      /\ refundLock' \in SUBSET Orders /\ conn' \in [Consumers -> Connection]
  BY <1>1, <1>c DEF StockInv, TypeOK, RefundsOnly
<1> HIDE DEF IdleConsumer
<1> QED BY <1>1, <1>2, <1>5, <1>c, <1>7, <1>8, <1>9, ConsumerStep

\* The failures of a handler keep the invariant.
LEMMA HandlerFailsInv ==
  ASSUME StockInv, NEW c \in Consumers,
         \/ SetRefundLockFails(c) \/ LockReplyLost(c) \/ IncrRecoveryFails(c)
         \/ DelFails(c) \/ ConsumerCrash(c)
  PROVE  StockInv'
<1>1. conn \in [Consumers -> Connection] /\ "up" \in Connection
  BY DEF StockInv, TypeOK, Connection
<1>2. CASE SetRefundLockFails(c)
  BY <1>1, <1>2, LetsGo DEF SetRefundLockFails
<1>3. CASE IncrRecoveryFails(c)
  BY <1>1, <1>3, LetsGo DEF IncrRecoveryFails
<1>4. CASE DelFails(c)
  <2>1. \E f \in FaultKind \ {"replyLost"} : Fault(f)
    BY <1>4 DEF DelFails, FaultKind
  <2> QED BY <2>1, <1>1, <1>4, LetsGo DEF DelFails
<1>5. CASE ConsumerCrash(c)
  <2>1. \E f \in FaultKind \ {"replyLost"} : Fault(f)
    BY <1>5 DEF ConsumerCrash, FaultKind
  <2>2. conn' \in [Consumers -> Connection]
    BY <1>1, <1>5 DEF ConsumerCrash
  <2> QED BY <2>1, <2>2, <1>5, LetsGo DEF ConsumerCrash
<1>6. CASE LockReplyLost(c)
  <2>1. \E f \in FaultKind \ {"replyLost"} : Fault(f)
    BY <1>6 DEF LockReplyLost, FaultKind
  <2> QED BY <2>1, <1>1, <1>6, LetsGo DEF LockReplyLost
<1> QED BY <1>2, <1>3, <1>4, <1>5, <1>6

\* Losing a connection keeps the invariant: the message goes back, the handler
\* goes on.
LEMMA ConnectionLostInv ==
  ASSUME StockInv, NEW c \in Consumers, ConnectionLost(c)
  PROVE  StockInv'
<1>1. /\ \E f \in FaultKind \ {"replyLost"} : Fault(f)
      /\ UNCHANGED <<redis, lockCount, stage, outbox, refundLock, credited, consumer>>
  BY DEF ConnectionLost, FaultKind
<1>2. faults' \subseteq Faults /\ Excused' = Excused
  BY <1>1, FaultsType, SameExcuse DEF StockInv
<1>3. conn' \in [Consumers -> Connection]
  BY DEF ConnectionLost, StockInv, TypeOK, Connection
<1>4. /\ queue' \in [Orders -> Nat]
      /\ \A x \in Orders : queue'[x] > 0 => stage[x] = "refunded"
  <2>1. CASE consumer[c].pc = "idle"
    BY <2>1 DEF ConnectionLost, StockInv, TypeOK, RefundsOnly
  <2>2. CASE consumer[c].pc # "idle"
    BY <2>2, RequeueRefund DEF ConnectionLost
  <2> QED BY <2>1, <2>2
<1>5. TypeOK'
  BY <1>1, <1>2, <1>3, <1>4 DEF StockInv, TypeOK, redis
<1>6. SeatsCounted' /\ SlotsTaken' /\ RefundsOnly' /\ LockGuardsCredit'
  BY <1>1, <1>2, <1>4 DEF StockInv, SeatsCounted, SlotsTaken, RefundsOnly,
     LockGuardsCredit, redis
<1> QED BY <1>5, <1>6 DEF StockInv

-----------------------------------------------------------------------------
(* The invariant and the single credit                                     *)

\* The state after the opening of the team satisfies the invariant.
LEMMA StockInit == Init => StockInv
<1> SUFFICES ASSUME Init PROVE StockInv
  OBVIOUS
<1>1. Opener \in Orders
  BY DEF Orders
<1>2. TypeOK
  BY DEF Init, TypeOK, OrderStage, ConsumerState, IdleConsumer, Connection
<1>3. SeatsCounted
  <2>1. Seated = {Opener}
    BY <1>1 DEF Init, Seated
  <2>2. Cardinality({Opener}) = 1
    BY FS_Singleton
  <2> QED BY <2>1, <2>2, TargetAssumption DEF Init, SeatsCounted, Seated
<1>4. RefundsOnly
  BY DEF Init, RefundsOnly, IdleConsumer
<1>5. LockGuardsCredit
  BY DEF Init, LockGuardsCredit, IdleConsumer, Excused
<1>6. SlotsTaken
  BY TargetAssumption DEF Init, SlotsTaken
<1> QED BY <1>2, <1>3, <1>4, <1>5, <1>6 DEF StockInv

\* Every step keeps the invariant.
LEMMA StockNext == StockInv /\ [Next]_vars => StockInv'
<1> SUFFICES ASSUME StockInv, [Next]_vars PROVE StockInv'
  OBVIOUS
<1>1. ASSUME NEW o \in Joins,
             \/ QueryGroupBuyProgress(o) \/ OccupyTeamStock(o) \/ LockCommits(o)
             \/ LockFails(o) \/ RecoveryTeamStock(o) \/ RecoveryUndue(o)
             \/ SlotLeaks(o)
      PROVE  StockInv'
  BY <1>1, JoinMovesInv, OccupyTeamStockInv, LockCommitsInv, RecoveryTeamStockInv,
     RecoveryUndueInv
<1>2. ASSUME NEW n \in slots, SlotExpires(n)
      PROVE  StockInv'
  BY <1>2, SlotExpiresInv
<1>3. ASSUME NEW o \in Orders,
             \/ Refund(o) \/ Publish(o) \/ PublishSkipped(o)
             \/ PublishLost(o) \/ NotifyGivenUp(o)
             \/ \E c \in Consumers : Deliver(c, o)
      PROVE  StockInv'
  BY <1>3, RefundInv, PublishInv, DeliverInv
<1>4. ASSUME NEW c \in Consumers,
             \/ SetRefundLock(c) \/ SetRefundLockFails(c) \/ LockReplyLost(c)
             \/ IncrRecovery(c) \/ IncrRecoveryFails(c) \/ DelFails(c) \/ ReplyLost(c)
             \/ ConsumerCrash(c) \/ ConnectionLost(c) \/ Restart(c)
             \/ StartWithoutMQ(c)
      PROVE  StockInv'
  BY <1>4, SetRefundLockInv, IncrRecoveryInv, ReplyLostInv, HandlerFailsInv,
     ConnectionLostInv, RestartInv
<1>5. CASE UNCHANGED vars
  BY <1>5, SameExcuse DEF vars, StockInv, TypeOK, SeatsCounted, RefundsOnly,
     LockGuardsCredit, SlotsTaken
<1> QED BY <1>1, <1>2, <1>3, <1>4, <1>5 DEF Next

\* The invariant the theorems below follow from.
THEOREM StockInvariance == Spec => []StockInv
BY StockInit, StockNext, PTL DEF Spec

\* Counters, slots, messages and consumers keep their types (TypeOK): no
\* counter goes below zero.
THEOREM StockTypeCorrect == Spec => []TypeOK
<1>1. StockInv => TypeOK
  BY DEF StockInv
<1> QED BY <1>1, StockInvariance, PTL

\* A refund is credited at most once, but for one INCR whose reply is lost
\* (CreditedAtMostOnce), for every number of consumers and message copies and
\* every set of failures: Refund2AddRecovery's refund_lock is enough.
THEOREM CreditedAtMostOnceCorrect == Spec => []CreditedAtMostOnce
<1>1. StockInv => CreditedAtMostOnce
  BY DEF StockInv, LockGuardsCredit, CreditedAtMostOnce
<1> QED BY <1>1, StockInvariance, PTL

-----------------------------------------------------------------------------
(* Redis against MySQL                                                     *)

OwedStage == {"occupied", "failed", "leaked"}

\* What a change of one order's stage does to the slots that are owed.
LEMMA OwedMoves ==
  ASSUME StockInv, NEW o \in Orders, NEW s \in OrderStage,
         stage' = [stage EXCEPT ![o] = s], UNCHANGED credited
  PROVE  /\ (stage[o] \in OwedStage <=> s \in OwedStage)
              /\ stage[o] # "refunded" /\ s # "refunded"
              => Owed' = Owed
         /\ stage[o] \notin OwedStage /\ stage[o] # "refunded"
              /\ (s \in OwedStage \/ (s = "refunded" /\ credited[o] = 0))
              => Cardinality(Owed') = Cardinality(Owed) + 1
         /\ stage[o] \in OwedStage /\ s \notin OwedStage /\ s # "refunded"
              => Cardinality(Owed') = Cardinality(Owed) - 1
<1>1. \A x \in Orders : stage'[x] = IF x = o THEN s ELSE stage[x]
  BY SeatMoves
<1>2. IsFiniteSet(Owed)
  BY OrdersFinite DEF Owed
<1>3. ASSUME (stage[o] \in OwedStage <=> s \in OwedStage),
             stage[o] # "refunded", s # "refunded"
      PROVE  Owed' = Owed
  BY <1>1, <1>3 DEF Owed, OwedStage
<1>4. ASSUME stage[o] \notin OwedStage, stage[o] # "refunded",
             s \in OwedStage \/ (s = "refunded" /\ credited[o] = 0)
      PROVE  Cardinality(Owed') = Cardinality(Owed) + 1
  <2>1. o \notin Owed /\ Owed' = Owed \cup {o}
    BY <1>1, <1>4 DEF Owed, OwedStage
  <2> QED BY <2>1, <1>2, FS_AddElement
<1>5. ASSUME stage[o] \in OwedStage, s \notin OwedStage, s # "refunded"
      PROVE  Cardinality(Owed') = Cardinality(Owed) - 1
  <2>1. o \in Owed /\ Owed' = Owed \ {o}
    BY <1>1, <1>5 DEF Owed, OwedStage
  <2> QED BY <2>1, <1>2, FS_RemoveElement
<1> QED BY <1>3, <1>4, <1>5

\* The counts Surplus relates are numbers.
LEMMA HeadroomType ==
  ASSUME StockInv
  PROVE  /\ stock \in Nat /\ recovery \in Nat /\ lockCount \in Nat /\ Target \in Nat
         /\ IsFiniteSet(Owed) /\ Cardinality(Owed) \in Nat
         /\ Surplus \in Int
<1>1. /\ stock \in Nat /\ recovery \in Nat /\ lockCount \in Nat /\ Target \in Nat
      /\ IsFiniteSet(Owed) /\ Cardinality(Owed) \in Nat
  BY OrdersFinite, TargetAssumption DEF StockInv, TypeOK, Owed
<1> QED BY <1>1 DEF Surplus

\* A join changes nothing in the surplus.
LEMMA SurplusJoin ==
  ASSUME StockInv, NEW o \in Joins,
         \/ QueryGroupBuyProgress(o) \/ OccupyTeamStock(o) \/ LockCommits(o)
         \/ LockFails(o) \/ RecoveryTeamStock(o) \/ SlotLeaks(o)
  PROVE  Surplus' = Surplus
<1>1. /\ o \in Orders /\ UNCHANGED credited
      /\ \A s \in {"checked", "occupied", "refused", "seated", "failed", "recovered",
                   "leaked"} : s \in OrderStage
  BY DEF Orders, OrderStage, QueryGroupBuyProgress, OccupyTeamStock, LockCommits,
     LockFails, RecoveryTeamStock, SlotLeaks, delivery
<1>2. CASE QueryGroupBuyProgress(o) \/ LockFails(o) \/ SlotLeaks(o)
  <2>1. Owed' = Owed
    <3>1. CASE QueryGroupBuyProgress(o)
      BY <3>1, <1>1, OwedMoves DEF QueryGroupBuyProgress, OwedStage
    <3>2. CASE LockFails(o)
      BY <3>2, <1>1, OwedMoves DEF LockFails, OwedStage
    <3>3. CASE SlotLeaks(o)
      <4>1. stage[o] \in OwedStage /\ "leaked" \in OwedStage
            /\ stage[o] # "refunded" /\ stage' = [stage EXCEPT ![o] = "leaked"]
        BY <3>3 DEF SlotLeaks, OwedStage
      <4> QED BY <4>1, <1>1, OwedMoves
    <3> QED BY <1>2, <3>1, <3>2, <3>3
  <2>2. UNCHANGED <<redis, lockCount>>
    BY <1>2 DEF QueryGroupBuyProgress, LockFails, SlotLeaks
  <2> QED BY <2>1, <2>2 DEF Surplus, redis
<1>3. CASE OccupyTeamStock(o)
  <2>1. stage[o] = "checked" /\ UNCHANGED <<recovery, lockCount>>
    BY <1>3 DEF OccupyTeamStock
  <2>2. CASE stock' = stock + 1 /\ stage' = [stage EXCEPT ![o] = "occupied"]
    <3>1. Cardinality(Owed') = Cardinality(Owed) + 1
      BY <2>1, <2>2, <1>1, OwedMoves DEF OwedStage
    <3> QED BY <3>1, <2>1, <2>2, HeadroomType DEF Surplus
  <2>3. CASE stock' = (stock + 1) - 1 /\ stage' = [stage EXCEPT ![o] = "refused"]
    <3>1. Owed' = Owed
      BY <2>1, <2>3, <1>1, OwedMoves DEF OwedStage
    <3>2. stock' = stock
      BY <2>3, HeadroomType
    <3> QED BY <3>1, <3>2, <2>1 DEF Surplus
  <2> QED BY <1>3, <2>2, <2>3 DEF OccupyTeamStock
<1>4. CASE LockCommits(o)
  <2>1. Cardinality(Owed') = Cardinality(Owed) - 1
    BY <1>1, <1>4, OwedMoves DEF LockCommits, OwedStage
  <2>2. lockCount' = lockCount + 1 /\ UNCHANGED <<stock, recovery>>
    BY <1>4 DEF LockCommits, redis
  <2> QED BY <2>1, <2>2, HeadroomType DEF Surplus
<1>5. CASE RecoveryTeamStock(o)
  <2>1. Cardinality(Owed') = Cardinality(Owed) - 1
    BY <1>1, <1>5, OwedMoves DEF RecoveryTeamStock, OwedStage
  <2>2. recovery' = recovery + 1 /\ UNCHANGED <<stock, lockCount>>
    BY <1>5 DEF RecoveryTeamStock
  <2> QED BY <2>1, <2>2, HeadroomType DEF Surplus
<1> QED BY <1>2, <1>3, <1>4, <1>5

\* A refund frees the seat and owes its slot.
LEMMA SurplusRefund ==
  ASSUME StockInv, NEW o \in Orders, Refund(o)
  PROVE  Surplus' = Surplus
<1>1. /\ stage[o] = "seated" /\ stage' = [stage EXCEPT ![o] = "refunded"]
      /\ lockCount' = lockCount - 1 /\ UNCHANGED <<stock, recovery, credited>>
      /\ "refunded" \in OrderStage
  BY DEF Refund, redis, OrderStage
<1>2. credited[o] = 0
  BY <1>1 DEF StockInv, RefundsOnly, TypeOK
<1>3. Cardinality(Owed') = Cardinality(Owed) + 1
  BY <1>1, <1>2, OwedMoves DEF OwedStage
<1> QED BY <1>1, <1>3, HeadroomType DEF Surplus

\* A credit of n slots pays what the refund owes if it is the first; the rest
\* is surplus.
LEMMA SurplusCredit ==
  ASSUME StockInv, NEW c \in Consumers, consumer[c].pc = "locked",
         NEW n \in {1, 2}, recovery' = recovery + n,
         credited' = [credited EXCEPT ![consumer[c].order] = @ + n],
         UNCHANGED <<stock, lockCount, stage>>
  PROVE  Surplus' = IF credited[consumer[c].order] = 0 THEN Surplus + n - 1
                                                       ELSE Surplus + n
<1> PICK o \in Orders : o = consumer[c].order /\ stage[o] = "refunded"
  BY Handling
<1>1. credited \in [Orders -> Nat]
  BY DEF StockInv, TypeOK
<1>2. \A x \in Orders : credited'[x] = IF x = o THEN credited[x] + n ELSE credited[x]
  BY <1>1
<1>3. credited'[o] # 0
  BY <1>1, <1>2
<1>4. CASE credited[o] = 0
  <2>1. o \in Owed /\ Owed' = Owed \ {o}
    BY <1>2, <1>3, <1>4 DEF Owed
  <2>2. Cardinality(Owed') = Cardinality(Owed) - 1
    BY <2>1, HeadroomType, FS_RemoveElement
  <2> QED BY <2>2, <1>4, HeadroomType DEF Surplus
<1>5. CASE credited[o] # 0
  <2>1. Owed' = Owed
    BY <1>2, <1>3, <1>5 DEF Owed
  <2> QED BY <2>1, <1>5, HeadroomType DEF Surplus
<1> QED BY <1>4, <1>5

\* Only an undue recovery is counted as one.
LEMMA UndueStep ==
  ASSUME [Next]_vars
  PROVE  Undue' = Undue \/ \E o \in Joins : RecoveryUndue(o)
<1>1. ASSUME UNCHANGED faults \/ \E f \in FaultKind \ {"undueRecovery"} : Fault(f)
      PROVE  Undue' = Undue
  BY <1>1 DEF Undue, Fault
<1>2. ASSUME NEW o \in Joins,
             \/ QueryGroupBuyProgress(o) \/ OccupyTeamStock(o) \/ LockCommits(o)
             \/ LockFails(o) \/ RecoveryTeamStock(o) \/ SlotLeaks(o)
      PROVE  Undue' = Undue
  BY <1>1, <1>2 DEF QueryGroupBuyProgress, OccupyTeamStock, LockCommits, LockFails,
     RecoveryTeamStock, SlotLeaks, FaultKind
<1>3. ASSUME NEW n \in slots, SlotExpires(n)
      PROVE  Undue' = Undue
  BY <1>1, <1>3 DEF SlotExpires
<1>4. ASSUME NEW o \in Orders,
             \/ Refund(o) \/ Publish(o) \/ PublishSkipped(o)
             \/ PublishLost(o) \/ NotifyGivenUp(o)
             \/ \E c \in Consumers : Deliver(c, o)
      PROVE  Undue' = Undue
  BY <1>1, <1>4 DEF Refund, Publish, PublishSkipped, PublishLost, NotifyGivenUp,
     Deliver, FaultKind
<1>5. ASSUME NEW c \in Consumers,
             \/ SetRefundLock(c) \/ SetRefundLockFails(c) \/ LockReplyLost(c)
             \/ IncrRecovery(c) \/ IncrRecoveryFails(c) \/ DelFails(c) \/ ReplyLost(c)
             \/ ConsumerCrash(c) \/ ConnectionLost(c) \/ Restart(c)
             \/ StartWithoutMQ(c)
      PROVE  Undue' = Undue
  BY <1>1, <1>5 DEF SetRefundLock, SetRefundLockFails, LockReplyLost, IncrRecovery,
     IncrRecoveryFails, DelFails, ReplyLost, ConsumerCrash, ConnectionLost, Restart,
     StartWithoutMQ, FaultKind
<1>6. CASE UNCHANGED vars
  BY <1>1, <1>6 DEF vars
<1> QED BY <1>2, <1>3, <1>4, <1>5, <1>6 DEF Next

\* What a step does to the surplus: nothing, unless a slot is given back twice.
LEMMA SurplusStep ==
  ASSUME StockInv, [Next]_vars
  PROVE  \/ Surplus' = Surplus /\ Undue' = Undue
         \/ Surplus' = Surplus + 1 /\ Undue = 0 /\ Undue' = 1
         \/ /\ Surplus' \in Int /\ Surplus <= Surplus'
            /\ \/ Fault("replyLost")
               \/ Excused # 0
<1>0. Surplus \in Int
  BY HeadroomType
<1>1. ASSUME UNCHANGED <<stock, recovery, lockCount, stage, credited>>
      PROVE  Surplus' = Surplus
  BY <1>1 DEF Surplus, Owed
<1>2. ASSUME NEW o \in Joins,
             \/ QueryGroupBuyProgress(o) \/ OccupyTeamStock(o) \/ LockCommits(o)
             \/ LockFails(o) \/ RecoveryTeamStock(o) \/ SlotLeaks(o)
      PROVE  Surplus' = Surplus
  BY <1>2, SurplusJoin
<1>3. ASSUME NEW n \in slots, SlotExpires(n)
      PROVE  Surplus' = Surplus
  BY <1>1, <1>3 DEF SlotExpires, delivery
<1>4. ASSUME NEW o \in Orders,
             \/ Refund(o) \/ Publish(o) \/ PublishSkipped(o)
             \/ PublishLost(o) \/ NotifyGivenUp(o)
             \/ \E c \in Consumers : Deliver(c, o)
      PROVE  Surplus' = Surplus
  BY <1>1, <1>4, SurplusRefund DEF Publish, PublishSkipped, PublishLost,
     NotifyGivenUp, Deliver, redis
<1>5. ASSUME NEW c \in Consumers,
             \/ SetRefundLock(c) \/ SetRefundLockFails(c) \/ LockReplyLost(c)
             \/ IncrRecoveryFails(c) \/ DelFails(c)
             \/ ConsumerCrash(c) \/ ConnectionLost(c) \/ Restart(c)
             \/ StartWithoutMQ(c)
      PROVE  Surplus' = Surplus
  <2>1. UNCHANGED <<redis, lockCount, stage, credited>>
    BY <1>5 DEF SetRefundLock, SetRefundLockFails, LockReplyLost, IncrRecoveryFails,
       DelFails, ConsumerCrash, ConnectionLost, Restart, StartWithoutMQ
  <2> QED BY <2>1, <1>1 DEF redis
<1>6. ASSUME NEW c \in Consumers, IncrRecovery(c)
      PROVE  \/ Surplus' = Surplus
             \/ Surplus' \in Int /\ Surplus <= Surplus' /\ Excused # 0
  <2>1. Surplus' = IF credited[consumer[c].order] = 0 THEN Surplus + 1 - 1
                                                      ELSE Surplus + 1
    BY <1>6, SurplusCredit DEF IncrRecovery
  <2>2. credited[consumer[c].order] = 0 \/ Excused # 0
    <3> PICK o \in Orders : o = consumer[c].order
      BY <1>6, Handling DEF IncrRecovery
    <3>1. credited[o] \in Nat /\ credited[o] <= 1 + Excused /\ credited[o] # 1 + Excused
      BY <1>6 DEF IncrRecovery, StockInv, TypeOK, LockGuardsCredit
    <3> QED BY <3>1
  <2> QED BY <2>1, <2>2, <1>0
<1>7. ASSUME NEW c \in Consumers, ReplyLost(c)
      PROVE  Surplus' \in Int /\ Surplus <= Surplus' /\ Fault("replyLost")
  <2>1. PICK n \in {1, 2} :
          /\ recovery' = recovery + n
          /\ credited' = [credited EXCEPT ![consumer[c].order] = @ + n]
    BY <1>7 DEF ReplyLost
  <2>2. /\ consumer[c].pc = "locked" /\ UNCHANGED <<stock, lockCount, stage>>
        /\ Fault("replyLost")
    BY <1>7 DEF ReplyLost
  <2>3. Surplus' = IF credited[consumer[c].order] = 0 THEN Surplus + n - 1
                                                      ELSE Surplus + n
    BY <2>1, <2>2, SurplusCredit
  <2> QED BY <2>2, <2>3, <1>0
<1>8. ASSUME NEW o \in Joins, RecoveryUndue(o)
      PROVE  Surplus' = Surplus + 1 /\ Undue = 0 /\ Undue' = 1
  <2>1. /\ recovery' = recovery + 1 /\ Fault("undueRecovery")
        /\ UNCHANGED <<stock, lockCount, stage, credited>>
    BY <1>8 DEF RecoveryUndue, delivery
  <2>2. Owed' = Owed
    BY <2>1 DEF Owed
  <2>3. Undue = 0 /\ Undue' = 1
    BY <2>1 DEF Fault, Undue
  <2> QED BY <2>1, <2>2, <2>3, HeadroomType DEF Surplus
<1>9. CASE UNCHANGED vars
  BY <1>1, <1>9 DEF vars, Undue
<1> QED BY <1>2, <1>3, <1>4, <1>5, <1>6, <1>7, <1>8, <1>9, UndueStep DEF Next

\* After the opening of the team nothing is owed.
LEMMA SurplusInit == Init => Surplus = 0
<1> SUFFICES ASSUME Init PROVE Surplus = 0
  OBVIOUS
<1>1. Owed = {}
  BY DEF Init, Owed
<1>2. Cardinality(Owed) = 0
  BY <1>1, FS_EmptySet
<1> QED BY <1>2, TargetAssumption DEF Init, Surplus

\* Whatever fails, Redis never has fewer slots to give away than it should:
\* what it withholds is owed.
LEMMA NothingWithheld == Spec => [](StockInv /\ Surplus >= 0)
<1>1. Init => StockInv /\ Surplus >= 0
  BY StockInit, SurplusInit
<1>2. StockInv /\ Surplus >= 0 /\ [Next]_vars => (StockInv /\ Surplus >= 0)'
  <2> SUFFICES ASSUME StockInv, Surplus >= 0, [Next]_vars
               PROVE  StockInv' /\ Surplus' >= 0
    OBVIOUS
  <2>1. Surplus \in Int
    BY HeadroomType
  <2>2. Surplus' >= 0
    BY <2>1, SurplusStep
  <2> QED BY <2>2, StockNext
<1> QED BY <1>1, <1>2, PTL DEF Spec

\* Without a lost reply of the credit the surplus is the undue recovery.
LEMMA HeadroomInvariance ==
  ASSUME "replyLost" \notin Faults
  PROVE  Spec => [](StockInv /\ Surplus = Undue)
<1>1. Init => StockInv /\ Surplus = Undue
  BY StockInit, SurplusInit DEF Init, Undue
<1>2. StockInv /\ Surplus = Undue /\ [Next]_vars => (StockInv /\ Surplus = Undue)'
  <2> SUFFICES ASSUME StockInv, Surplus = Undue, [Next]_vars
               PROVE  StockInv' /\ Surplus' = Undue'
    OBVIOUS
  <2>1. Excused = 0
    BY DEF StockInv, TypeOK, Excused
  <2>2. ~ Fault("replyLost")
    BY DEF Fault
  <2>3. Surplus' = Undue'
    BY <2>1, <2>2, SurplusStep
  <2> QED BY <2>3, StockNext
<1> QED BY <1>1, <1>2, PTL DEF Spec

\* Redis and MySQL agree up to the slots that are owed (HeadroomExact), through
\* leaked slots, commits whose reply is lost, crashes, failed commands and lost
\* connections and messages; the hypothesis leaves out a lost reply of the
\* INCR that credits a refund.
THEOREM HeadroomCorrect ==
  ASSUME "replyLost" \notin Faults
  PROVE  Spec => []HeadroomExact
<1>1. Surplus = Undue => HeadroomExact
  BY DEF HeadroomExact, Excused, Undue
<1> QED BY <1>1, HeadroomInvariance, PTL

\* The script admits a join whenever fewer slots are owed than seats are free
\* (FreeSeatIsAdmitted), whatever failed: no lock key is left on the next
\* number.
THEOREM FreeSeatCorrect == Spec => []FreeSeatIsAdmitted
<1>1. StockInv /\ Surplus >= 0 => FreeSeatIsAdmitted
  <2> SUFFICES ASSUME StockInv, Surplus >= 0, Cardinality(Owed) <= Target - lockCount
               PROVE  HasSlot(stock + 1)
    BY DEF FreeSeatIsAdmitted
  <2>1. stock + 1 <= Target + recovery
    BY HeadroomType DEF Surplus
  <2>2. stock + 1 \notin slots
    BY HeadroomType DEF StockInv, SlotsTaken
  <2> QED BY <2>1, <2>2 DEF HasSlot
<1> QED BY <1>1, NothingWithheld, PTL

\* At most one join more than there are free seats is between its slot and its
\* transaction, and one for an undue recovery (StockShieldsMySQL), for any
\* number of concurrent joins.
THEOREM ShieldCorrect ==
  ASSUME "replyLost" \notin Faults
  PROVE  Spec => []StockShieldsMySQL
<1>1. StockInv /\ Surplus = Undue => StockShieldsMySQL
  <2> SUFFICES ASSUME StockInv, Surplus = Undue PROVE StockShieldsMySQL
    OBVIOUS
  <2> DEFINE S == {o \in Orders : stage[o] = "occupied"}
  <2>1. S \subseteq Owed
    BY DEF Owed
  <2>2. Cardinality(S) <= Cardinality(Owed) /\ Cardinality(S) \in Nat
    BY <2>1, HeadroomType, FS_Subset, OrdersFinite
  <2> HIDE DEF S
  <2>3. stock <= Target + recovery
    BY DEF StockInv, SlotsTaken
  <2>4. Excused \in Nat /\ Undue \in Nat
    BY DEF Excused, Undue
  <2>5. Cardinality(S) <= Target - lockCount + 1 + Excused + Undue
    BY <2>2, <2>3, <2>4, HeadroomType DEF Surplus
  <2> QED BY <2>5 DEF S, StockShieldsMySQL
<1> QED BY <1>1, HeadroomInvariance, PTL

-----------------------------------------------------------------------------
(* The ledger of the trade core                                            *)

Refunded == {o \in Orders : stage[o] = "refunded"}

\* The ledger counts as this module does.
LEMMA StockLedgerCounts == \A S : Ledger!Cardinality(S) = Cardinality(S)
BY DEF Ledger!Cardinality, Cardinality, Ledger!IsFiniteSet, IsFiniteSet

\* The commit of a join is the ledger's Seat.
LEMMA CommitIsSeat ==
  ASSUME StockInv, NEW o \in Orders, LockCommits(o)
  PROVE  Ledger!Seat("team", o)
<1>1. /\ stage[o] = "occupied" /\ lockCount < Target /\ lockCount' = lockCount + 1
      /\ \A x \in Orders : stage'[x] = IF x = o THEN "seated" ELSE stage[x]
  BY DEF LockCommits, StockInv, TypeOK
<1>2. /\ o \notin Seated /\ o \notin Refunded
      /\ Seated' = Seated \cup {o} /\ Refunded' = Refunded
  BY <1>1 DEF Seated, Refunded
<1>3. Cardinality(Seated) < Target
  BY <1>1 DEF StockInv, SeatsCounted, Seated
<1> QED BY <1>1, <1>2, <1>3, StockLedgerCounts DEF Ledger!Seat, Seated, Refunded

\* The refund transaction is the ledger's GiveBack.
LEMMA RefundIsGiveBack ==
  ASSUME StockInv, NEW o \in Orders, Refund(o)
  PROVE  Ledger!GiveBack("team", o)
<1>1. /\ stage[o] = "seated" /\ lockCount' = lockCount - 1
      /\ \A x \in Orders : stage'[x] = IF x = o THEN "refunded" ELSE stage[x]
  BY DEF Refund, StockInv, TypeOK
<1>2. /\ o \in Seated /\ Seated' = Seated \ {o}
      /\ Refunded' = Refunded \cup {o}
  BY <1>1 DEF Seated, Refunded
<1> QED BY <1>1, <1>2 DEF Ledger!GiveBack, Seated, Refunded

\* A step that leaves the seats and the refunds alone is a stutter of the
\* ledger.
LEMMA LedgerStutter ==
  ASSUME lockCount' = lockCount, Seated' = Seated, Refunded' = Refunded
  PROVE  UNCHANGED Ledger!vars
BY DEF Ledger!vars, Seated, Refunded

\* Every step is a step of the ledger or a stutter.
LEMMA StockLedgerNext ==
  StockInv /\ [Next]_vars => Ledger!Next \/ UNCHANGED Ledger!vars
<1> SUFFICES ASSUME StockInv, [Next]_vars
             PROVE  Ledger!Next \/ UNCHANGED Ledger!vars
  OBVIOUS
<1>1. ASSUME UNCHANGED <<lockCount, stage>>
      PROVE  UNCHANGED Ledger!vars
  BY <1>1, LedgerStutter DEF Seated, Refunded
<1>2. ASSUME NEW o \in Joins,
             \/ QueryGroupBuyProgress(o) \/ OccupyTeamStock(o) \/ LockFails(o)
             \/ RecoveryTeamStock(o) \/ SlotLeaks(o)
      PROVE  UNCHANGED Ledger!vars
  <2>1. PICK s \in OrderStage \ {"seated", "refunded"} :
          stage' = [stage EXCEPT ![o] = s]
    BY <1>2 DEF QueryGroupBuyProgress, OccupyTeamStock, LockFails,
       RecoveryTeamStock, SlotLeaks, OrderStage
  <2>2. stage[o] \notin {"seated", "refunded"} /\ lockCount' = lockCount
        /\ o \in Orders
    BY <1>2 DEF QueryGroupBuyProgress, OccupyTeamStock, LockFails,
       RecoveryTeamStock, SlotLeaks, Orders
  <2>3. \A x \in Orders : stage'[x] = IF x = o THEN s ELSE stage[x]
    BY <2>1, <2>2 DEF StockInv, TypeOK
  <2>4. Seated' = Seated /\ Refunded' = Refunded
    BY <2>2, <2>3 DEF Seated, Refunded
  <2> QED BY <2>2, <2>4, LedgerStutter
<1>3. ASSUME NEW o \in Joins, LockCommits(o)
      PROVE  Ledger!Next
  BY <1>3, CommitIsSeat DEF Ledger!Next, Orders
<1>4. ASSUME \/ \E n \in slots : SlotExpires(n)
             \/ \E o \in Joins : RecoveryUndue(o)
      PROVE  UNCHANGED Ledger!vars
  BY <1>1, <1>4 DEF SlotExpires, RecoveryUndue
<1>5. ASSUME NEW o \in Orders, Refund(o)
      PROVE  Ledger!Next
  BY <1>5, RefundIsGiveBack DEF Ledger!Next
<1>6. ASSUME NEW o \in Orders,
             \/ Publish(o) \/ PublishSkipped(o)
             \/ PublishLost(o) \/ NotifyGivenUp(o)
             \/ \E c \in Consumers : Deliver(c, o)
      PROVE  UNCHANGED Ledger!vars
  BY <1>1, <1>6 DEF Publish, PublishSkipped, PublishLost, NotifyGivenUp, Deliver
<1>7. ASSUME NEW c \in Consumers,
             \/ SetRefundLock(c) \/ SetRefundLockFails(c) \/ LockReplyLost(c)
             \/ IncrRecovery(c) \/ IncrRecoveryFails(c) \/ DelFails(c) \/ ReplyLost(c)
             \/ ConsumerCrash(c) \/ ConnectionLost(c) \/ Restart(c)
             \/ StartWithoutMQ(c)
      PROVE  UNCHANGED Ledger!vars
  <2>1. UNCHANGED <<lockCount, stage>>
    BY <1>7 DEF SetRefundLock, SetRefundLockFails, LockReplyLost, IncrRecovery,
       IncrRecoveryFails, DelFails, ReplyLost, ConsumerCrash, ConnectionLost, Restart, StartWithoutMQ
  <2> QED BY <2>1, <1>1
<1>8. CASE UNCHANGED vars
  BY <1>1, <1>8 DEF vars
<1> QED BY <1>2, <1>3, <1>4, <1>5, <1>6, <1>7, <1>8 DEF Next

\* What joins and refunds do to MySQL in this module are steps of the ledger
\* GroupBuyTrade implements (TakesLedgerSteps), so that the agreement of Redis
\* and MySQL is about the tables as LockMarketPayOrder and the refund
\* transactions change them.
THEOREM LedgerStepsTaken == Spec => TakesLedgerSteps
<1>1. StockInv /\ [Next]_vars
        => [Ledger!vars' # Ledger!vars /\ Ledger!Next]_(Ledger!vars)
  BY StockLedgerNext
<1> QED BY <1>1, StockInvariance, PTL DEF Spec, TakesLedgerSteps, Ledger!Steps
=============================================================================
