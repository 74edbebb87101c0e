------------------------------ MODULE TeamStock ------------------------------
(***************************************************************************)
(* The Redis stock of one team and its agreement with MySQL.               *)
(*                                                                         *)
(* A join takes a slot in Redis before its transaction and gives it back   *)
(* when the transaction fails.  A refund gives the seat back in MySQL at   *)
(* once, and in Redis later: the refund transaction writes a notification, *)
(* the notification is published to RabbitMQ, and a consumer that holds    *)
(* the order's refund_lock increments the recovery counter.  The message   *)
(* may be published and delivered more than once.  Each consumer is the    *)
(* only one of its process and shares the process's AMQP connection with   *)
(* the publisher; a connection that is lost comes back with a restart.     *)
(*                                                                         *)
(* MySQL appears only through lock_count (module GroupBuyTrade has the     *)
(* tables) and the notification only through "still to be published"       *)
(* (module NotifyTask has its state machine).  The member who opened the   *)
(* team never took a slot, but his refund gives one back.                  *)
(***************************************************************************)
EXTENDS Integers, FiniteSets

CONSTANTS
  Joins,      \* lock requests that name the team, one order each
  Opener,     \* the order that opened the team
  Consumers,  \* processes, each with one goroutine on the refund queue
  Nil,        \* a consumer without a message
  Target,     \* target_count
  MaxCopies,  \* bound: copies of one refund message in the queue
  Faults,     \* the failures without a retry that may happen, each once
  MaxFaults   \* bound: how many of them

FaultKind == {"leak", "undueRecovery", "lockReplyLost", "replyLost", "delFails",
              "consumerCrash", "connectionLost", "mqDown", "publishLost", "givenUp"}

ASSUME TargetAssumption    == Target \in Nat \ {0}
ASSUME MaxCopiesAssumption == MaxCopies \in Nat \ {0}
ASSUME FaultsAssumption    == Faults \subseteq FaultKind /\ MaxFaults \in Nat
ASSUME OrdersAssumption    == Opener \notin Joins /\ Nil \notin Joins \cup {Opener}
ASSUME JoinsAssumption     == IsFiniteSet(Joins)

Orders == Joins \cup {Opener}

VARIABLES
  stock,       \* teamStockKey: slots ever taken
  recovery,    \* recoveryTeamStockKey: slots given back
  slots,       \* the slot numbers whose lock key exists
  lockCount,   \* lock_count of the team in MySQL
  stage,       \* where each order stands
  outbox,      \* orders whose refund notification is not marked as sent
  queue,       \* copies of each refund message waiting in RabbitMQ
  refundLock,  \* orders whose refund_lock key exists
  credited,    \* ghost: how often the refund of each order was credited
  consumer,    \* what each consumer is doing
  conn,        \* the AMQP connection of its process
  faults       \* ghost: the failures without a retry so far

vars == <<stock, recovery, slots, lockCount, stage, outbox, queue, refundLock,
          credited, consumer, conn, faults>>

redis    == <<stock, recovery, slots>>
delivery == <<outbox, queue, refundLock, credited, consumer, conn>>

OrderStage == {"new", "checked", "refused", "occupied", "failed", "recovered",
               "leaked", "seated", "refunded"}

ConsumerState == [pc: {"idle", "received", "locked"}, order: Orders \cup {Nil}]
IdleConsumer  == [pc |-> "idle", order |-> Nil]

\* up; lost while the process runs; none, because it started without RabbitMQ
Connection == {"up", "lost", "none"}

\* The team has just been opened: one seat is taken, Redis has no key of it.
Init ==
  /\ stock = 0
  /\ recovery = 0
  /\ slots = {}
  /\ lockCount = 1
  /\ stage = [o \in Orders |-> IF o = Opener THEN "seated" ELSE "new"]
  /\ outbox = {}
  /\ queue = [o \in Orders |-> 0]
  /\ refundLock = {}
  /\ credited = [o \in Orders |-> 0]
  /\ consumer = [c \in Consumers |-> IdleConsumer]
  /\ conn = [c \in Consumers |-> "up"]
  /\ faults = {}

\* A failure of kind f happens.
Fault(f) ==
  /\ f \in Faults \ faults
  /\ Cardinality(faults) < MaxFaults
  /\ faults' = faults \cup {f}

-----------------------------------------------------------------------------
(* Joining the team                                                        *)

\* The application service refuses a team that is full when it looks (E0006).
QueryGroupBuyProgress(o) ==
  /\ stage[o] = "new"
  /\ lockCount # Target
  /\ stage' = [stage EXCEPT ![o] = "checked"]
  /\ UNCHANGED <<redis, lockCount, delivery, faults>>

\* Mutants: off by one, in either direction.
HasSlotBelow(occupy) == occupy < Target + recovery /\ occupy \notin slots
HasSlotAbove(occupy) == occupy <= Target + recovery + 1 /\ occupy \notin slots

\* What the script returns for the number INCR gave: 1 when there is a slot.
HasSlot(occupy) == occupy <= Target + recovery /\ occupy \notin slots

\* The script: INCR; without a slot DECR, otherwise set the slot's lock key.
OccupyTeamStock(o) ==
  /\ stage[o] = "checked"
  /\ LET occupy == stock + 1
     IN  \/ /\ HasSlot(occupy)
            /\ stock' = occupy
            /\ slots' = slots \cup {occupy}
            /\ stage' = [stage EXCEPT ![o] = "occupied"]
         \/ /\ ~ HasSlot(occupy)
            /\ stock' = occupy - 1
            /\ stage' = [stage EXCEPT ![o] = "refused"]
            /\ UNCHANGED slots
  /\ UNCHANGED <<recovery, lockCount, delivery, faults>>

\* The lock transaction commits: lock_count < target_count in its WHERE.
LockCommits(o) ==
  /\ stage[o] = "occupied"
  /\ lockCount < Target
  /\ lockCount' = lockCount + 1
  /\ stage' = [stage EXCEPT ![o] = "seated"]
  /\ UNCHANGED <<redis, delivery, faults>>

\* The lock transaction rolls back: the team is full, or any other error.  (A
\* commit whose reply is lost is LockCommits followed by RecoveryUndue.)
LockFails(o) ==
  /\ stage[o] = "occupied"
  /\ stage' = [stage EXCEPT ![o] = "failed"]
  /\ UNCHANGED <<redis, lockCount, delivery, faults>>

\* Mutant: the failed join keeps its slot.
RecoveryForgotten(o) ==
  /\ stage[o] = "failed"
  /\ stage' = [stage EXCEPT ![o] = "recovered"]
  /\ UNCHANGED <<redis, lockCount, delivery, faults>>

\* The service gives the slot back through the recovery counter.
RecoveryTeamStock(o) ==
  /\ stage[o] = "failed"
  /\ recovery' = recovery + 1
  /\ stage' = [stage EXCEPT ![o] = "recovered"]
  /\ UNCHANGED <<stock, slots, lockCount, delivery, faults>>

\* A slot is given back that must not be: the transaction committed and only
\* the reply to the commit was lost, so that the service sees an error, or the
\* client repeats an INCR of RecoveryTeamStock whose reply was lost.
RecoveryUndue(o) ==
  /\ Fault("undueRecovery")
  /\ stage[o] \in {"seated", "refunded", "recovered"}
  /\ recovery' = recovery + 1
  /\ UNCHANGED <<stock, slots, lockCount, stage, delivery>>

\* The slot is never given back: the process died holding it, the INCR of
\* RecoveryTeamStock failed (its error is dropped), or the script ran and its
\* reply was lost.  (A script the client then repeats with success is a join
\* of its own that leaks its slot, next to the one that goes on.)
SlotLeaks(o) ==
  /\ Fault("leak")
  /\ stage[o] \in {"occupied", "failed"}
  /\ stage' = [stage EXCEPT ![o] = "leaked"]
  /\ UNCHANGED <<redis, lockCount, delivery>>

\* A slot's lock key expires (valid_time + 60 minutes).
SlotExpires(n) ==
  /\ n \in slots
  /\ slots' = slots \ {n}
  /\ UNCHANGED <<stock, recovery, lockCount, stage, delivery, faults>>

-----------------------------------------------------------------------------
(* Refunding: MySQL at once, Redis through the message                     *)

\* Mutant: a refunded order is refunded again.
RefundAgain(o) ==
  /\ stage[o] \in {"seated", "refunded"}
  /\ lockCount' = lockCount - 1
  /\ stage' = [stage EXCEPT ![o] = "refunded"]
  /\ outbox' = outbox \cup {o}
  /\ UNCHANGED <<redis, queue, refundLock, credited, consumer, conn, faults>>

\* The refund transaction: the seat is free and the notification written.
Refund(o) ==
  /\ stage[o] = "seated"
  /\ lockCount' = lockCount - 1
  /\ stage' = [stage EXCEPT ![o] = "refunded"]
  /\ outbox' = outbox \cup {o}
  /\ UNCHANGED <<redis, queue, refundLock, credited, consumer, conn, faults>>

Connected == \E c \in Consumers : conn[c] = "up"

\* The notification is published by a process that is connected (one that lost
\* its connection gets an error and the task is tried again); it stays in the
\* outbox when the process dies before the task is marked.
Publish(o) ==
  /\ o \in outbox
  /\ Connected
  /\ queue[o] < MaxCopies
  /\ queue' = [queue EXCEPT ![o] = @ + 1]
  /\ outbox' \in {outbox, outbox \ {o}}
  /\ UNCHANGED <<redis, lockCount, stage, refundLock, credited, consumer, conn, faults>>

\* Without a RabbitMQ client Publish logs the message and reports success.
PublishSkipped(o) ==
  /\ o \in outbox
  /\ \E c \in Consumers : conn[c] = "none"
  /\ outbox' = outbox \ {o}
  /\ UNCHANGED <<redis, lockCount, stage, queue, refundLock, credited, consumer,
                 conn, faults>>

\* Publish waits for no confirmation: the message it reported as sent never
\* reaches the queue, and the task is marked.
PublishLost(o) ==
  /\ Fault("publishLost")
  /\ o \in outbox
  /\ Connected
  /\ outbox' = outbox \ {o}
  /\ UNCHANGED <<redis, lockCount, stage, queue, refundLock, credited, consumer, conn>>

\* The task's state machine ends it as failed (module NotifyTask shows how).
NotifyGivenUp(o) ==
  /\ Fault("givenUp")
  /\ o \in outbox
  /\ outbox' = outbox \ {o}
  /\ UNCHANGED <<redis, lockCount, stage, queue, refundLock, credited, consumer, conn>>

\* A consumer takes a message; it is in no queue until it is acknowledged.
Deliver(c, o) ==
  /\ consumer[c].pc = "idle"
  /\ conn[c] = "up"
  /\ queue[o] > 0
  /\ queue' = [queue EXCEPT ![o] = @ - 1]
  /\ consumer' = [consumer EXCEPT ![c] = [pc |-> "received", order |-> o]]
  /\ UNCHANGED <<redis, lockCount, stage, outbox, refundLock, credited, conn, faults>>

Ack(c) == consumer' = [consumer EXCEPT ![c] = IdleConsumer] /\ UNCHANGED queue

\* The broker takes an unacknowledged message back; one that was handed out
\* over a lost connection it has taken back already.
Requeue(c) ==
  queue' = IF conn[c] = "up" THEN [queue EXCEPT ![consumer[c].order] = @ + 1] ELSE queue

\* Mutant: Nack without requeue.
NackDrops(c) == consumer' = [consumer EXCEPT ![c] = IdleConsumer] /\ UNCHANGED queue

\* Nack with requeue; its error is dropped when the connection is gone.
Nack(c) == consumer' = [consumer EXCEPT ![c] = IdleConsumer] /\ Requeue(c)

\* Refund2AddRecovery, first command: SETNX refund_lock.
SetRefundLock(c) ==
  /\ consumer[c].pc = "received"
  /\ LET o == consumer[c].order
     IN  \/ /\ o \notin refundLock
            /\ refundLock' = refundLock \cup {o}
            /\ consumer' = [consumer EXCEPT ![c].pc = "locked"]
            /\ UNCHANGED queue
         \/ /\ o \in refundLock     \* someone else credits it: skip
            /\ Ack(c)
            /\ UNCHANGED refundLock
  /\ UNCHANGED <<redis, lockCount, stage, outbox, credited, conn, faults>>

\* SETNX returns an error before it had an effect.
SetRefundLockFails(c) ==
  /\ consumer[c].pc = "received"
  /\ Nack(c)
  /\ UNCHANGED <<redis, lockCount, stage, outbox, refundLock, credited, conn, faults>>

\* SETNX took effect but its reply was lost: an error for the handler, or
\* "someone else has it" once the client repeats the command.
LockReplyLost(c) ==
  /\ Fault("lockReplyLost")
  /\ consumer[c].pc = "received"
  /\ refundLock' = refundLock \cup {consumer[c].order}
  /\ Nack(c) \/ Ack(c)
  /\ UNCHANGED <<redis, lockCount, stage, outbox, credited, conn>>

\* Mutant: the lock is released after the INCR.
IncrRecoveryUnlocks(c) ==
  /\ consumer[c].pc = "locked"
  /\ recovery' = recovery + 1
  /\ credited' = [credited EXCEPT ![consumer[c].order] = @ + 1]
  /\ refundLock' = refundLock \ {consumer[c].order}
  /\ Ack(c)
  /\ UNCHANGED <<stock, slots, lockCount, stage, outbox, conn, faults>>

\* Second command: INCR the recovery counter; the message is acknowledged.
IncrRecovery(c) ==
  /\ consumer[c].pc = "locked"
  /\ recovery' = recovery + 1
  /\ credited' = [credited EXCEPT ![consumer[c].order] = @ + 1]
  /\ Ack(c)
  /\ UNCHANGED <<stock, slots, lockCount, stage, outbox, refundLock, conn, faults>>

\* INCR fails: the lock is deleted and the message comes again.
IncrRecoveryFails(c) ==
  /\ consumer[c].pc = "locked"
  /\ refundLock' = refundLock \ {consumer[c].order}
  /\ Nack(c)
  /\ UNCHANGED <<redis, lockCount, stage, outbox, credited, conn, faults>>

\* INCR fails and so does the DEL, whose error is dropped.
DelFails(c) ==
  /\ Fault("delFails")
  /\ consumer[c].pc = "locked"
  /\ Nack(c)
  /\ UNCHANGED <<redis, lockCount, stage, outbox, refundLock, credited, conn>>

\* INCR took effect but its reply was lost: treated as a failed INCR, or
\* repeated by the client with success.
ReplyLost(c) ==
  /\ Fault("replyLost")
  /\ consumer[c].pc = "locked"
  /\ LET o == consumer[c].order
     IN  \/ /\ recovery' = recovery + 1
            /\ credited' = [credited EXCEPT ![o] = @ + 1]
            /\ refundLock' = refundLock \ {o}
            /\ Nack(c)
         \/ /\ recovery' = recovery + 2
            /\ credited' = [credited EXCEPT ![o] = @ + 2]
            /\ Ack(c)
            /\ UNCHANGED refundLock
  /\ UNCHANGED <<stock, slots, lockCount, stage, outbox, conn>>

\* The consumer's process dies and is started again; RabbitMQ delivers the
\* message again.
ConsumerCrash(c) ==
  /\ Fault("consumerCrash")
  /\ consumer[c].pc # "idle"
  /\ Nack(c)
  /\ conn' = [conn EXCEPT ![c] = "up"]
  /\ UNCHANGED <<redis, lockCount, stage, outbox, refundLock, credited>>

-----------------------------------------------------------------------------
(* The AMQP connection                                                     *)

\* The connection breaks: the delivery channel is closed and the consumer's
\* loop ends after the handler that is running; the broker takes its message
\* back at once.
ConnectionLost(c) ==
  /\ Fault("connectionLost")
  /\ conn[c] = "up"
  /\ conn' = [conn EXCEPT ![c] = "lost"]
  /\ queue' = IF consumer[c].pc = "idle" THEN queue
              ELSE [queue EXCEPT ![consumer[c].order] = @ + 1]
  /\ UNCHANGED <<redis, lockCount, stage, outbox, refundLock, credited, consumer>>

\* The process is restarted: NewClient dials, declares the queues and the
\* consumers start.
Restart(c) ==
  /\ consumer[c].pc = "idle"
  /\ conn[c] # "up"
  /\ conn' = [conn EXCEPT ![c] = "up"]
  /\ UNCHANGED <<redis, lockCount, stage, outbox, queue, refundLock, credited,
                 consumer, faults>>

\* The process is restarted while RabbitMQ does not answer: it runs without a
\* client.
StartWithoutMQ(c) ==
  /\ Fault("mqDown")
  /\ consumer[c].pc = "idle"
  /\ conn' = [conn EXCEPT ![c] = "none"]
  /\ UNCHANGED <<redis, lockCount, stage, outbox, queue, refundLock, credited, consumer>>

-----------------------------------------------------------------------------
Next ==
  \/ \E o \in Joins :
       \/ QueryGroupBuyProgress(o)
       \/ OccupyTeamStock(o)
       \/ LockCommits(o)
       \/ LockFails(o)
       \/ RecoveryTeamStock(o)
       \/ RecoveryUndue(o)
       \/ SlotLeaks(o)
  \/ \E n \in slots : SlotExpires(n)
  \/ \E o \in Orders :
       \/ Refund(o)
       \/ Publish(o)
       \/ PublishSkipped(o)
       \/ PublishLost(o)
       \/ NotifyGivenUp(o)
       \/ \E c \in Consumers : Deliver(c, o)
  \/ \E c \in Consumers :
       \/ SetRefundLock(c)
       \/ SetRefundLockFails(c)
       \/ LockReplyLost(c)
       \/ IncrRecovery(c)
       \/ IncrRecoveryFails(c)
       \/ DelFails(c)
       \/ ReplyLost(c)
       \/ ConsumerCrash(c)
       \/ ConnectionLost(c)
       \/ Restart(c)
       \/ StartWithoutMQ(c)

Spec == Init /\ [][Next]_vars

\* The notify job keeps publishing what is in the outbox, RabbitMQ delivers
\* every queued message, a handler runs to its end, and Redis does not fail
\* the same command for ever.  Nothing in the code restarts a process that has
\* lost its connection, so Restart is not fair.
FairSpec ==
  /\ Spec
  /\ \A c \in Consumers : /\ WF_vars(SetRefundLock(c) \/ SetRefundLockFails(c))
                          /\ WF_vars(IncrRecovery(c) \/ IncrRecoveryFails(c))
  /\ \A o \in Orders :
       /\ WF_vars(Publish(o))
       /\ SF_vars(\E c \in Consumers : Deliver(c, o))
       /\ SF_vars(\E c \in Consumers : consumer[c].order = o /\ SetRefundLock(c))
       /\ SF_vars(\E c \in Consumers : consumer[c].order = o /\ IncrRecovery(c))

-----------------------------------------------------------------------------
(* Properties                                                              *)

\* Slots that Redis still counts as taken although MySQL has no order on the
\* seat: joins on their way, slots lost, refunds not credited yet.
Owed ==
  {o \in Orders : \/ stage[o] \in {"occupied", "failed", "leaked"}
                  \/ stage[o] = "refunded" /\ credited[o] = 0}

\* The lost replies that let a slot be given back twice.
Excused == IF "replyLost" \in faults THEN 1 ELSE 0
Undue   == IF "undueRecovery" \in faults THEN 1 ELSE 0

\* Every variable has the shape the code gives it.
TypeOK ==
  /\ stock \in Nat /\ recovery \in Nat /\ lockCount \in Nat
  /\ slots \in SUBSET Nat
  /\ stage \in [Orders -> OrderStage]
  /\ outbox \in SUBSET Orders
  /\ queue \in [Orders -> Nat]
  /\ refundLock \in SUBSET Orders
  /\ credited \in [Orders -> Nat]
  /\ consumer \in [Consumers -> ConsumerState]
  /\ conn \in [Consumers -> Connection]
  /\ faults \subseteq Faults

\* A refund is credited to Redis at most once, however often its message is
\* published, delivered, requeued, redelivered to several consumers or handled
\* on after its connection was lost; only an INCR whose reply is lost excuses one
\* credit more.
CreditedAtMostOnce == \A o \in Orders : credited[o] <= 1 + Excused

\* How many slots more Redis has to give away than the free seats of MySQL and
\* one (the opener's, who took none), less the slots that are owed.
Surplus ==
  (Target + recovery - stock) - ((Target - lockCount) + 1 - Cardinality(Owed))

\* The two stores agree: Redis has exactly the slots to give away that MySQL
\* has seats, and one more, less what is owed.  A lost reply that let a slot be
\* given back twice is the only excuse, for one slot each.
HeadroomExact == Surplus \in 0..(Excused + Undue)

\* A free seat can be taken: unless more slots are owed than seats are free,
\* the script admits the next join (and finds no old lock key on its slot).
FreeSeatIsAdmitted ==
  Cardinality(Owed) <= Target - lockCount => HasSlot(stock + 1)

\* Redis shields MySQL: at most one join more than there are free seats is
\* between its slot and its transaction (and one for each slot a lost reply let
\* be given back twice).
StockShieldsMySQL ==
  Cardinality({o \in Orders : stage[o] = "occupied"})
    <= Target - lockCount + 1 + Excused + Undue

\* A refund nobody will credit: its refund_lock has no holder, or no message
\* about it is left.
Stranded(o) ==
  LET handlers == {c \in Consumers : consumer[c].order = o}
  IN  \/ o \in refundLock /\ \A c \in handlers : consumer[c].pc # "locked"
      \/ o \notin outbox /\ queue[o] = 0 /\ handlers = {}

\* The failures the code has no answer to.  A crash, a failed DEL or a lost
\* reply of SETNX leaves a lock nobody holds; a process without a client, an
\* unconfirmed publish and a task that is given up drop the message; and when a
\* connection is lost under a handler, the message is acknowledged by another
\* consumer that finds the lock, so that an INCR failing afterwards is not
\* tried again.
Stranding == {"consumerCrash", "delFails", "lockReplyLost", "connectionLost",
              "mqDown", "publishLost", "givenUp"}

\* Every refund is credited to Redis in the end, through duplicate messages,
\* failing commands, a lost reply of the INCR and the loss of one of the
\* connections, as long as some process is connected; only the failures above
\* can strand one.
RefundEventuallyCredited ==
  \A o \in Orders :
    stage[o] = "refunded" ~>
      \/ credited[o] > 0
      \/ ~ Connected
      \/ Stranded(o) /\ faults \cap Stranding # {}

-----------------------------------------------------------------------------
(* The inductive invariant of module TeamStockProofs                       *)

\* lock_count counts the orders on a seat.
SeatsCounted ==
  /\ lockCount = Cardinality({o \in Orders : stage[o] = "seated"})
  /\ lockCount <= Target

\* Only a refund is ever announced, delivered, handled and credited.
RefundsOnly ==
  /\ \A o \in Orders : \/ o \in outbox
                       \/ queue[o] > 0
                       \/ credited[o] > 0
                       => stage[o] = "refunded"
  /\ \A c \in Consumers : consumer[c].pc # "idle" =>
       consumer[c].order \in Orders /\ stage[consumer[c].order] = "refunded"

\* refund_lock has one holder, and stays for good once no credit may follow.
LockGuardsCredit ==
  /\ \A c \in Consumers : consumer[c].pc = "locked" =>
       /\ consumer[c].order \in refundLock
       /\ \A d \in Consumers : /\ consumer[d].pc = "locked"
                               /\ consumer[d].order = consumer[c].order
                               => d = c
  /\ \A o \in Orders :
       /\ credited[o] <= 1 + Excused
       /\ credited[o] = 1 + Excused =>
            /\ o \in refundLock
            /\ \A c \in Consumers : consumer[c].pc = "locked" => consumer[c].order # o

\* The lock keys are on numbers INCR has passed, and INCR passes the target
\* only by what was given back.
SlotsTaken == slots \subseteq 1..stock /\ stock <= Target + recovery

StockInv ==
  TypeOK /\ SeatsCounted /\ RefundsOnly /\ LockGuardsCredit /\ SlotsTaken

-----------------------------------------------------------------------------
(* The tables of GroupBuyTrade, as far as they are seen here               *)

Ledger == INSTANCE TeamLedger WITH
  Teams  <- {"team"},
  lock   <- [t \in {"team"} |-> lockCount],
  live   <- [t \in {"team"} |-> {o \in Orders : stage[o] = "seated"}],
  paid   <- {},
  closed <- [t \in {"team"} |-> {o \in Orders : stage[o] = "refunded"}],
  formed <- {}

\* What joins and refunds do to MySQL here are steps of the ledger that
\* GroupBuyTrade implements, from the state after the opening of the team on:
\* Redis is shown to agree with the tables as they really change.
TakesLedgerSteps == Ledger!Steps
=============================================================================
