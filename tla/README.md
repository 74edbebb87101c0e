# Verification of the group-buy market

TLA+ models of the group-buy market (`src/`, Go), model-checked with TLC; their
safety properties are proved with TLAPS for every value of the constants. `PROJECT.json` lists the components, the
runs, the lines each definition models, the hazards and the theorems.

## 1. The system

A mall calls three HTTP operations. *Lock* reserves a seat of a team at a group
price, or opens a team; *settlement* reports a payment, and the last payment
forms the team; *refund* gives a seat back before or after payment. Several
instances run against one MySQL, one Redis and one RabbitMQ; nothing but these
stores orders the requests.

| part | state | operations | works with |
|---|---|---|---|
| order lock | `group_buy_order`, `group_buy_order_list` | idempotency query, progress check, trial, rule filters, transaction | trial, team stock |
| settlement | the same, `notify_task` | filters read order and team; transaction pays, counts, forms the team | notify task |
| refund | the same, `notify_task` | filters choose a strategy; one transaction per strategy | notify task |
| timeout job | a scanned list | scan at most 10 overdue unpaid orders, refund each | refund |
| team stock | Redis counters `stock` and `recovery`, slot keys | Lua script occupies, failed lock recovers | order lock, refund event |
| refund event | RabbitMQ queue, `refund_lock_*` keys, one AMQP connection per process | publish, deliver, SETNX, INCR, ack / nack | team stock |
| notify task | `notify_task` rows, a lock per task, a job lock | immediate callback, job over unfinished rows, status updates | MQ, HTTP receivers |
| DCC | four values in the memory of each instance | update, publish, receive | all filters |
| crowd tags | `crowd_tags*` tables, Redis bit set | batch run; "is this user in the crowd" | trial |
| trial, discounts | a semaphore (reads activity, discount, product, crowd and two switches) | chain of nodes, two parallel loads, four strategies | home page, order lock |

What is hard about it:

- every operation of the trade core reads outside a transaction and decides
  inside one with what it read;
- MySQL and Redis both count seats, and agree through messages that can be
  lost, duplicated and redelivered and commands whose replies can be lost;
- notify tasks are executed by jobs and callbacks that hold snapshots and locks
  with leases and without owners;
- configuration spreads over a channel that keeps nothing;
- a batch run is a sequence of single statements on two stores;
- a trial reads rows, switches and the crowd in some eight statements, in
  parallel and without a transaction, while all of them may change.

What makes each part correct: a team is never oversold, its counters count its
rows, each notification is written once (trade); free seats are admitted,
refunds are credited once and in the end, and the failures that break this are
known (stock); a callback marked as sent was delivered, a task is given up only
after its retries, and a task with a live receiver is settled (notify);
instances that missed nothing agree (DCC); the crowd is the batch and who shares
its bits (tags); an undisturbed trial gives the documented price and access, and
no failure costs a slot (trial).

## 2. Modules

| module | models | extended by |
|---|---|---|
| `TeamLedger` | abstract: what the trade context promises of seats | instantiated by the next two and by `TeamStock` |
| `GroupBuyTrade` | lock, settlement, refund, timeout job over the three tables | `TradeLedger`, `GroupBuyTradeProofs`, `TradeLedgerProofs` |
| `TradeLedger` | the refinement mapping from the tables to `TeamLedger` | `MCGroupBuyTrade`, `TradeLedgerProofs` |
| `TeamStock` | Redis stock of one team, refund event and its consumers | `MCTeamStock`, `TeamStockProofs` |
| `NotifyTask` | state machine, job, callbacks, locks with leases | `MCNotifyTask`, `NotifyTaskProofs` |
| `DccBroadcast` | configuration of several instances over Redis Pub/Sub | `MCDccBroadcast`, `DccBroadcastProofs` |
| `CrowdTag` | batch runs and the question of a trial | `MCCrowdTag`, `CrowdTagProofs` |
| `Discount` | the four strategies, `IsVisible`, `IsEnable`, `IsCutRange` as functions | `MarketTrial` |
| `MarketTrial` | trials of the home page and of locks | `MCMarketTrial`, `MarketTrialProofs` |

Each component has its theorems in modules of their own
(`GroupBuyTradeProofs`, `TradeLedgerProofs`, `TeamStockProofs`,
`NotifyTaskProofs`, `DccBroadcastProofs`, `CrowdTagProofs`, `MarketTrialProofs`). The inductive invariants stand at the end of the
component's module, next to the properties they carry, so that TLC can check
them as invariants too.

A definition whose comment begins with *Mutant* is a plausible bug of the
definition it precedes. It is in no specification; it exists to show that a
property notices the bug.

### TeamLedger and its two implementations

An order takes one free seat, is paid once and gives its seat back once,
announcing it in the same step; a team forms once. There are no requests, no
stale reads and no stores in it.

`TradeLedger` reads the ledger off the tables of `GroupBuyTrade`: `live` are the
rows that are not closed, `lock` is the `lock_count` column, and `closed` are the
orders that a refund row of `notify_task` names, not the closed rows. So
`ImplementsLedger` says that the column, the rows and the outbox move together
in every transaction: a refund that closes a row twice, decrements without a
notification, pays a closed order or reopens a team is no step of the ledger.
Which rows the outbox has, it does not say: that a notification is a single row
is `SettlementNotifiedOnce` and `RefundNotifiedOnce`.

`TeamStock` knows MySQL only as a counter and a stage per order.
`TakesLedgerSteps` says that this counter and these stages also move by ledger
steps (from the state after the opening of the team on), so the agreement it
shows between Redis and MySQL is about the same promise. The converse, that
every ledger step is possible in it, is not claimed: payments are left out.

### GroupBuyTrade

`team`, `orders` and `tasks` are the three tables. `tasks` is a sequence of rows:
the uuid of `notify_task` is no unique key, so two INSERTs of one notification
are two rows, and `SettlementRows` and `RefundRows` count them. A request (`req`) is a
process that stands at a stage of its chain and carries what it has read; a
timeout job is one more process (`batch` is what it scanned). Each SELECT the
decision depends on is one step, each transaction is one step: InnoDB locks the
rows that a transaction updates, and their WHERE clauses are the guards
(`SeatFree`, `CanForm`, `Refundable`, `BizIdFree`).

| steps | code |
|---|---|
| `LockStart`, `LockProgress`, `LockFilter`, `LockTx` | `LockMarketPayOrder` of the application, the filters and the repository |
| `SettleStart`, `SettleTeam`, `SettleTx` | settlement filters and `SettlementMarketPayOrder` of the repository |
| `RefundStart` (`RefundRead`), `RefundTx` | refund filters, `Unpaid2Refund`, `Paid2Refund`, `PaidTeam2Refund` |
| `JobScan`, `JobRefund` | `TimeoutRefundJob.exec` |
| `Abandon` | every early return, rollback, error and crash |

The settlement reads the order and the team in two steps and forms the team on
the count it read (`req[p].count`). Times, prices and payloads are left out;
`ended` says whether the activity and its orders are overdue. The trial
(`MarketTrial`), the blacklist and the Redis stock can only refuse, which
`Abandon` covers.
`ReuseTradeNo` says whether a mall uses an `out_trade_no` of a user again.

### TeamStock

One team: the opener has a seat without having asked Redis, the `Joins` go
through the script. `Owed` are the orders for which Redis counts a slot that
MySQL does not. A refund frees the seat at once and puts an order in `outbox`;
`Publish` may leave it there (the process died before it marked the task), which
makes duplicates, and `PublishLost` drops the message although the task is marked
(there are no publisher confirms). `NotifyGivenUp` is the end of the task as
failed, which `NotifyTask` shows to be possible. A consumer takes SETNX, INCR and
DEL as separate steps.

A command or a commit may take effect and its reply be lost. The Redis client
repeats a command up to three times, so there are two outcomes: an error after
the effect, or the effect twice (`LockReplyLost`, `ReplyLost`). A commit whose
reply is lost is `LockCommits` followed by `RecoveryUndue`: the service gives back
a slot that an order has. `refund_lock_*` has a lease of 30 days, which the model
does not let end.

Each consumer stands for a process with one AMQP connection (`conn`), which it
shares with the publisher. `ConnectionLost` closes the delivery channel: the
loop of `Client.Consume` ends after the handler that is running, and the broker
takes the message back at once. Nothing dials again; `Restart` is the only way
back, and `StartWithoutMQ` is the restart that finds no RabbitMQ and then reports
every publish as a success. Retried failures are always possible; the ten kinds
of failure without a retry are a parameter (`Faults`), each at most once, with a
bound on their number.

### NotifyTask

`row` is the table, an executor is a job run or a callback with a list of
snapshots. Between its scan and its update others change the row; the update
carries the status computed from the snapshot and has no condition
(`UpdateStatus`). `TryLock`, `Unlock` and `LeaseEnds` are the Redis lock without
owner; `TryLockError` is a SETNX that returns an error and may have set the key,
and a DEL may fail (`Release`).

`Http` are the tasks with a URL, `Mq` those that are published, the others are
sent nowhere (no URL, an unknown type). `SucceedsUnheard` is a success that
nobody hears of: a task that is sent nowhere, a process without a RabbitMQ
client, a publish lost on its way to the broker. A `Dead` task is one whose
receiver never answers, or whose publish is always refused.

### DccBroadcast

`Update` changes the memory of the serving instance and `Broadcast` publishes
later; Redis appends the message to the inbox of every subscriber, the
publisher included. `client` is the subscription of an instance: not made yet,
live, lost, or deaf. A lost connection takes messages in flight with it
(`ConnectionLost` cuts a suffix of the inbox) and the Redis client subscribes
again; a first subscription that fails is never retried (`SubscribeFails`).
`stale` is a ghost that says which instance missed a change of which key.

### CrowdTag

A batch run is `FindDetail`, `InsertDetail`, `SetBit` for each user and
`UpdateStatistics` at the end, with an error possible anywhere. The question of
a trial is the five statements of `IsTagCrowdRange` on Redis and MySQL. Redis has
bits, not users: `Index` is the hash (FNV modulo 10^8) from users to bits, any
function, so users may share a bit, and `IndexFromUserID` is used wherever the
code uses it.

### Discount and MarketTrial

Money is in cents, the parts of a `market_expr` are in hundredths (a ratio or a
price with more decimals is outside the model), `Bad` is a part that does not
parse. The strategies are plain functions; the registry is `Plans`. `cutRange` is
read digit by digit into an int of `IntBits` bits that wraps (`WrapInt`, 64 in the
build).

A trial (`req`) goes through the nodes: `Start` (Root and the downgrade switch),
`SwitchNode` (`cutRange`), `Acquire` (semaphore), the load, `Wait`, `Calculate`,
`TagNode`. The load is two goroutines, `act` and `sku`, each at one statement; a
failing one sets `err`, and the other goes on until it returns, because
cancellation is only seen by its own statement. `Wait` is `errgroup.Wait`
followed by the deferred release. `catalog` holds the rows of the activity, its
discount, the product and their link; `EditCatalog` changes one of them at any
moment. The discount and the activity have a tag each; `DiscountCrowd` and
`ActivityCrowd` are the users these tags admit, which `CrowdTag` shows to be the
batch and those who share its bits. The two questions get an exact answer once
the batch runs have completed (`settled`), and any answer before. A request without its parameters is refused before
anything is read and is left out.

## 3. Runs

Deadlock is checked only for `MCTrial`: the other specifications have bounds on
what may be requested, and a system whose requests have all been answered may
rest.

| run | shows | bounds |
|---|---|---|
| `MCTradeReuse` | no oversell, exact `lock_count`, take limit, single notifications, every transaction a step of the ledger, with reused numbers and the job | 2 users, 2 teams of 2, 3 orders, 2 requests, 1 job |
| `MCTradeTimeout` | exact `complete_count` when numbers are used once; overdue unpaid orders are closed | 2 users, 1 team of 2, 2 requests, 1 job that lists 1 of 2 orders |
| `VTradeFullTeam` | violated: a full team is formed | as above |
| `VTradeStuckUnpaid` | violated: every unpaid order can be closed | 3 users |
| `MCStock` | the two stores account for each other, free seats are admitted, MySQL is shielded and moves by ledger steps | 4 orders on 2 seats, 1 consumer, 1 of: a leaked slot, an undue recovery, a lost reply of INCR, a failed DEL, a lost connection |
| `MCStockCredit` | refunds are credited in the end unless one of seven named failures strands them, and once unless the reply of an INCR is lost | 1 order, 3 processes, 2 copies of a message, 4 failures of eight kinds |
| `MCNotify` | a callback marked as sent was delivered, error only after retries, one delivery at a time, a task with a live receiver is settled for good | a refused publish and a live callback behind it, 2 executors, retry limit 1, 1 failure |
| `VNotifyGivesUp` | violated: a dead task is given up | 1 task |
| `MCDcc` | instances that missed nothing agree, when quiet and in the end | 2 instances, 3 updates, 2 failures of all kinds |
| `MCTrial` | goroutines bounded, slots come back, an undisturbed trial is exact, prices within bounds | 2 trials over 1 slot, 8 catalogs, a user in each crowd, a `cutRange` that wraps, 1 change of a row or a switch |
| `MCTag` | Redis within MySQL, a completed batch and who shares its bits are the crowd, answers of one moment | 3 users, an outsider who shares a bit and one who does not, 2 overlapping runs of 4 |
| `VTagConflict` | violated: a conflict on the unique key is ignored | the same, 2 runs, nothing fails |

Why these bounds: a race in this code has two parties, or two and a job; teams
of two are the smallest with a first, a last and one member too many. Three
orders are needed for a seat to be freed and taken again, and three processes
for a message to be taken over twice. Four failures at once are more than any
scenario of stranding needs. One slot and
two trials make the semaphore matter. The eight catalogs have each missing row,
an unknown plan, each strategy, each tag scope and a price that is cut down to
zero. The retry limit of the code is 4 and the job lists 50 rows; `MCNotify` lowers
the limit to 1, so that two executors with snapshots of the first status can give
a row up: both tasks reach "error" in it, the live one included, and a success is
overwritten. Its list is as long as its table, since a third row with failures is
out of TLC's reach; more executors and longer tables are left to the proofs. An
int of 16 bits wraps at numbers TLC can compute with; the setting of `MCTrial` is
65540, which it takes for 4.

Fairness. `FairSpec` of `GroupBuyTrade` assumes that the job's ticker keeps
firing and that MySQL does not fail a refund for ever; requests of users get
none. In `TeamStock` the notify job gets to the task and publishes again (giving
it up is a failure of its own), RabbitMQ delivers what it
holds to a connected process, and Redis does not fail one command for ever;
`Restart` gets no fairness, since nothing in the code restarts a process. In
`MarketTrial` the statements of a load return, because its context ends after
five seconds, and `Wait` follows. In `NotifyTask` the ticker
fires in some instance, an executor's step returns (the HTTP client and the wait
for a lock have timeouts; a publish has none, and is assumed to return), leases
end, and a live receiver does not fail for ever. In `DccBroadcast` a request that
changed the memory goes on to publish, the handler runs, and the Redis client
subscribes again. Crashes and the failures under `Faults` are never forced.

### What the violated runs show

- **FullTeamIsFormed.** Two payments of the last two seats both read
  `complete_count = Target - 2`; each concludes that it is not the last one. The
  counter reaches the target, the team stays in progress and no notification is
  written. (`trade_repository.go:289`)
- **UnpaidOrderCanBeClosed.** After a refund in a formed team the seat can be
  locked again, since the lock looks at the seats and not at the status. The new
  unpaid order has no refund strategy; the timeout job finds it at every scan.
  (`refund_type.go:22`)
- **DeadTaskGivenUp.** The transition table has no Retry to Retry; the second
  failure neither counts nor changes anything, so the limit of four is never
  reached. (`notify_task_status.go:22`)
- **ConflictIgnored.** Adding a user to a tag selects and then inserts. When an
  overlapping run inserts the same user in between, the INSERT meets the unique
  key, the error is returned and the run ends there, without the remaining bits
  and the statistics. (`tag_repository.go:54`, against the comment above it)

### Other limits found while modelling

These follow from the same models. The checked properties are stated so that
they hold in spite of them.

- A refund between the read and the transaction of a settlement forms a team
  with fewer paid orders than its target.
- Two concurrent locks with one `out_trade_no` create two unpaid orders; no
  unique index covers the number. After reuse, a settlement may count on the team
  of the older row.
- A refund can be stranded, its seat never credited to Redis, in seven ways.
  `RefundEventuallyCredited` lists them, and without them it holds. Three leave
  `refund_lock_*` for 30 days, so that the redelivered message is skipped
  (`trade_repository.go:484`): a consumer that dies between SETNX and INCR, a
  failed DEL after a failed INCR, and a SETNX that took effect but whose reply was
  lost. A connection lost under a handler lets another process acknowledge the
  message because of the lock, and an INCR that fails afterwards is not tried
  again (`rabbitmq.go:126`). Three lose the message: a publisher without a
  RabbitMQ client reports success (`rabbitmq.go:162`), a publish is not confirmed
  (`rabbitmq.go:90`), and a notify task may be given up. The comment at
  `trade_repository.go:495` ("失败释放锁允许 MQ 重试") covers none of them.
- While every process has lost its connection nothing is credited until one is
  restarted.
- An INCR whose reply is lost credits a refund twice. A commit whose reply is lost
  gives back the slot of an order that exists; so does a repeated recovery.
- A notify task without a URL or of an unknown type, and one that is published
  by a process without a client or lost by the broker, is marked as sent and
  nobody hears of it. `SuccessWasDelivered` is about callbacks with a URL.
- A task whose receiver works may be given up: executors with snapshots of the
  first status each count a failure, and the count passes the limit.
  `LiveTaskSettles` promises only that such a task is sent or given up for good.
- The lease of a task lock (30 s) outlasts an HTTP callback; nothing bounds a
  publish, so for published tasks `OneDeliveryAtATime` rests on the broker.
- Users whose ids hash to one bit are admitted together.
- A `cutRange` with more digits than an int holds wraps; it may admit nobody or
  everybody.
- `IsVisible` and `IsEnable` look at positions: the scope "2,1" restricts nothing
  although their comments (`group_buy_activity_discount.go:37`, `:49`) say that a
  scope that contains "1" or "2" does. The catalogs of the model use the orders
  the repository's test uses, and `QuietTrialCorrect` assumes `WellScoped`.
- Plan N has no floor: an expression that does not parse sells for zero.
- A trial reads the activity and its discount in two statements and asks about
  the crowd twice; with a change in between it mixes old and new.
- A stale snapshot writes Retry over Success, and a finished task can be
  delivered again. The job lock's lease (50 s) can end during a list of 50
  callbacks. Dead tasks that fill the list starve the tasks behind them.
- An instance that misses a configuration message keeps the old value until the
  next change of that key; one whose first subscription failed misses all of
  them.
- When the first bit of a tag is set between the two EXISTS of one question, a
  user with neither bit nor row is admitted; a failed count of the rows admits
  everybody. A batch that is run again is counted again.

## 4. Proofs

Every theorem holds for all values of the constants that the `ASSUME`s of its
component allow: natural bounds, positive limits, `Nil` outside the data sets, a
finite set of joins for `TeamStock`, a non-empty batch. Users, teams, tasks'
executors, consumers, instances and processes may be any sets. TLC evaluates
these assumptions in every run. Six theorems assume more of the constants, and
say so in their statement; the last column gives the hypothesis.

| module | theorem | property | if |
|---|---|---|---|
| `GroupBuyTradeProofs` | `Invariance` | `IndInv` | |
| | `TypeCorrect` | `TypeOK` | |
| | `LockCountCorrect` | `LockCountExact` | |
| | `NoOversellCorrect` | `NoOversell` | |
| | `TakeLimitCorrect` | `TakeLimitRespected` | |
| `TradeLedgerProofs` | `NotifyInvariance` | `IndInv`, `NotifyInv` | |
| | `SettlementNotifiedOnceCorrect` | `SettlementNotifiedOnce` | |
| | `RefundNotifiedOnceCorrect` | `RefundNotifiedOnce` | |
| | `LedgerImplemented` | `ImplementsLedger` | |
| | `CompleteCountCorrect` | `CompleteCountExact` | no number is used again |
| `TeamStockProofs` | `StockInvariance` | `StockInv` | |
| | `StockTypeCorrect` | `TypeOK` | |
| | `CreditedAtMostOnceCorrect` | `CreditedAtMostOnce` | |
| | `FreeSeatCorrect` | `FreeSeatIsAdmitted` | |
| | `HeadroomCorrect`, `ShieldCorrect` | `HeadroomExact`, `StockShieldsMySQL` | no reply to the INCR of a refund is lost |
| | `LedgerStepsTaken` | `TakesLedgerSteps` | |
| `NotifyTaskProofs` | `TaskInvariance` | `TaskInv` | |
| | `TaskTypeCorrect` | `TypeOK` | |
| | `SuccessWasDeliveredCorrect` | `SuccessWasDelivered` | |
| | `ErrorAfterRetriesCorrect` | `ErrorAfterRetries` | |
| | `OneDeliveryCorrect` | `OneDeliveryAtATime` | deliveries end within the lease |
| `DccBroadcastProofs` | `DccInvariance` | `DccInv` | |
| | `DccTypeCorrect` | `TypeOK` | |
| | `AgreeWhenQuietCorrect` | `AgreeWhenQuiet` | |
| `CrowdTagProofs` | `TagInvariance` | `TagInv` | |
| | `TagTypeCorrect` | `TypeOK` | |
| | `BitsHaveRowsCorrect` | `BitsHaveRows` | |
| | `CompletedBatchCorrect` | `CompletedBatchIsTheCrowd` | |
| | `AnswerOfOneMomentCorrect` | `AnswerOfOneMoment` | |
| `MarketTrialProofs` | `TrialInvariance` | `TrialInv` | |
| | `TrialTypeCorrect` | `TypeOK` | |
| | `LoadersBoundedCorrect` | `LoadersBounded` | |
| | `PriceBoundedCorrect` | `PriceBounded` | rows are `Reasonable` |
| | `QuietTrialCorrect` | `QuietTrialIsExact` | scopes are `WellScoped` |

Where a run checks the same property it has the same hypothesis:
`MCTradeTimeout` has `ReuseTradeNo = FALSE`, `MCNotify` has `SlowDelivery = FALSE`
(the HTTP client's timeout is shorter than the lease; for a publish it is an
assumption), and the catalogs of `MCTrial` are reasonable and well scoped. Without
them these properties are false, for the reasons that "Other limits" gives. The
two properties of the stock that the proofs restrict allow one slot for a lost
reply, and `MCStock` checks them with lost replies too; the proof of that case
would have to count credits over the orders, and is not done.

### The arguments

**Seats (`IndInv`).** `NoOversell` is about rows while the code compares a
counter, so it follows from `LockCountExact` and `SeatsWithinTarget`.
`LockCountExact` is not inductive by itself: `RefundTx` decrements the team it
remembers and closes the row it remembers, so the invariant must say that the
two belong together (`RequestsAgree`), that the row exists, and that rows have
teams (`RowsHaveTeams`). `JobRowsExist` is needed because a job's list feeds
`RefundRead`. The take limit rests on `TakesDistinct`: take numbers are distinct
per user and at most the limit, so the orders of a user inject into
`1..TakeLimit`; the stale count of the filter only matters through the biz_id
built from it.

**Outbox (`NotifyInv`) and refinement.** A notification names order numbers, and
a new row must not be named already: `TasksHaveRows`. An INSERT appends a row to
the table, and lemmas about appending say how the rows of one notification are
counted. With them the two
`NotifiedOnce` properties are inductive together with `IndInv`. For
`LedgerImplemented` each transaction is shown to be the ledger action of its
name under the mapping: `LockTx` is `Seat`, `SettleTx` is `Pay` with or
without forming the team, `RefundTx` is `GiveBack`, which closes a live order in
the step that announces it (`RefundNotifiedOnce` before and after), and every other step
leaves all five abstract variables alone.

**Payments (`PaymentInv`).** `complete_count` is credited to the team a
settlement remembered, and the row that is paid is found by number. That they
agree needs `SettlesOwnTeam`, which needs one row per number
(`OneRowPerTradeNo`), which needs that no two locks with one number are under way
(`LocksAreFresh`). The last is where the absence of reuse enters, and exactly
what a mall must guarantee.

**Stock (`StockInv`).** `CreditedAtMostOnce` is a mutual exclusion argument over
a lock that is not always released: `LockGuardsCredit` says that a consumer
between SETNX and INCR is the only one for its order, that the key is there, and
that once all credits are written the key stays and nobody is between the two. A
lost reply raises the bound by one, once, because each failure happens at most
once. `HeadroomExact` is about `Surplus`, the slots Redis has too many; over the
finite set of orders, one lemma per step says how `Owed` grows or shrinks, and
`Surplus` is raised by an undue recovery and a lost reply only. It never falls
below zero, whatever fails, which is all that `FreeSeatIsAdmitted` needs besides
`SlotsTaken`: slot keys exist only up to the counter, so the next slot is free.

**Notify tasks (`TaskInv`).** Snapshots are at most as far as the row
(`SnapshotsBehind`), so a count computed from one does not pass the limit before
the row does; an executor that reports the success of a callback with a URL has
delivered it (`ExecutorsInOrder`); and while leases outlast deliveries the lock of a task
names the executor that delivers it (`HoldsItsLock`). That the job's query is a
list of rows of the table needs that the k-th smallest of a finite set of ids
exists (`RankExists`), which is proved from the cardinalities of initial
segments.

**Configuration (`DccInv`).** `FollowsOrPending`: for an instance that missed
nothing, the last message of a key in its inbox carries the last published value,
or there is none and its memory does, or it has changed its own memory and will
publish. The third case is what makes `AgreeWhenQuiet` not inductive.

**Crowd (`TagInv`).** `RunProgress` says that a run at user n has set all bits
before n and has the row of n when it sets the bit; bits are indexes, and nothing
is assumed of the hash. `CheckBetween` keeps the
bits seen at the beginning of a question below the present ones until it is
answered.

**Trials (`TrialInv`).** `SlotsCounted`: the semaphore counts the trials that
load. `QuietReads` says for each stage of an undisturbed trial which of its
fields agree with the catalog; whatever changes a row ends `quiet`.
`LoadedBeforePriced` says that the strategies get a product, a discount and a
known plan. The bounds on prices are lemmas about `Discount`
(`CalculateBounds`, from `MinPayBounds` and `RatioBound`) for all prices and
expressions.

Layout: lemmas about operators and tables first, then one lemma per action (or
per group of actions that change the same part), then the invariance theorem and
its consequences. Cardinality steps use `FiniteSetTheorems`.

One definition was corrected by a proof: the code an unsuccessful load answers
and the quote of a catalog were `CASE` expressions with overlapping guards, whose
value TLA+ leaves open when several hold; they are `IF`/`ELSE` chains now, in the
order of the code's tests.

### Only model-checked

- Liveness (`UnpaidEventuallyClosed`, `RefundEventuallyCredited`,
  `LiveTaskSettles`, `EventuallyAgree`, `SlotsComeBack`): fairness and `ENABLED`
  are out of the prover's reach.
- `HeadroomExact` and `StockShieldsMySQL` when the reply to the INCR of a refund is
  lost (`MCStock`).
- The four violated properties: they are counterexamples.

## 5. Not modelled

- Team lists and statistics of the home page: they change and decide nothing.
  Their statements are not in a transaction, and the statistics drop errors.
- Rate limiter, HTTP and DTO layers, the generic chain and tree, metrics,
  logging, tracing, wiring: no state of the domain.
- Redis data loss, and clock differences between instances.
- The rate limiter keeps a bucket per user for ever; the map is not modelled.

## 6. Plan

Done, in this order: `GroupBuyTrade`, its proof, `TeamStock`, `NotifyTask`,
`DccBroadcast`, `CrowdTag`, `TeamLedger` with its two implementations, the AMQP
connection in `TeamStock`, `Discount` and `MarketTrial`; then the proofs of all
invariants, action properties and the refinement; then lost replies, unconfirmed
publishes, channels of notify tasks, rows of the outbox, the hash of the crowd
and the width of `cutRange`.

Next:

1. The ledger's own promises as theorems of `TeamLedger`, so that both
   implementations inherit them through the refinement.
2. Action properties of the tables that no run states yet: a closed order stays
   closed, a formed team never returns to progress.
3. What holds of `complete_count` when numbers are used again, and the proof of
   `HeadroomExact` after a lost reply (the bound that `Excused` gives).
4. A run for the tag scopes that `IsVisible` and `IsEnable` read differently from
   what their comments say.
