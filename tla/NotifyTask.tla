----------------------------- MODULE NotifyTask -----------------------------
(***************************************************************************)
(* The outgoing notifications (notify_task) and the two kinds of executor  *)
(* that deliver them: the goroutine started right after the transaction    *)
(* that wrote the row, and the notify job of every instance.               *)
(*                                                                         *)
(* An executor works through a list of SNAPSHOTS of rows.  For each it     *)
(* takes the Redis lock of the row, delivers by HTTP or MQ, releases the   *)
(* lock, and only then writes the new status, which it derives from the    *)
(* snapshot: the UPDATE has no condition on the row's present status.      *)
(* Redis locks have a lease and no owner token, so Unlock deletes the key  *)
(* whoever holds it by then.                                               *)
(*                                                                         *)
(* A reported success is not always a delivery: a task without a URL or of *)
(* an unknown type is sent nowhere, and a publish without a client, or one *)
(* that the broker never confirms, returns nil whether it is heard or not. *)
(***************************************************************************)
EXTENDS Integers, Sequences, FiniteSets

CONSTANTS
  NTasks,       \* rows that may be written, with the ids 1..NTasks
  Executors,    \* goroutines and job runs, of all instances
  Nil,          \* no holder
  ScanLimit,    \* LIMIT of the job's query (50 in the code)
  RetryLimit,   \* notify_count above which a failure is final (4 in the code)
  Http,         \* the tasks with a URL to call
  Mq,           \* the tasks to publish; the others are sent nowhere
  Dead,         \* the tasks whose receiver never answers
  SlowDelivery, \* may a delivery outlast the lease of its lock?
  MaxFaults,    \* bound: crashes, and errors of SETNX, DEL and UPDATE
  MaxSeen       \* bound: deliveries counted

Tasks == 1..NTasks

ASSUME NTasksAssumption     == NTasks \in Nat
ASSUME LimitsAssumption     == ScanLimit \in Nat \ {0} /\ RetryLimit \in Nat
ASSUME ChannelAssumption    == Http \cup Mq \subseteq Tasks /\ Http \cap Mq = {}
ASSUME DeadAssumption       == Dead \subseteq Http \cup Mq /\ SlowDelivery \in BOOLEAN
ASSUME BoundsAssumption     == MaxFaults \in Nat /\ MaxSeen \in Nat \ {0}
ASSUME NilAssumption        == Nil \notin Executors

VARIABLES
  row,      \* the rows of notify_task
  lock,     \* notify_job_lock_key_<uuid>: who set the key, or Nil
  jobLock,  \* group_buy_market_notify_job_exec: who set the key, or Nil
  exec,     \* what each executor is doing
  seen,     \* ghost: deliveries the receiver of each task has got
  faults    \* crashes and dropped errors so far

vars == <<row, lock, jobLock, exec, seen, faults>>

-----------------------------------------------------------------------------
(* The state machine of a row                                              *)

Status == {"init", "success", "retry", "error"}

\* notifyTransitions: the statuses MoveTo accepts from each status.
Transitions ==
  [s \in Status |-> CASE s = "init"  -> {"success", "retry", "error"}
                      [] s = "retry" -> {"success", "error"}
                      [] OTHER       -> {}]

CanTransition(from, to) == to \in Transitions[from]
Terminal == {s \in Status : Transitions[s] = {}}

\* Mutants: one attempt too few; a failure taken for a success.
StatusOnErrorEarly(count) == IF count >= RetryLimit THEN "error" ELSE "retry"
StatusOnErrorIgnored(count) == IF count > RetryLimit THEN "error" ELSE "success"

\* The status a failed delivery asks for: "error" after more than RetryLimit
\* attempts, by the snapshot's count.
StatusOnError(count) == IF count > RetryLimit THEN "error" ELSE "retry"

Row      == [status: Status \cup {"absent"}, count: Nat]
Snapshot == [task: Tasks, status: Status, count: Nat]
Executor == [pc: {"idle", "next", "deliver", "update"}, list: Seq(Snapshot),
             resp: {"success", "error", "none"},
             job: BOOLEAN]   \* a run of the notify job, not a goroutine

Work(snapshots, isJob) ==
  [pc |-> "next", list |-> snapshots, resp |-> "none", job |-> isJob]
Idle == [pc |-> "idle", list |-> <<>>, resp |-> "none", job |-> FALSE]

SnapshotOf(t) == [task |-> t, status |-> row[t].status, count |-> row[t].count]

\* Mutant: rows to be retried are not selected.
UnexecutedInit == {t \in Tasks : row[t].status = "init"}

\* WHERE notify_status IN (0, 2)
Unexecuted == {t \in Tasks : row[t].status \in {"init", "retry"}}

\* ORDER BY id ASC LIMIT ScanLimit
Scanned ==
  {t \in Unexecuted :
     Cardinality({u \in Unexecuted : u < t}) < ScanLimit}

QueryUnExecutedNotifyTaskList ==
  [i \in 1..Cardinality(Scanned) |->
     SnapshotOf(CHOOSE t \in Scanned :
                  Cardinality({u \in Scanned : u <= t}) = i)]

-----------------------------------------------------------------------------
Init ==
  /\ row = [t \in Tasks |-> [status |-> "absent", count |-> 0]]
  /\ lock = [t \in Tasks |-> Nil]
  /\ jobLock = Nil
  /\ exec = [e \in Executors |-> Idle]
  /\ seen = [t \in Tasks |-> 0]
  /\ faults = 0

Fault == faults < MaxFaults /\ faults' = faults + 1

\* A settlement or refund commits with the next row, and starts a goroutine
\* with the row as it was written.
Insert(e, t) ==
  /\ row[t].status = "absent"
  /\ \A u \in Tasks : u < t => row[u].status # "absent"
  /\ exec[e].pc = "idle"
  /\ row' = [row EXCEPT ![t].status = "init"]
  /\ exec' = [exec EXCEPT ![e] =
                Work(<<[task |-> t, status |-> "init", count |-> 0]>>, FALSE)]
  /\ UNCHANGED <<lock, jobLock, seen, faults>>

\* The job's tick: the run that gets the job lock reads its list.  A run that
\* does not get it, or reads an empty list, changes nothing.
JobScan(e) ==
  /\ exec[e].pc = "idle"
  /\ jobLock = Nil
  /\ Unexecuted # {}
  /\ jobLock' = e
  /\ exec' = [exec EXCEPT ![e] = Work(QueryUnExecutedNotifyTaskList, TRUE)]
  /\ UNCHANGED <<row, lock, seen, faults>>

-----------------------------------------------------------------------------
(* One snapshot of an executor's list.  It is never terminal: the query     *)
(* selects status 0 and 2 and the goroutine starts with 0.                  *)

Current(e) == Head(exec[e].list)

Drop(e) == exec' = [exec EXCEPT ![e] = Work(Tail(@.list), @.job)]

\* Mutant: SET without NX.
KeyIgnored(t) == t \in Tasks

\* SETNX succeeds.
KeyFree(t) == lock[t] = Nil

\* TryLockWait on the task's key: with the key, deliver; without it after the
\* wait, skip the task.
TryLock(e) ==
  /\ exec[e].pc = "next"
  /\ exec[e].list # <<>>
  /\ LET t == Current(e).task
     IN  \/ /\ KeyFree(t)
            /\ lock' = [lock EXCEPT ![t] = e]
            /\ exec' = [exec EXCEPT ![e].pc = "deliver"]
         \/ /\ ~ KeyFree(t)
            /\ Drop(e)
            /\ UNCHANGED lock
  /\ UNCHANGED <<row, jobLock, seen, faults>>

\* TryLockWait fails, with or without having set the key: the task is skipped,
\* and a key that was set stays until its lease ends.
TryLockError(e) ==
  /\ Fault
  /\ exec[e].pc = "next"
  /\ exec[e].list # <<>>
  /\ \/ UNCHANGED lock
     \/ /\ KeyFree(Current(e).task)
        /\ lock' = [lock EXCEPT ![Current(e).task] = e]
  /\ Drop(e)
  /\ UNCHANGED <<row, jobLock, seen>>

\* Saturates at MaxSeen.
SeenOnce(t) == [seen EXCEPT ![t] = IF @ < MaxSeen THEN @ + 1 ELSE @]

Answered(e, resp) ==
  exec' = [exec EXCEPT ![e].pc = "update", ![e].resp = resp]

\* The deferred Unlock: DEL of the key, whoever has set it by now.
Unlock(t) == lock' = [lock EXCEPT ![t] = Nil]

\* An error of the DEL is dropped: the key stays until its lease ends.
Release(t) ==
  \/ Unlock(t) /\ UNCHANGED faults
  \/ Fault /\ UNCHANGED lock

\* The receiver gets the notification and its 2xx arrives, or the publish
\* returns nil and the broker has the message.
DeliverySucceeds(e) ==
  /\ exec[e].pc = "deliver"
  /\ Current(e).task \in (Http \cup Mq) \ Dead
  /\ seen' = SeenOnce(Current(e).task)
  /\ Answered(e, "success")
  /\ Release(Current(e).task)
  /\ UNCHANGED <<row, jobLock>>

\* Success, and nobody hears of it: nothing to send to, no MQ client in this
\* instance, or a publish lost on its way to the broker.
SucceedsUnheard(e) ==
  /\ exec[e].pc = "deliver"
  /\ Current(e).task \notin Http
  /\ Answered(e, "success")
  /\ Release(Current(e).task)
  /\ UNCHANGED <<row, jobLock, seen>>

\* Any error: refused, not 2xx, or a timeout after the receiver has got it.
DeliveryFails(e) ==
  /\ exec[e].pc = "deliver"
  /\ Current(e).task \in Http \cup Mq
  /\ \/ UNCHANGED seen
     \/ /\ Current(e).task \notin Dead
        /\ seen' = SeenOnce(Current(e).task)
  /\ Answered(e, "error")
  /\ Release(Current(e).task)
  /\ UNCHANGED <<row, jobLock>>

\* Mutant: the count is taken down.
UpdateDown(t, from, to) ==
  row' = IF CanTransition(from, to)
           THEN [row EXCEPT ![t] = [status |-> to, count |-> @.count - 1]]
           ELSE row

\* MoveTo on the snapshot's status, then the UPDATE by team and uuid.
Update(t, from, to) ==
  row' = IF CanTransition(from, to)
           THEN [row EXCEPT ![t] = [status |-> to, count |-> @.count + 1]]
           ELSE row

\* The switch on the response.
UpdateStatus(e) ==
  /\ exec[e].pc = "update"
  /\ LET s == Current(e)
     IN  \/ /\ exec[e].resp = "success"
            /\ Update(s.task, s.status, "success")
         \/ /\ exec[e].resp = "error"
            /\ Update(s.task, s.status, StatusOnError(s.count))
  /\ Drop(e)
  /\ UNCHANGED <<lock, jobLock, seen, faults>>

\* The list is done; a job run deletes the job lock, whoever has set it.
\* A goroutine never took it.
Finish(e) ==
  /\ exec[e].pc = "next"
  /\ exec[e].list = <<>>
  /\ exec' = [exec EXCEPT ![e] = Idle]
  /\ jobLock' = IF exec[e].job THEN Nil ELSE jobLock
  /\ UNCHANGED <<row, lock, seen, faults>>

-----------------------------------------------------------------------------
(* Failures and time                                                       *)

\* The UPDATE fails; its error is dropped.
UpdateLost(e) ==
  /\ Fault
  /\ exec[e].pc = "update"
  /\ Drop(e)
  /\ UNCHANGED <<row, lock, jobLock, seen>>

\* The process dies; its keys stay until their leases end.
Crash(e) ==
  /\ Fault
  /\ exec[e].pc # "idle"
  /\ exec' = [exec EXCEPT ![e] = Idle]
  /\ UNCHANGED <<row, lock, jobLock, seen>>

\* The lease of a task's lock ends (30 s).
LeaseEnds(t) ==
  /\ lock[t] # Nil
  /\ exec[lock[t]].pc = "deliver" /\ Current(lock[t]).task = t => SlowDelivery
  /\ Unlock(t)
  /\ UNCHANGED <<row, jobLock, exec, seen, faults>>

\* The lease of the job lock ends (50 s, less than a full list may take).
JobLeaseEnds ==
  /\ jobLock # Nil
  /\ jobLock' = Nil
  /\ UNCHANGED <<row, lock, exec, seen, faults>>

Step(e) ==
  \/ TryLock(e)
  \/ DeliverySucceeds(e)
  \/ SucceedsUnheard(e)
  \/ DeliveryFails(e)
  \/ UpdateStatus(e)
  \/ Finish(e)

Next ==
  \/ \E e \in Executors, t \in Tasks : Insert(e, t)
  \/ \E e \in Executors :
       \/ JobScan(e)
       \/ Step(e)
       \/ TryLockError(e)
       \/ UpdateLost(e)
       \/ Crash(e)
  \/ \E t \in Tasks : LeaseEnds(t)
  \/ JobLeaseEnds

Spec == Init /\ [][Next]_vars

\* The job's ticker fires again and again in some instance, an executor's step
\* returns (every wait in it has a timeout, a publish apart), leases end, and a
\* receiver that is not dead does not fail every delivery for ever.
FairSpec ==
  /\ Spec
  /\ SF_vars(\E e \in Executors : JobScan(e))
  /\ \A e \in Executors : WF_vars(Step(e))
  /\ \A t \in Tasks :
       /\ WF_vars(LeaseEnds(t))
       /\ SF_vars(\E e \in Executors :
                    /\ exec[e].list # <<>> /\ Current(e).task = t
                    /\ DeliverySucceeds(e))
  /\ WF_vars(JobLeaseEnds)

-----------------------------------------------------------------------------
(* Properties                                                              *)

\* Every row, snapshot and executor has the shape the code gives it.
TypeOK ==
  /\ row \in [Tasks -> Row]
  /\ lock \in [Tasks -> Executors \cup {Nil}]
  /\ jobLock \in Executors \cup {Nil}
  /\ exec \in [Executors -> Executor]
  /\ seen \in [Tasks -> Nat]
  /\ faults \in Nat

\* The row of a callback with a URL is marked as sent only when its receiver
\* got the notification, although rows are written by executors that overlap.
\* A published row, or one without a URL, may be marked and never heard of.
SuccessWasDelivered ==
  \A t \in Http : row[t].status = "success" => seen[t] > 0

\* A row is given up only after more than RetryLimit attempts were counted on
\* it: the count in a snapshot is never ahead of the row's.
ErrorAfterRetries ==
  \A t \in Tasks : row[t].status = "error" => row[t].count > RetryLimit + 1

\* At most one executor delivers a task at any moment, over all instances,
\* with a lock that has no owner token; needs deliveries shorter than the
\* lease of the lock.
OneDeliveryAtATime ==
  \A e, f \in Executors :
    /\ exec[e].pc = "deliver" /\ exec[f].pc = "deliver"
    /\ Current(e).task = Current(f).task
    => e = f

\* A task whose receiver works is sent or given up in the end and stays so,
\* whatever deliveries fail, whichever executors die, and although a late
\* UPDATE may turn a sent row back into one to retry.  The dead tasks at the
\* front of the table must leave it a place in the job's list.
LiveTaskSettles ==
  \A t \in Tasks \ Dead :
    row[t].status # "absent" ~> [](row[t].status \in Terminal)

-----------------------------------------------------------------------------
(* What keeps these properties true from step to step                      *)

\* An executor that delivers or updates has a task, and one that is about to
\* mark a callback with a URL as sent has delivered it.
ExecutorsInOrder ==
  \A e \in Executors :
    /\ exec[e].pc \in {"deliver", "update"} => exec[e].list # <<>>
    /\ exec[e].pc = "update" /\ exec[e].resp = "success" /\ Current(e).task \in Http
       => seen[Current(e).task] > 0

\* No snapshot counts more attempts than its row does.
SnapshotsBehind ==
  \A e \in Executors : \A n \in DOMAIN exec[e].list :
    exec[e].list[n].count <= row[exec[e].list[n].task].count

\* While deliveries are shorter than leases, who delivers has the key.
HoldsItsLock ==
  ~ SlowDelivery =>
    \A e \in Executors : exec[e].pc = "deliver" => lock[Current(e).task] = e

TaskInv ==
  /\ TypeOK
  /\ ExecutorsInOrder
  /\ SnapshotsBehind
  /\ HoldsItsLock
  /\ SuccessWasDelivered
  /\ ErrorAfterRetries

-----------------------------------------------------------------------------
(* What the documentation says and the code does not do                    *)

\* A task whose receiver never answers is marked "error" in the end.
DeadTaskGivenUp ==
  \A t \in Dead : row[t].status # "absent" ~> row[t].status = "error"
=============================================================================
