-------------------------- MODULE NotifyTaskProofs --------------------------
(***************************************************************************)
(* Proofs about NotifyTask, for any number of rows and executors and any   *)
(* limits: what the statuses of a row say about its deliveries, although   *)
(* they are written from snapshots and without a condition on the row.     *)
(***************************************************************************)
EXTENDS NotifyTask, TLAPS, FiniteSetTheorems

-----------------------------------------------------------------------------
(* The job's query                                                         *)

\* In a finite set of numbers, every rank from 1 up to the size of the set is
\* the rank of a member: what ORDER BY id relies on.
LEMMA RankExists ==
  ASSUME NEW N \in Nat, NEW S \in SUBSET (1..N)
  PROVE  /\ Cardinality(S) \in Nat
         /\ \A i \in 1..Cardinality(S) :
              \E t \in S : Cardinality({u \in S : u <= t}) = i
<1>1. IsFiniteSet(1..N)
  BY FS_Interval
<1>2. IsFiniteSet(S) /\ Cardinality(S) \in Nat
  BY <1>1, FS_Subset, FS_CardinalityType
<1>. DEFINE Upto(t) == {u \in S : u <= t}
            rank == [t \in S |-> Cardinality(Upto(t))]
<1>3. ASSUME NEW t \in S
      PROVE  /\ IsFiniteSet(Upto(t)) /\ Cardinality(Upto(t)) \in Nat
             /\ Cardinality(Upto(t)) <= Cardinality(S)
             /\ Cardinality(Upto(t)) >= 1
  <2>1. Upto(t) \in SUBSET S /\ t \in Upto(t)
    OBVIOUS
  <2>. HIDE DEF Upto
  <2>2. IsFiniteSet(Upto(t)) /\ Cardinality(Upto(t)) <= Cardinality(S)
    BY <1>2, <2>1, FS_Subset
  <2>3. Cardinality(Upto(t)) \in Nat
    BY <2>2, FS_CardinalityType
  <2>4. Cardinality(Upto(t)) # 0
    BY <2>1, <2>2, FS_EmptySet
  <2>. QED  BY <2>2, <2>3, <2>4
<1>4. ASSUME NEW t \in S, NEW u \in S, u < t
      PROVE  Cardinality(Upto(u)) # Cardinality(Upto(t))
  <2>1. Upto(u) \in SUBSET Upto(t) /\ t \in Upto(t) /\ t \notin Upto(u)
    <3>1. t \in 1..N /\ u \in 1..N
      OBVIOUS
    <3>2. \A x \in S : x <= u => x <= t
      BY <1>4, <3>1
    <3>3. t <= t /\ ~ (t <= u)
      BY <1>4, <3>1
    <3>. QED  BY <3>2, <3>3
  <2>2. IsFiniteSet(Upto(t))
    BY <1>3
  <2>. HIDE DEF Upto
  <2>. QED  BY <2>1, <2>2, FS_Subset
<1>. HIDE DEF Upto
<1>5. rank \in Injection(S, 1..Cardinality(S))
  <2>1. rank \in [S -> 1..Cardinality(S)]
    BY <1>2, <1>3
  <2>2. ASSUME NEW t \in S, NEW u \in S, rank[t] = rank[u] PROVE t = u
    <3>1. t < u \/ u < t \/ t = u
      OBVIOUS
    <3>. QED  BY <1>4, <2>2, <3>1
  <2>. HIDE DEF rank
  <2>. QED  BY <2>1, <2>2 DEF Injection, IsInjective
<1>6. IsFiniteSet(1..Cardinality(S)) /\ Cardinality(1..Cardinality(S)) = Cardinality(S)
  <2>1. PICK n \in Nat : n = Cardinality(S)
    BY <1>2
  <2>2. IsFiniteSet(1..n) /\ Cardinality(1..n) = n
    BY FS_Interval
  <2>. QED  BY <2>1, <2>2
<1>7. rank \in Surjection(S, 1..Cardinality(S))
  <2>. HIDE DEF rank
  <2>. QED  BY <1>5, <1>6, FS_Injection
<1>8. \A i \in 1..Cardinality(S) : \E t \in S : rank[t] = i
  <2>. HIDE DEF rank
  <2>. QED  BY <1>7 DEF Surjection
<1>. QED  BY <1>2, <1>8 DEF Upto

\* The job gets snapshots of rows as they are, none of them sent or given up.
LEMMA QueryFacts ==
  ASSUME row \in [Tasks -> Row]
  PROVE  /\ QueryUnExecutedNotifyTaskList \in Seq(Snapshot)
         /\ \A n \in DOMAIN QueryUnExecutedNotifyTaskList :
              QueryUnExecutedNotifyTaskList[n].count
                <= row[QueryUnExecutedNotifyTaskList[n].task].count
<1>. DEFINE Ranked(i) == CHOOSE t \in Scanned : Cardinality({u \in Scanned : u <= t}) = i
            N == Cardinality(Scanned)
            Q == [i \in 1..N |-> SnapshotOf(Ranked(i))]
<1>1. Scanned \in SUBSET (1..NTasks) /\ \A t \in Scanned : t \in Tasks /\ row[t].status \in Status
  BY DEF Scanned, Unexecuted, Tasks, Status
<1>2. /\ N \in Nat
      /\ \A i \in 1..N : \E t \in Scanned : Cardinality({u \in Scanned : u <= t}) = i
  BY <1>1, NTasksAssumption, RankExists
<1>3. ASSUME NEW i \in 1..N PROVE Ranked(i) \in Scanned
  BY <1>2
<1>. HIDE DEF N, Ranked
<1>4. ASSUME NEW t \in Scanned
      PROVE  /\ SnapshotOf(t) \in Snapshot
             /\ SnapshotOf(t).count <= row[SnapshotOf(t).task].count
  BY <1>1 DEF SnapshotOf, Snapshot, Row
<1>5. ASSUME NEW i \in 1..N
      PROVE  Q[i] \in Snapshot /\ Q[i].count <= row[Q[i].task].count
  BY <1>3, <1>4
<1>6. Q \in Seq(Snapshot) /\ DOMAIN Q = 1..N
  BY <1>2, <1>5
<1>7. QueryUnExecutedNotifyTaskList = Q
  BY DEF QueryUnExecutedNotifyTaskList, N, Ranked
<1>. HIDE DEF Q
<1>. QED  BY <1>5, <1>6, <1>7

-----------------------------------------------------------------------------
(* One executor                                                            *)

\* What TaskInv says of an executor in state x when the rows are rw and the
\* deliveries sn.
ExecOK(x, rw, sn) ==
  /\ x \in Executor
  /\ x.pc \in {"deliver", "update"} => x.list # <<>>
  /\ x.pc = "update" /\ x.resp = "success" /\ Head(x.list).task \in Http
     => sn[Head(x.list).task] > 0
  /\ \A n \in DOMAIN x.list : x.list[n].count <= rw[x.list[n].task].count

\* The invariant's parts about executors, one executor at a time.
LEMMA ExecSplit ==
  ASSUME exec \in [Executors -> Executor]
  PROVE  ExecutorsInOrder /\ SnapshotsBehind
           <=> \A e \in Executors : ExecOK(exec[e], row, seen)
BY DEF ExecutorsInOrder, SnapshotsBehind, ExecOK, Current

\* The task an executor works on is a row's.
LEMMA CurrentIsTask ==
  ASSUME NEW x \in Executor, x.list # <<>>
  PROVE  /\ x.list \in Seq(Snapshot)
         /\ Head(x.list) \in Snapshot
         /\ Head(x.list) = x.list[1] /\ 1 \in DOMAIN x.list
         /\ Head(x.list).task \in Tasks
         /\ Head(x.list).status \in Status /\ Head(x.list).count \in Nat
<1>1. x.list \in Seq(Snapshot)
  BY DEF Executor
<1>2. Head(x.list) \in Snapshot /\ Head(x.list) = x.list[1] /\ 1 \in DOMAIN x.list
  BY <1>1
<1>. QED  BY <1>1, <1>2 DEF Snapshot

\* Rows that count more and receivers that have seen more hurt no executor.
LEMMA ExecMonotone ==
  ASSUME NEW x, NEW rw \in [Tasks -> Row], NEW rw2 \in [Tasks -> Row],
         NEW sn \in [Tasks -> Nat], NEW sn2 \in [Tasks -> Nat],
         ExecOK(x, rw, sn),
         \A t \in Tasks : rw[t].count <= rw2[t].count /\ sn[t] <= sn2[t]
  PROVE  ExecOK(x, rw2, sn2)
<1>1. x \in Executor /\ x.list \in Seq(Snapshot)
  BY DEF ExecOK, Executor
<1>2. ASSUME NEW n \in DOMAIN x.list PROVE x.list[n].count <= rw2[x.list[n].task].count
  <2>1. x.list[n] \in Snapshot
    BY <1>1
  <2>2. x.list[n].task \in Tasks /\ x.list[n].count \in Nat
    BY <2>1 DEF Snapshot
  <2>3. rw[x.list[n].task].count \in Nat /\ rw2[x.list[n].task].count \in Nat
    BY <2>2 DEF Row
  <2>. QED  BY <2>2, <2>3 DEF ExecOK
<1>3. ASSUME x.pc = "update", x.resp = "success", Head(x.list).task \in Http
      PROVE  sn2[Head(x.list).task] > 0
  <2>1. x.list # <<>>
    BY <1>3 DEF ExecOK
  <2>2. Head(x.list).task \in Tasks
    BY <1>1, <2>1, CurrentIsTask
  <2>3. sn[Head(x.list).task] > 0
    BY <1>3 DEF ExecOK
  <2>. QED  BY <2>2, <2>3
<1>. QED  BY <1>1, <1>2, <1>3 DEF ExecOK

\* The rest of a list is in order when the list is.
LEMMA DropOK ==
  ASSUME NEW x, NEW rw, NEW sn, ExecOK(x, rw, sn), x.list # <<>>
  PROVE  ExecOK(Work(Tail(x.list), x.job), rw, sn)
<1>1. x \in Executor /\ x.list \in Seq(Snapshot) /\ x.job \in BOOLEAN
  BY DEF ExecOK, Executor
<1>. DEFINE y == Work(Tail(x.list), x.job)
<1>2. /\ y.pc = "next" /\ y.list = Tail(x.list)
      /\ y \in Executor
  BY <1>1 DEF Work, Executor
<1>3. ASSUME NEW n \in DOMAIN Tail(x.list)
      PROVE  n + 1 \in DOMAIN x.list /\ Tail(x.list)[n] = x.list[n + 1]
  BY <1>1
<1>. HIDE DEF y
<1>4. \A n \in DOMAIN y.list : y.list[n].count <= rw[y.list[n].task].count
  BY <1>2, <1>3 DEF ExecOK
<1>5. ExecOK(y, rw, sn)
  BY <1>2, <1>4 DEF ExecOK
<1>. QED  BY <1>5 DEF y

\* An idle executor is in order.
LEMMA IdleOK ==
  ASSUME NEW rw, NEW sn
  PROVE  ExecOK(Idle, rw, sn)
<1>1. Idle \in Executor /\ Idle.pc = "idle" /\ Idle.list = <<>>
  BY DEF Idle, Executor
<1>2. DOMAIN Idle.list = {}
  BY <1>1
<1>. QED  BY <1>1, <1>2 DEF ExecOK

\* A step of one executor, that takes no count and no delivery back, leaves all
\* executors in order when it leaves that one in order.
LEMMA OneExecutorMoves ==
  ASSUME TaskInv, NEW e \in Executors, NEW x, exec' = [exec EXCEPT ![e] = x],
         row' \in [Tasks -> Row], seen' \in [Tasks -> Nat],
         \A t \in Tasks : row[t].count <= row'[t].count /\ seen[t] <= seen'[t],
         ExecOK(x, row', seen')
  PROVE  exec' \in [Executors -> Executor] /\ ExecutorsInOrder' /\ SnapshotsBehind'
<1>1. /\ exec \in [Executors -> Executor] /\ row \in [Tasks -> Row]
      /\ seen \in [Tasks -> Nat]
  BY DEF TaskInv, TypeOK
<1>2. \A f \in Executors : ExecOK(exec[f], row, seen)
  BY <1>1, ExecSplit DEF TaskInv
<1>3. x \in Executor
  BY DEF ExecOK
<1>4. exec' \in [Executors -> Executor] /\ exec'[e] = x
      /\ \A f \in Executors \ {e} : exec'[f] = exec[f]
  BY <1>1, <1>3
<1>5. ASSUME NEW f \in Executors PROVE ExecOK(exec'[f], row', seen')
  <2>1. CASE f = e
    BY <1>4, <2>1
  <2>2. CASE f # e
    <3>1. ExecOK(exec[f], row, seen)
      BY <1>2
    <3>2. ExecOK(exec[f], row', seen')
      BY <1>1, <3>1, ExecMonotone
    <3>. QED  BY <1>4, <2>2, <3>2
  <2>. QED  BY <2>1, <2>2
<1>6. ExecutorsInOrder' /\ SnapshotsBehind'
  BY <1>4, <1>5 DEF ExecutorsInOrder, SnapshotsBehind, ExecOK, Current
<1>. QED  BY <1>4, <1>6

-----------------------------------------------------------------------------
(* The actions                                                             *)

\* The types of what TaskInv relates, in the form the steps below use them.
LEMMA Types ==
  ASSUME TaskInv
  PROVE  /\ exec \in [Executors -> Executor] /\ row \in [Tasks -> Row]
         /\ lock \in [Tasks -> Executors \cup {Nil}]
         /\ jobLock \in Executors \cup {Nil}
         /\ seen \in [Tasks -> Nat] /\ faults \in Nat
         /\ \A e \in Executors : ExecOK(exec[e], row, seen)
         /\ \A t \in Tasks : row[t].count \in Nat /\ seen[t] \in Nat
<1>1. /\ exec \in [Executors -> Executor] /\ row \in [Tasks -> Row]
      /\ lock \in [Tasks -> Executors \cup {Nil}]
      /\ jobLock \in Executors \cup {Nil}
      /\ seen \in [Tasks -> Nat] /\ faults \in Nat
  BY DEF TaskInv, TypeOK
<1>2. \A e \in Executors : ExecOK(exec[e], row, seen)
  BY <1>1, ExecSplit DEF TaskInv
<1>3. \A t \in Tasks : row[t].count \in Nat /\ seen[t] \in Nat
  BY <1>1 DEF Row
<1>. QED  BY <1>1, <1>2, <1>3

\* While no row changes, deliveries only make the rows' statuses truer.
LEMMA RowsKept ==
  ASSUME TaskInv, row' = row, seen' \in [Tasks -> Nat],
         \A t \in Tasks : seen[t] <= seen'[t]
  PROVE  SuccessWasDelivered' /\ ErrorAfterRetries'
<1>1. \A t \in Tasks : seen[t] \in Nat /\ seen'[t] \in Nat
  BY Types
<1>. QED  BY <1>1, ChannelAssumption DEF TaskInv, SuccessWasDelivered, ErrorAfterRetries

\* An executor that does not begin a delivery leaves the others their keys,
\* when it deletes no key but the one it delivers under.
LEMMA LocksKept ==
  ASSUME TaskInv, NEW e \in Executors, NEW x, exec' = [exec EXCEPT ![e] = x],
         x.pc # "deliver",
         \/ lock' = lock
         \/ exec[e].pc = "deliver" /\ lock' = [lock EXCEPT ![Current(e).task] = Nil]
  PROVE  HoldsItsLock'
<1>. SUFFICES ASSUME ~ SlowDelivery, NEW f \in Executors, exec'[f].pc = "deliver"
              PROVE  lock'[Head(exec'[f].list).task] = f
  BY DEF HoldsItsLock, Current
<1>1. f # e /\ exec'[f] = exec[f]
  BY Types
<1>2. lock[Current(f).task] = f
  BY <1>1 DEF TaskInv, HoldsItsLock
<1>3. exec[f] \in Executor /\ exec[f].list # <<>>
  BY <1>1, Types DEF ExecOK
<1>4. Current(f).task \in Tasks
  BY <1>3, CurrentIsTask DEF Current
<1>5. lock'[Current(f).task] = f
  <2>1. CASE lock' = lock
    BY <1>2, <2>1
  <2>2. CASE exec[e].pc = "deliver" /\ lock' = [lock EXCEPT ![Current(e).task] = Nil]
    <3>1. lock[Current(e).task] = e
      BY <2>2 DEF TaskInv, HoldsItsLock
    <3>2. Current(e).task # Current(f).task
      BY <1>1, <1>2, <3>1
    <3>. QED  BY <1>2, <1>4, <2>2, <3>2, Types
  <2>. QED  BY <2>1, <2>2
<1>. QED  BY <1>1, <1>5 DEF Current

\* A row and its goroutine: the row counts nothing yet.
LEMMA InsertPreserves ==
  ASSUME TaskInv, NEW e \in Executors, NEW t \in Tasks, Insert(e, t)
  PROVE  TaskInv'
<1>. DEFINE s == [task |-> t, status |-> "init", count |-> 0]
            x == Work(<<s>>, FALSE)
<1>1. /\ row' = [row EXCEPT ![t].status = "init"]
      /\ exec' = [exec EXCEPT ![e] = x]
      /\ UNCHANGED <<lock, jobLock, seen, faults>>
  BY DEF Insert
<1>2. /\ row' \in [Tasks -> Row] /\ row'[t].status = "init"
      /\ \A u \in Tasks : row'[u].count = row[u].count
      /\ \A u \in Tasks \ {t} : row'[u] = row[u]
  BY <1>1, Types DEF Row, Status
<1>3. \A u \in Tasks : row[u].count <= row'[u].count /\ seen[u] <= seen'[u]
  BY <1>1, <1>2, Types
<1>4. ExecOK(x, row', seen') /\ x.pc = "next"
  <2>1. s \in Snapshot /\ s.task = t /\ s.count = 0
    BY DEF Snapshot, Status
  <2>. HIDE DEF s
  <2>2. <<s>> \in Seq(Snapshot) /\ DOMAIN <<s>> = {1} /\ <<s>>[1] = s
    BY <2>1
  <2>3. x \in Executor /\ x.pc = "next" /\ x.list = <<s>>
    BY <2>2 DEF Work, Executor
  <2>4. 0 <= row'[t].count
    BY <1>2, Types
  <2>. HIDE DEF x
  <2>. QED  BY <2>1, <2>2, <2>3, <2>4 DEF ExecOK
<1>. HIDE DEF x
<1>5. seen' \in [Tasks -> Nat]
  BY <1>1, Types
<1>6. exec' \in [Executors -> Executor] /\ ExecutorsInOrder' /\ SnapshotsBehind'
  BY <1>1, <1>2, <1>3, <1>4, <1>5, OneExecutorMoves
<1>7. HoldsItsLock'
  BY <1>1, <1>4, LocksKept
<1>8. TypeOK'
  BY <1>1, <1>2, <1>6, Types DEF TypeOK
<1>9. SuccessWasDelivered' /\ ErrorAfterRetries'
  BY <1>1, <1>2, ChannelAssumption DEF TaskInv, SuccessWasDelivered, ErrorAfterRetries
<1>. QED  BY <1>6, <1>7, <1>8, <1>9 DEF TaskInv

\* A step that changes neither rows, deliveries nor task keys: the job's scan,
\* the end of a list, a lost update and a crash.
LEMMA QuietMovePreserves ==
  ASSUME TaskInv, NEW e \in Executors, NEW x, exec' = [exec EXCEPT ![e] = x],
         ExecOK(x, row, seen), x.pc # "deliver",
         jobLock' \in Executors \cup {Nil}, faults' \in Nat,
         UNCHANGED <<row, lock, seen>>
  PROVE  TaskInv'
<1>1. \A t \in Tasks : row[t].count <= row'[t].count /\ seen[t] <= seen'[t]
  BY Types
<1>2. row' \in [Tasks -> Row] /\ seen' \in [Tasks -> Nat] /\ ExecOK(x, row', seen')
  BY Types
<1>3. exec' \in [Executors -> Executor] /\ ExecutorsInOrder' /\ SnapshotsBehind'
  BY <1>1, <1>2, OneExecutorMoves
<1>4. HoldsItsLock'
  BY LocksKept
<1>5. TypeOK'
  BY <1>3, Types DEF TypeOK
<1>6. SuccessWasDelivered' /\ ErrorAfterRetries'
  BY <1>1, <1>2, RowsKept
<1>. QED  BY <1>3, <1>4, <1>5, <1>6 DEF TaskInv

\* The job's scan reads the rows as they are.
LEMMA JobScanPreserves ==
  ASSUME TaskInv, NEW e \in Executors, JobScan(e)
  PROVE  TaskInv'
<1>. DEFINE Q == QueryUnExecutedNotifyTaskList
            x == Work(Q, TRUE)
<1>1. /\ exec' = [exec EXCEPT ![e] = x] /\ jobLock' = e
      /\ UNCHANGED <<row, lock, seen, faults>>
  BY DEF JobScan
<1>2. Q \in Seq(Snapshot) /\ \A n \in DOMAIN Q : Q[n].count <= row[Q[n].task].count
  BY Types, QueryFacts
<1>. HIDE DEF Q
<1>3. x \in Executor /\ x.pc = "next" /\ x.list = Q
  BY <1>2 DEF Work, Executor
<1>. HIDE DEF x
<1>4. ExecOK(x, row, seen)
  BY <1>2, <1>3 DEF ExecOK
<1>. QED  BY <1>1, <1>3, <1>4, Types, QuietMovePreserves

\* The key is taken and the delivery begins, or the task is skipped.
LEMMA TryLockPreserves ==
  ASSUME TaskInv, NEW e \in Executors, TryLock(e)
  PROVE  TaskInv'
<1>1. /\ exec[e].pc = "next" /\ exec[e].list # <<>>
      /\ UNCHANGED <<row, jobLock, seen, faults>>
  BY DEF TryLock
<1>2. ExecOK(exec[e], row, seen) /\ exec[e] \in Executor
  BY Types
<1>3. Current(e).task \in Tasks
  BY <1>1, <1>2, CurrentIsTask DEF Current
<1>4. CASE Drop(e) /\ lock' = lock
  <2>. DEFINE x == Work(Tail(exec[e].list), exec[e].job)
  <2>1. exec' = [exec EXCEPT ![e] = x]
    BY <1>4 DEF Drop
  <2>2. ExecOK(x, row, seen)
    BY <1>1, <1>2, DropOK
  <2>3. x.pc # "deliver"
    BY DEF Work
  <2>. HIDE DEF x
  <2>. QED  BY <1>1, <1>4, <2>1, <2>2, <2>3, Types, QuietMovePreserves
<1>5. CASE /\ lock[Current(e).task] = Nil
           /\ lock' = [lock EXCEPT ![Current(e).task] = e]
           /\ exec' = [exec EXCEPT ![e].pc = "deliver"]
  <2>. DEFINE x == [exec[e] EXCEPT !.pc = "deliver"]
  <2>1. exec' = [exec EXCEPT ![e] = x]
    BY <1>5
  <2>2. x \in Executor /\ x.pc = "deliver" /\ x.list = exec[e].list
    BY <1>2 DEF Executor
  <2>. HIDE DEF x
  <2>3. ExecOK(x, row', seen')
    BY <1>1, <1>2, <2>2 DEF ExecOK
  <2>4. \A t \in Tasks : row[t].count <= row'[t].count /\ seen[t] <= seen'[t]
    BY <1>1, Types
  <2>5. row' \in [Tasks -> Row] /\ seen' \in [Tasks -> Nat]
    BY <1>1, Types
  <2>6. exec' \in [Executors -> Executor] /\ ExecutorsInOrder' /\ SnapshotsBehind'
    BY <2>1, <2>3, <2>4, <2>5, OneExecutorMoves
  <2>7. HoldsItsLock'
    <3>. SUFFICES ASSUME ~ SlowDelivery, NEW f \in Executors, exec'[f].pc = "deliver"
                  PROVE  lock'[Head(exec'[f].list).task] = f
      BY DEF HoldsItsLock, Current
    <3>1. CASE f = e
      BY <1>3, <1>5, <2>1, <2>2, <3>1, Types DEF Current
    <3>2. CASE f # e
      <4>1. exec'[f] = exec[f]
        BY <2>1, <3>2, Types
      <4>2. lock[Current(f).task] = f
        BY <4>1 DEF TaskInv, HoldsItsLock
      <4>3. Current(f).task # Current(e).task
        BY <1>5, <4>2, NilAssumption
      <4>4. lock'[Current(f).task] = f
        BY <1>5, <4>2, <4>3, Types
      <4>. QED  BY <4>1, <4>4 DEF Current
    <3>. QED  BY <3>1, <3>2
  <2>8. TypeOK'
    BY <1>1, <1>3, <1>5, <2>6, Types DEF TypeOK
  <2>9. SuccessWasDelivered' /\ ErrorAfterRetries'
    BY <1>1, <2>4, <2>5, RowsKept
  <2>. QED  BY <2>6, <2>7, <2>8, <2>9 DEF TaskInv
<1>. QED  BY <1>4, <1>5 DEF TryLock, KeyFree

\* The lock fails: the task is skipped, and a key that was set is nobody's to
\* deliver under.
LEMMA TryLockErrorPreserves ==
  ASSUME TaskInv, NEW e \in Executors, TryLockError(e)
  PROVE  TaskInv'
<1>. DEFINE t == Current(e).task
            x == Work(Tail(exec[e].list), exec[e].job)
<1>1. /\ exec[e].pc = "next" /\ exec[e].list # <<>>
      /\ exec' = [exec EXCEPT ![e] = x] /\ faults' = faults + 1
      /\ UNCHANGED <<row, jobLock, seen>>
      /\ lock' = lock \/ (lock[t] = Nil /\ lock' = [lock EXCEPT ![t] = e])
  BY DEF TryLockError, Fault, Drop, KeyFree
<1>2. ExecOK(exec[e], row, seen) /\ exec[e] \in Executor
  BY Types
<1>3. t \in Tasks
  BY <1>1, <1>2, CurrentIsTask DEF Current
<1>4. ExecOK(x, row, seen) /\ x.pc # "deliver"
  BY <1>1, <1>2, DropOK DEF Work
<1>. HIDE DEF t, x
<1>5. /\ row' \in [Tasks -> Row] /\ seen' \in [Tasks -> Nat] /\ faults' \in Nat
      /\ \A u \in Tasks : row[u].count <= row'[u].count /\ seen[u] <= seen'[u]
  BY <1>1, Types
<1>6. ExecOK(x, row', seen')
  BY <1>1, <1>4
<1>7. exec' \in [Executors -> Executor] /\ ExecutorsInOrder' /\ SnapshotsBehind'
  BY <1>1, <1>5, <1>6, OneExecutorMoves
<1>8. HoldsItsLock'
  <2>. SUFFICES ASSUME ~ SlowDelivery, NEW f \in Executors, exec'[f].pc = "deliver"
                PROVE  lock'[Head(exec'[f].list).task] = f
    BY DEF HoldsItsLock, Current
  <2>1. exec'[f] = exec[f]
    BY <1>1, <1>4, Types
  <2>2. lock[Current(f).task] = f
    BY <2>1 DEF TaskInv, HoldsItsLock
  <2>3. Current(f).task # t \/ lock' = lock
    BY <1>1, <2>2, NilAssumption
  <2>4. exec[f] \in Executor /\ exec[f].list # <<>>
    BY <2>1, Types DEF ExecOK
  <2>5. Current(f).task \in Tasks
    BY <2>4, CurrentIsTask DEF Current
  <2>6. lock'[Current(f).task] = f
    BY <1>1, <2>2, <2>3, <2>5, Types
  <2>. QED  BY <2>1, <2>6 DEF Current
<1>9. TypeOK'
  BY <1>1, <1>3, <1>5, <1>7, Types DEF TypeOK
<1>10. SuccessWasDelivered' /\ ErrorAfterRetries'
  BY <1>1, <1>5, RowsKept
<1>. QED  BY <1>7, <1>8, <1>9, <1>10 DEF TaskInv

\* A delivery, whatever comes back: a callback's success only after the receiver
\* got it.
LEMMA DeliveryPreserves ==
  ASSUME TaskInv, NEW e \in Executors,
         DeliverySucceeds(e) \/ SucceedsUnheard(e) \/ DeliveryFails(e)
  PROVE  TaskInv'
<1>. DEFINE t == Current(e).task
<1>1. /\ exec[e].pc = "deliver" /\ UNCHANGED <<row, jobLock>>
      /\ Release(t)
  BY DEF DeliverySucceeds, SucceedsUnheard, DeliveryFails
<1>0. lock' = lock \/ lock' = [lock EXCEPT ![t] = Nil]
  BY <1>1 DEF Release, Unlock
<1>14. faults' \in Nat
  BY <1>1, Types DEF Release, Fault
<1>2. PICK resp \in {"success", "error"} :
        /\ Answered(e, resp)
        /\ seen' = seen \/ seen' = SeenOnce(t)
        /\ resp = "success" /\ t \in Http => seen' = SeenOnce(t)
  BY DEF DeliverySucceeds, SucceedsUnheard, DeliveryFails
<1>3. ExecOK(exec[e], row, seen) /\ exec[e] \in Executor /\ exec[e].list # <<>>
  BY <1>1, Types DEF ExecOK
<1>4. t \in Tasks
  BY <1>3, CurrentIsTask DEF Current
<1>. HIDE DEF t
<1>5. /\ seen' \in [Tasks -> Nat] /\ \A u \in Tasks : seen[u] <= seen'[u]
      /\ resp = "success" /\ t \in Http => seen'[t] > 0
  <2>1. /\ SeenOnce(t) \in [Tasks -> Nat] /\ SeenOnce(t)[t] > 0
        /\ \A u \in Tasks : seen[u] <= SeenOnce(t)[u]
    <3>1. PICK n \in Nat : n = IF seen[t] < MaxSeen THEN seen[t] + 1 ELSE seen[t]
      BY <1>4, Types
    <3>2. n > 0 /\ n >= seen[t] /\ seen[t] \in Nat
      BY <1>4, <3>1, BoundsAssumption, Types
    <3>3. SeenOnce(t) = [seen EXCEPT ![t] = n]
      BY <3>1 DEF SeenOnce
    <3>. QED  BY <1>4, <3>2, <3>3, Types
  <2>. QED  BY <1>2, <2>1, Types
<1>. DEFINE x == [exec[e] EXCEPT !.pc = "update", !.resp = resp]
<1>6. exec' = [exec EXCEPT ![e] = x]
  BY <1>2, <1>3, Types DEF Answered, Executor
<1>7. x \in Executor /\ x.pc = "update" /\ x.resp = resp /\ x.list = exec[e].list
  BY <1>2, <1>3 DEF Executor
<1>. HIDE DEF x
<1>8. ExecOK(x, row', seen')
  <2>1. Head(x.list).task = t
    BY <1>7 DEF t, Current
  <2>. QED  BY <1>1, <1>3, <1>5, <1>7, <2>1 DEF ExecOK
<1>9. /\ row' \in [Tasks -> Row]
      /\ \A u \in Tasks : row[u].count <= row'[u].count /\ seen[u] <= seen'[u]
  BY <1>1, <1>5, Types
<1>10. exec' \in [Executors -> Executor] /\ ExecutorsInOrder' /\ SnapshotsBehind'
  BY <1>5, <1>6, <1>8, <1>9, OneExecutorMoves
<1>11. HoldsItsLock'
  BY <1>0, <1>1, <1>6, <1>7, LocksKept DEF t
<1>12. TypeOK'
  BY <1>0, <1>1, <1>4, <1>5, <1>10, <1>14, Types DEF TypeOK
<1>13. SuccessWasDelivered' /\ ErrorAfterRetries'
  BY <1>1, <1>5, RowsKept
<1>. QED  BY <1>10, <1>11, <1>12, <1>13 DEF TaskInv

\* The UPDATE, from a snapshot and with no condition on the row: the row is
\* marked as sent only after a delivery, and given up only when the snapshot,
\* which is behind the row, has counted more than RetryLimit attempts.
LEMMA UpdateStatusPreserves ==
  ASSUME TaskInv, NEW e \in Executors, UpdateStatus(e)
  PROVE  TaskInv'
<1>. DEFINE s == Current(e)
            x == Work(Tail(exec[e].list), exec[e].job)
<1>1. /\ exec[e].pc = "update" /\ exec' = [exec EXCEPT ![e] = x]
      /\ UNCHANGED <<lock, jobLock, seen, faults>>
  BY DEF UpdateStatus, Drop
<1>2. PICK to :
        /\ Update(s.task, s.status, to)
        /\ \/ exec[e].resp = "success" /\ to = "success"
           \/ exec[e].resp = "error" /\ to = StatusOnError(s.count)
  BY DEF UpdateStatus
<1>3. ExecOK(exec[e], row, seen) /\ exec[e] \in Executor /\ exec[e].list # <<>>
  BY <1>1, Types DEF ExecOK
<1>4. /\ s.task \in Tasks /\ s.count \in Nat
      /\ s.count <= row[s.task].count
      /\ exec[e].resp = "success" /\ s.task \in Http => seen[s.task] > 0
  BY <1>1, <1>3, CurrentIsTask DEF Current, ExecOK
<1>5. ExecOK(x, row, seen) /\ x.pc = "next"
  BY <1>3, DropOK DEF Work
<1>. HIDE DEF s, x
<1>6. /\ to \in {"success", "retry", "error"}
      /\ to = "success" /\ s.task \in Http => seen[s.task] > 0
      /\ to = "error" => s.count > RetryLimit
  BY <1>2, <1>4 DEF StatusOnError
<1>7. CASE row' = row
  BY <1>1, <1>5, <1>7, Types, QuietMovePreserves
<1>8. CASE row' = [row EXCEPT ![s.task] = [status |-> to, count |-> row[s.task].count + 1]]
  <2>1. PICK c \in Nat : c = row[s.task].count
    BY <1>4, Types
  <2>. DEFINE r == [status |-> to, count |-> c + 1]
  <2>2. r \in Row /\ r.status = to /\ r.count = c + 1
    BY <1>6, <2>1 DEF Row, Status
  <2>3. row' = [row EXCEPT ![s.task] = r]
    BY <1>8, <2>1
  <2>. HIDE DEF r
  <2>4. /\ row' \in [Tasks -> Row] /\ row'[s.task] = r
        /\ \A u \in Tasks \ {s.task} : row'[u] = row[u]
    BY <1>4, <2>2, <2>3, Types
  <2>5. \A u \in Tasks : row[u].count <= row'[u].count /\ seen[u] <= seen'[u]
    <3>1. row[s.task].count <= row'[s.task].count
      BY <2>1, <2>2, <2>4
    <3>. QED  BY <1>1, <2>4, <3>1, Types
  <2>6. seen' \in [Tasks -> Nat]
    BY <1>1, Types
  <2>7. ExecOK(x, row', seen')
    BY <1>5, <2>4, <2>5, <2>6, Types, ExecMonotone
  <2>8. exec' \in [Executors -> Executor] /\ ExecutorsInOrder' /\ SnapshotsBehind'
    BY <1>1, <2>4, <2>5, <2>6, <2>7, OneExecutorMoves
  <2>9. HoldsItsLock'
    BY <1>1, <1>5, LocksKept
  <2>10. TypeOK'
    BY <1>1, <2>4, <2>8, Types DEF TypeOK
  <2>11. SuccessWasDelivered'
    BY <1>1, <1>6, <2>2, <2>4, ChannelAssumption DEF TaskInv, SuccessWasDelivered
  <2>12. ErrorAfterRetries'
    <3>1. to = "error" => c + 1 > RetryLimit + 1
      BY <1>4, <1>6, <2>1, LimitsAssumption
    <3>. QED  BY <2>2, <2>4, <3>1 DEF TaskInv, ErrorAfterRetries
  <2>. QED  BY <2>8, <2>9, <2>10, <2>11, <2>12 DEF TaskInv
<1>. QED  BY <1>2, <1>7, <1>8 DEF Update

\* The end of a list, a lost update and a crash.
LEMMA LeavesPreserves ==
  ASSUME TaskInv, NEW e \in Executors, Finish(e) \/ UpdateLost(e) \/ Crash(e)
  PROVE  TaskInv'
<1>1. CASE Finish(e)
  <2>1. /\ exec' = [exec EXCEPT ![e] = Idle]
        /\ jobLock' \in Executors \cup {Nil} /\ UNCHANGED <<row, lock, seen, faults>>
    BY <1>1, Types DEF Finish
  <2>2. ExecOK(Idle, row, seen) /\ Idle.pc # "deliver"
    BY IdleOK DEF Idle
  <2>. QED  BY <2>1, <2>2, Types, QuietMovePreserves
<1>2. CASE UpdateLost(e)
  <2>. DEFINE x == Work(Tail(exec[e].list), exec[e].job)
  <2>1. /\ exec' = [exec EXCEPT ![e] = x] /\ exec[e].pc = "update"
        /\ faults' = faults + 1 /\ UNCHANGED <<row, lock, jobLock, seen>>
    BY <1>2 DEF UpdateLost, Drop, Fault
  <2>2. ExecOK(exec[e], row, seen) /\ exec[e].list # <<>>
    BY <2>1, Types DEF ExecOK
  <2>3. ExecOK(x, row, seen) /\ x.pc # "deliver"
    BY <2>2, DropOK DEF Work
  <2>4. faults' \in Nat
    BY <2>1, Types
  <2>. HIDE DEF x
  <2>. QED  BY <2>1, <2>3, <2>4, Types, QuietMovePreserves
<1>3. CASE Crash(e)
  <2>1. /\ exec' = [exec EXCEPT ![e] = Idle]
        /\ faults' = faults + 1 /\ UNCHANGED <<row, lock, jobLock, seen>>
    BY <1>3 DEF Crash, Fault
  <2>2. ExecOK(Idle, row, seen) /\ Idle.pc # "deliver"
    BY IdleOK DEF Idle
  <2>3. faults' \in Nat
    BY <2>1, Types
  <2>. QED  BY <2>1, <2>2, <2>3, Types, QuietMovePreserves
<1>. QED  BY <1>1, <1>2, <1>3

\* The end of a lease takes a key from nobody who delivers under it, while
\* deliveries are shorter than leases.
LEMMA LeasePreserves ==
  ASSUME TaskInv, NEW t \in Tasks, LeaseEnds(t)
  PROVE  TaskInv'
<1>1. /\ lock[t] # Nil
      /\ exec[lock[t]].pc = "deliver" /\ Current(lock[t]).task = t => SlowDelivery
      /\ lock' = [lock EXCEPT ![t] = Nil]
      /\ UNCHANGED <<row, jobLock, exec, seen, faults>>
  BY DEF LeaseEnds, Unlock
<1>2. HoldsItsLock'
  <2>. SUFFICES ASSUME ~ SlowDelivery, NEW f \in Executors, exec'[f].pc = "deliver"
                PROVE  lock'[Head(exec'[f].list).task] = f
    BY DEF HoldsItsLock, Current
  <2>1. lock[Current(f).task] = f /\ exec[f].pc = "deliver"
    BY <1>1 DEF TaskInv, HoldsItsLock
  <2>2. Current(f).task # t
    BY <1>1, <2>1
  <2>3. exec[f] \in Executor /\ exec[f].list # <<>>
    BY <2>1, Types DEF ExecOK
  <2>4. Current(f).task \in Tasks
    BY <2>3, CurrentIsTask DEF Current
  <2>5. lock'[Current(f).task] = f
    BY <1>1, <2>1, <2>2, <2>4, Types
  <2>. QED  BY <1>1, <2>5 DEF Current
<1>3. TypeOK'
  BY <1>1, Types DEF TypeOK
<1>4. /\ ExecutorsInOrder' /\ SnapshotsBehind' /\ SuccessWasDelivered' /\ ErrorAfterRetries'
  BY <1>1 DEF TaskInv, ExecutorsInOrder, SnapshotsBehind, SuccessWasDelivered,
     ErrorAfterRetries, Current
<1>. QED  BY <1>2, <1>3, <1>4 DEF TaskInv

\* The end of the job lock's lease, and a step of nobody.
LEMMA StutterPreserves ==
  ASSUME TaskInv, UNCHANGED <<row, lock, exec, seen, faults>>,
         jobLock' \in Executors \cup {Nil}
  PROVE  TaskInv'
<1>1. TypeOK'
  BY Types DEF TypeOK
<1>2. /\ ExecutorsInOrder' /\ SnapshotsBehind' /\ HoldsItsLock'
      /\ SuccessWasDelivered' /\ ErrorAfterRetries'
  BY DEF TaskInv, ExecutorsInOrder, SnapshotsBehind, HoldsItsLock,
     SuccessWasDelivered, ErrorAfterRetries, Current
<1>. QED  BY <1>1, <1>2 DEF TaskInv

-----------------------------------------------------------------------------
(* The theorems                                                            *)

\* Nothing is written and nobody works at first.
LEMMA TaskInit == Init => TaskInv
<1>. SUFFICES ASSUME Init PROVE TaskInv
  OBVIOUS
<1>. USE DEF Init
<1>1. \A rw, sn : ExecOK(Idle, rw, sn)
  BY IdleOK
<1>2. Idle \in Executor /\ Idle.pc = "idle"
  BY <1>1 DEF ExecOK, Idle
<1>3. TypeOK
  <2>1. row \in [Tasks -> Row]
    BY DEF Row
  <2>2. exec \in [Executors -> Executor]
    BY <1>2
  <2>. QED  BY <2>1, <2>2 DEF TypeOK
<1>4. ExecutorsInOrder /\ SnapshotsBehind
  <2>1. \A e \in Executors : ExecOK(exec[e], row, seen)
    BY <1>1
  <2>. QED  BY <1>3, <2>1, ExecSplit DEF TypeOK
<1>5. HoldsItsLock
  BY <1>2 DEF HoldsItsLock
<1>6. SuccessWasDelivered /\ ErrorAfterRetries
  BY ChannelAssumption DEF SuccessWasDelivered, ErrorAfterRetries
<1>. QED  BY <1>3, <1>4, <1>5, <1>6 DEF TaskInv

\* The invariant holds in every state, whichever executors overlap or die.
THEOREM TaskInvariance == Spec => []TaskInv
<1>1. ASSUME TaskInv, [Next]_vars PROVE TaskInv'
  <2>1. CASE UNCHANGED vars
    BY <1>1, <2>1, StutterPreserves, Types DEF vars
  <2>2. CASE JobLeaseEnds
    BY <1>1, <2>2, StutterPreserves DEF JobLeaseEnds
  <2>3. CASE Next /\ ~ JobLeaseEnds
    BY <1>1, <2>3, InsertPreserves, JobScanPreserves, TryLockPreserves,
       TryLockErrorPreserves, DeliveryPreserves, UpdateStatusPreserves, LeavesPreserves, LeasePreserves
       DEF Next, Step
  <2>. QED  BY <1>1, <2>1, <2>2, <2>3
<1>. QED  BY <1>1, TaskInit, PTL DEF Spec

\* Every row, snapshot and executor keeps its shape; the job's query is a list
\* of snapshots of rows that exist.
THEOREM TaskTypeCorrect == Spec => []TypeOK
<1>1. TaskInv => TypeOK
  BY DEF TaskInv
<1>. QED  BY <1>1, TaskInvariance, PTL

\* A callback with a URL is marked as sent only after its receiver got it; a
\* row that is published, or sent nowhere, has no such promise.
THEOREM SuccessWasDeliveredCorrect == Spec => []SuccessWasDelivered
<1>1. TaskInv => SuccessWasDelivered
  BY DEF TaskInv
<1>. QED  BY <1>1, TaskInvariance, PTL

\* A row is given up only after more than RetryLimit attempts on it.
THEOREM ErrorAfterRetriesCorrect == Spec => []ErrorAfterRetries
<1>1. TaskInv => ErrorAfterRetries
  BY DEF TaskInv
<1>. QED  BY <1>1, TaskInvariance, PTL

\* While every delivery is shorter than the lease of its key, a lock without an
\* owner token still lets one executor at a time deliver a task.
THEOREM OneDeliveryCorrect ==
  ASSUME ~ SlowDelivery
  PROVE  Spec => []OneDeliveryAtATime
<1>1. ASSUME TaskInv PROVE OneDeliveryAtATime
  BY <1>1 DEF TaskInv, HoldsItsLock, OneDeliveryAtATime
<1>. QED  BY <1>1, TaskInvariance, PTL
=============================================================================
