--------------------------- MODULE CrowdTagProofs ---------------------------
(***************************************************************************)
(* Proofs about CrowdTag, for any batch, any number of runs and any number *)
(* of users: the inductive invariant TagInv and the properties it implies. *)
(***************************************************************************)
EXTENDS CrowdTag, TLAPS, FiniteSetTheorems

\* The steps of the batch runs, and of a trial's question.
RunStep(r) ==
  \/ Start(r)
  \/ FindDetail(r)
  \/ InsertDetail(r)
  \/ SetBit(r)
  \/ UpdateStatistics(r)
  \/ Fails(r)

CheckStep ==
  \/ \E u \in Users : CheckStart(u)
  \/ GetBit
  \/ KeyExists
  \/ CountUser
  \/ CountAll
  \/ CheckFails

\* Every place of the batch holds one of its users, and there is one.
LEMMA BatchFacts ==
  /\ Len(Batch) \in Nat /\ Len(Batch) > 0
  /\ \A n \in 1..Len(Batch) : Batch[n] \in BatchUsers
  /\ \A u \in BatchUsers : \E n \in 1..Len(Batch) : u = Batch[n]
  /\ BatchUsers \subseteq Users
  /\ BatchUsers # {}
<1>1. /\ Len(Batch) \in Nat /\ Len(Batch) > 0 /\ DOMAIN Batch = 1..Len(Batch)
      /\ \A n \in 1..Len(Batch) : Batch[n] \in Users
  BY BatchAssumption
<1>2. 1 \in 1..Len(Batch)
  BY <1>1
<1>. QED  BY <1>1, <1>2 DEF BatchUsers

\* The bits of the users of a set, and of the batch.
LEMMA IndexFacts ==
  /\ \A S, T : S \subseteq T => IndexesOf(S) \subseteq IndexesOf(T)
  /\ \A S : \A u \in S : IndexFromUserID(u) \in IndexesOf(S)
  /\ IndexesOf(BatchUsers) \subseteq IndexesOf(Users)
  /\ IndexesOf(BatchUsers) # {}
  /\ \A b \in IndexesOf(BatchUsers) :
       \E n \in 1..Len(Batch) : b = IndexFromUserID(Batch[n])
<1>1. \A S, T : S \subseteq T => IndexesOf(S) \subseteq IndexesOf(T)
  BY DEF IndexesOf
<1>2. \A S : \A u \in S : IndexFromUserID(u) \in IndexesOf(S)
  BY DEF IndexesOf
<1>3. IndexesOf(BatchUsers) \subseteq IndexesOf(Users) /\ IndexesOf(BatchUsers) # {}
  BY <1>1, <1>2, BatchFacts
<1>4. \A b \in IndexesOf(BatchUsers) :
        \E n \in 1..Len(Batch) : b = IndexFromUserID(Batch[n])
  BY BatchFacts DEF IndexesOf
<1>. QED  BY <1>1, <1>2, <1>3, <1>4

\* The invariant holds before the first run: nothing is under way.
LEMMA TagInit == Init => TagInv
<1>. SUFFICES ASSUME Init PROVE TagInv
  OBVIOUS
<1>. USE DEF Init
<1>1. IdleRun \in RunState
  BY BatchFacts DEF IdleRun, RunState
<1>2. \A r \in Runs : run[r] = IdleRun
  OBVIOUS
<1>3. TypeOK
  <2>1. check \in Check
    BY DEF Check
  <2>2. detail \subseteq BatchUsers /\ bits \subseteq IndexesOf(BatchUsers) /\ statistics \in Nat
    BY SeededAssumption
  <2>3. started \in 0..MaxRuns /\ completed \in 0..started
    BY RunsAssumption
  <2>. QED  BY <1>1, <2>1, <2>2, <2>3 DEF TypeOK
<1>4. RunsCounted
  <2>1. Active = {}
    BY <1>2 DEF Active, IdleRun
  <2>2. IsFiniteSet(Active) /\ Cardinality(Active) = 0
    BY <2>1, FS_EmptySet
  <2>. QED  BY <2>2 DEF RunsCounted
<1>5. RunProgress
  BY <1>2 DEF RunProgress, IdleRun
<1>6. CheckBetween
  BY DEF CheckBetween
<1>. QED  BY <1>3, <1>4, <1>5, <1>6 DEF TagInv, BitsHaveRows, CompletedInBits

\* A run that stops, at an error or at its end, leaves the set of active runs.
LEMMA StopCounts ==
  ASSUME RunsCounted, NEW r \in Runs, run \in [Runs -> RunState],
         run[r].pc # "idle", Stop(r), started \in Nat, completed \in Nat
  PROVE  /\ IsFiniteSet(Active')
         /\ completed + 1 + Cardinality(Active') <= started
<1>1. Active' = Active \ {r} /\ r \in Active
  BY DEF Active, Stop, IdleRun, RunState
<1>2. IsFiniteSet(Active)
  BY DEF RunsCounted
<1>3. IsFiniteSet(Active \ {r}) /\ Cardinality(Active \ {r}) = Cardinality(Active) - 1
  BY <1>1, <1>2, FS_RemoveElement
<1>4. Cardinality(Active) \in Nat /\ completed + Cardinality(Active) <= started
  BY <1>2, FS_CardinalityType DEF RunsCounted
<1>5. PICK n : n = Cardinality(Active)
  OBVIOUS
<1>6. n \in Nat /\ completed + n <= started
  BY <1>4, <1>5
<1>7. completed + 1 + (n - 1) <= started
  BY <1>6
<1>. QED  BY <1>1, <1>3, <1>5, <1>7

\* A run that goes on, or stands still, stays active.
LEMMA GoesOnCounts ==
  ASSUME RunsCounted, Active' = Active, UNCHANGED <<started, completed>>
  PROVE  RunsCounted'
BY DEF RunsCounted

\* A run preserves the invariant, at every statement and at every error.
LEMMA RunPreserves ==
  ASSUME TagInv, NEW r \in Runs, RunStep(r)
  PROVE  TagInv'
<1>. USE DEF TagInv
<1>1. /\ detail \subseteq BatchUsers /\ bits \subseteq IndexesOf(BatchUsers) /\ statistics \in Nat
      /\ run \in [Runs -> RunState] /\ started \in 0..MaxRuns /\ completed \in 0..started
      /\ started \in Nat /\ completed \in Nat /\ MaxRuns \in Nat
      /\ check \in Check /\ run[r] \in RunState
  BY RunsAssumption DEF TypeOK
<1>2. /\ run[r].pc \in {"idle", "find", "insert", "bit", "statistics"}
      /\ run[r].at \in 1..Len(Batch) + 1
      /\ Len(Batch) \in Nat
  BY <1>1, BatchFacts DEF RunState
<1>3. check' = check
  BY DEF RunStep, Start, FindDetail, InsertDetail, SetBit, UpdateStatistics, Fails
<1>. DEFINE Grows == detail \subseteq detail' /\ bits \subseteq bits'
<1>4. Grows
  BY DEF RunStep, Start, FindDetail, InsertDetail, SetBit, UpdateStatistics, Fails
<1>5. CheckBetween'
  BY <1>3, <1>4 DEF CheckBetween
<1>6. ASSUME UNCHANGED completed PROVE CompletedInBits'
  BY <1>4, <1>6 DEF CompletedInBits
<1>7. \* the other runs see only more rows and more bits
      ASSUME NEW q \in Runs, run'[q] = run[q]
      PROVE  /\ \A n \in 1..(run'[q].at - 1) : IndexFromUserID(Batch[n]) \in bits'
             /\ run'[q].pc \in {"find", "insert", "bit"} => run'[q].at <= Len(Batch)
             /\ run'[q].pc = "bit" => Batch[run'[q].at] \in detail'
             /\ run'[q].pc = "statistics" => run'[q].at = Len(Batch) + 1
             /\ run'[q].pc = "idle" => run'[q].at = 1
  BY <1>4, <1>7 DEF RunProgress, User
<1>. DEFINE Good(s) ==
       /\ s \in RunState
       /\ \A n \in 1..(s.at - 1) : IndexFromUserID(Batch[n]) \in bits'
       /\ s.pc \in {"find", "insert", "bit"} => s.at <= Len(Batch)
       /\ s.pc = "bit" => Batch[s.at] \in detail'
       /\ s.pc = "statistics" => s.at = Len(Batch) + 1
       /\ s.pc = "idle" => s.at = 1
<1>8. \* so one run's new state is all there is to look at
      ASSUME NEW s, run' = [run EXCEPT ![r] = s], Good(s)
      PROVE  RunProgress' /\ run' \in [Runs -> RunState]
  <2>1. \A q \in Runs \ {r} : run'[q] = run[q]
    BY <1>1, <1>8
  <2>2. run'[r] = s
    BY <1>1, <1>8
  <2>3. run' \in [Runs -> RunState]
    BY <1>1, <1>8
  <2>4. RunProgress'
    BY <1>7, <1>8, <2>1, <2>2 DEF RunProgress, User
  <2>. QED  BY <2>3, <2>4
<1>. HIDE DEF Good
<1>9. Good(IdleRun)
  BY <1>2, BatchFacts DEF Good, IdleRun, RunState
<1>10. ASSUME NEW pc \in {"find", "insert", "bit"}, run' = [run EXCEPT ![r].pc = pc],
              run[r].at <= Len(Batch), pc = "bit" => User(r) \in detail'
       PROVE  RunProgress' /\ run' \in [Runs -> RunState]
  <2>. DEFINE s == [run[r] EXCEPT !.pc = pc]
  <2>1. run' = [run EXCEPT ![r] = s]
    BY <1>10
  <2>2. s.pc = pc /\ s.at = run[r].at /\ s \in RunState
    BY <1>1, <1>2 DEF RunState
  <2>. HIDE DEF s
  <2>3. Good(s)
    BY <1>4, <1>10, <2>2 DEF Good, RunProgress, User
  <2>. QED  BY <1>8, <2>1, <2>3
<1>11. ASSUME Stop(r)
       PROVE  RunProgress' /\ run' \in [Runs -> RunState]
  BY <1>8, <1>9, <1>11 DEF Stop
<1>12. ASSUME run[r].pc # "idle", run' \in [Runs -> RunState], run'[r].pc # "idle",
              \A q \in Runs \ {r} : run'[q] = run[q]
       PROVE  Active' = Active
  BY <1>12 DEF Active
<1>13. ASSUME NEW pc, Goto(r, pc)
       PROVE  /\ run' = [run EXCEPT ![r].pc = pc] /\ run'[r].pc = pc
              /\ \A q \in Runs \ {r} : run'[q] = run[q]
  BY <1>1, <1>13 DEF Goto, RunState
<1>14. CASE Start(r)
  <2>1. /\ run[r].pc = "idle" /\ started < MaxRuns /\ started' = started + 1
        /\ Goto(r, "find") /\ UNCHANGED <<detail, bits, statistics, completed, check>>
    BY <1>14 DEF Start
  <2>2. run[r].at = 1 /\ 1 <= Len(Batch)
    BY <2>1, BatchFacts DEF RunProgress
  <2>3. RunProgress' /\ run' \in [Runs -> RunState]
    BY <1>10, <1>13, <2>1, <2>2
  <2>4. RunsCounted'
    <3>1. Active' = Active \cup {r} /\ r \notin Active
      BY <1>13, <2>1, <2>3 DEF Active
    <3>2. IsFiniteSet(Active) /\ Cardinality(Active) \in Nat
      BY FS_CardinalityType DEF RunsCounted
    <3>3. /\ IsFiniteSet(Active \cup {r})
          /\ Cardinality(Active \cup {r}) = Cardinality(Active) + 1
      BY <3>1, <3>2, FS_AddElement
    <3>4. PICK n : n = Cardinality(Active)
      OBVIOUS
    <3>5. n \in Nat /\ completed + n <= started
      BY <3>2, <3>4 DEF RunsCounted
    <3>6. completed + (n + 1) <= started + 1
      BY <1>1, <3>5
    <3>. QED  BY <2>1, <3>1, <3>3, <3>4, <3>6 DEF RunsCounted
  <2>5. started' \in 0..MaxRuns /\ completed' \in 0..started'
    BY <1>1, <2>1
  <2>6. TypeOK'
    BY <1>1, <2>1, <2>3, <2>5 DEF TypeOK
  <2>7. BitsHaveRows'
    BY <2>1 DEF BitsHaveRows
  <2>. QED  BY <1>5, <1>6, <2>1, <2>3, <2>4, <2>6, <2>7
<1>15. CASE FindDetail(r)
  <2>. DEFINE pc == IF User(r) \in detail THEN "bit" ELSE "insert"
  <2>1. /\ run[r].pc = "find" /\ Goto(r, pc)
        /\ UNCHANGED <<detail, bits, statistics, started, completed, check>>
    BY <1>15 DEF FindDetail
  <2>2. pc \in {"find", "insert", "bit"} /\ (pc = "bit" => User(r) \in detail')
    BY <2>1
  <2>. HIDE DEF pc
  <2>3. run[r].at <= Len(Batch)
    BY <2>1 DEF RunProgress
  <2>4. RunProgress' /\ run' \in [Runs -> RunState]
    BY <1>10, <1>13, <2>1, <2>2, <2>3
  <2>5. Active' = Active
    BY <1>12, <1>13, <2>1, <2>2, <2>4
  <2>6. RunsCounted'
    BY <2>1, <2>5, GoesOnCounts
  <2>7. TypeOK' /\ BitsHaveRows'
    BY <1>1, <2>1, <2>4 DEF TypeOK, BitsHaveRows
  <2>. QED  BY <1>5, <1>6, <2>1, <2>4, <2>6, <2>7
<1>16. CASE InsertDetail(r)
  <2>1. /\ run[r].pc = "insert"
        /\ UNCHANGED <<bits, statistics, started, completed, check>>
    BY <1>16 DEF InsertDetail
  <2>2. run[r].at <= Len(Batch)
    BY <2>1 DEF RunProgress
  <2>3. User(r) \in BatchUsers
    BY <1>2, <2>2, BatchFacts DEF User
  <2>4. CASE detail' = detail \cup {User(r)} /\ Goto(r, "bit")
    <3>1. RunProgress' /\ run' \in [Runs -> RunState]
      BY <1>10, <1>13, <2>2, <2>4
    <3>2. Active' = Active
      BY <1>12, <1>13, <2>1, <2>4, <3>1
    <3>3. RunsCounted'
      BY <2>1, <3>2, GoesOnCounts
    <3>4. IndexesOf(detail) \subseteq IndexesOf(detail')
      BY <1>4, IndexFacts
    <3>5. TypeOK' /\ BitsHaveRows'
      BY <1>1, <2>1, <2>3, <2>4, <3>1, <3>4 DEF TypeOK, BitsHaveRows
    <3>. QED  BY <1>5, <1>6, <2>1, <3>1, <3>3, <3>5
  <2>5. CASE detail' = detail /\ Stop(r)
    <3>1. RunProgress' /\ run' \in [Runs -> RunState]
      BY <1>11, <2>5
    <3>2. RunsCounted'
      <4>1. /\ IsFiniteSet(Active') /\ completed + 1 + Cardinality(Active') <= started
        BY <1>1, <2>1, <2>5, StopCounts
      <4>2. Cardinality(Active') \in Nat
        BY <4>1, FS_CardinalityType
      <4>. QED  BY <1>1, <2>1, <4>1, <4>2 DEF RunsCounted
    <3>3. TypeOK' /\ BitsHaveRows'
      BY <1>1, <2>1, <2>5, <3>1 DEF TypeOK, BitsHaveRows
    <3>. QED  BY <1>5, <1>6, <2>1, <3>1, <3>2, <3>3
  <2>. QED  BY <1>16, <2>4, <2>5 DEF InsertDetail
<1>17. CASE SetBit(r)
  <2>1. /\ run[r].pc = "bit" /\ bits' = bits \cup {IndexFromUserID(User(r))}
        /\ NextUser(r)
        /\ UNCHANGED <<detail, statistics, started, completed, check>>
    BY <1>17 DEF SetBit
  <2>2. run[r].at <= Len(Batch) /\ User(r) \in detail
    BY <2>1 DEF RunProgress
  <2>. DEFINE s == [pc |-> IF run[r].at < Len(Batch) THEN "find" ELSE "statistics",
                    at |-> run[r].at + 1]
  <2>3. run' = [run EXCEPT ![r] = s]
    BY <2>1 DEF NextUser
  <2>4. Good(s)
    <3>1. s.at = run[r].at + 1 /\ s.pc \in {"find", "statistics"} /\ s \in RunState
          /\ (s.pc = "find" => s.at <= Len(Batch))
          /\ (s.pc = "statistics" => s.at = Len(Batch) + 1)
      BY <1>2, <2>2 DEF RunState
    <3>2. ASSUME NEW n \in 1..(s.at - 1) PROVE IndexFromUserID(Batch[n]) \in bits'
      <4>1. n \in 1..(run[r].at - 1) \/ n = run[r].at
        BY <1>2, <3>1
      <4>. QED  BY <2>1, <4>1 DEF RunProgress, User
    <3>. HIDE DEF s
    <3>. QED  BY <3>1, <3>2 DEF Good
  <2>. HIDE DEF s
  <2>5. RunProgress' /\ run' \in [Runs -> RunState]
    BY <1>8, <2>3, <2>4
  <2>6. run'[r].pc # "idle" /\ \A q \in Runs \ {r} : run'[q] = run[q]
    BY <1>1, <2>3 DEF s
  <2>7. RunsCounted'
    BY <1>12, <2>1, <2>5, <2>6, GoesOnCounts
  <2>8. TypeOK' /\ BitsHaveRows'
    <3>1. User(r) \in BatchUsers
      BY <1>2, <2>2, BatchFacts DEF User
    <3>2. PICK b : b = IndexFromUserID(User(r))
      OBVIOUS
    <3>3. b \in IndexesOf(BatchUsers) /\ b \in IndexesOf(detail)
      BY <2>2, <3>1, <3>2, IndexFacts
    <3>4. IndexesOf(detail') = IndexesOf(detail) /\ bits' = bits \cup {b}
      BY <2>1, <3>2
    <3>. QED  BY <1>1, <2>1, <2>5, <3>3, <3>4 DEF TypeOK, BitsHaveRows
  <2>. QED  BY <1>5, <1>6, <2>1, <2>5, <2>7, <2>8
<1>18. CASE UpdateStatistics(r)
  <2>1. /\ run[r].pc = "statistics" /\ statistics' = statistics + Len(Batch)
        /\ completed' = completed + 1 /\ Stop(r)
        /\ UNCHANGED <<detail, bits, started, check>>
    BY <1>18 DEF UpdateStatistics
  <2>2. RunProgress' /\ run' \in [Runs -> RunState]
    BY <1>11, <2>1
  <2>3. IsFiniteSet(Active') /\ completed + 1 + Cardinality(Active') <= started
    BY <1>1, <2>1, StopCounts
  <2>4. RunsCounted'
    BY <2>1, <2>3 DEF RunsCounted
  <2>5. completed' \in 0..started'
    <3>1. Cardinality(Active') \in Nat
      BY <2>3, FS_CardinalityType
    <3>2. PICK n : n = Cardinality(Active')
      OBVIOUS
    <3>3. n \in Nat /\ completed + 1 + n <= started
      BY <2>3, <3>1, <3>2
    <3>. QED  BY <1>1, <2>1, <3>3
  <2>6. CompletedInBits'
    <3>1. run[r].at = Len(Batch) + 1
      BY <2>1 DEF RunProgress
    <3>2. \A n \in 1..Len(Batch) : IndexFromUserID(Batch[n]) \in bits
      <4>1. run[r].at - 1 = Len(Batch)
        BY <1>2, <3>1
      <4>. QED  BY <4>1 DEF RunProgress
    <3>. QED  BY <2>1, <3>2, IndexFacts DEF CompletedInBits
  <2>7. TypeOK' /\ BitsHaveRows'
    BY <1>1, <1>2, <2>1, <2>2, <2>5 DEF TypeOK, BitsHaveRows
  <2>. QED  BY <1>5, <2>2, <2>4, <2>6, <2>7
<1>19. CASE Fails(r)
  <2>1. /\ run[r].pc # "idle" /\ Stop(r)
        /\ UNCHANGED <<detail, bits, statistics, started, completed, check>>
    BY <1>19 DEF Fails
  <2>2. RunProgress' /\ run' \in [Runs -> RunState]
    BY <1>11, <2>1
  <2>3. RunsCounted'
    <3>1. /\ IsFiniteSet(Active') /\ completed + 1 + Cardinality(Active') <= started
      BY <1>1, <2>1, StopCounts
    <3>2. Cardinality(Active') \in Nat
      BY <3>1, FS_CardinalityType
    <3>. QED  BY <1>1, <2>1, <3>1, <3>2 DEF RunsCounted
  <2>4. TypeOK' /\ BitsHaveRows'
    BY <1>1, <2>1, <2>2 DEF TypeOK, BitsHaveRows
  <2>. QED  BY <1>5, <1>6, <2>1, <2>2, <2>3, <2>4
<1>. QED  BY <1>14, <1>15, <1>16, <1>17, <1>18, <1>19 DEF RunStep

\* A trial's question writes neither table nor runs, and each of its statements
\* keeps its answer between the bits it was asked with and the bits there are.
LEMMA CheckPreserves ==
  ASSUME TagInv, CheckStep
  PROVE  TagInv'
<1>. USE DEF TagInv
<1>1. UNCHANGED <<detail, bits, statistics, run, started, completed>>
  BY DEF CheckStep, CheckStart, GetBit, KeyExists, CountUser, CountAll, CheckFails, table
<1>2. /\ check \in Check /\ bits \subseteq IndexesOf(Users)
      /\ bits \subseteq IndexesOf(BatchUsers)
      /\ CheckBetween
  BY IndexFacts DEF TypeOK
<1>3. /\ check.pc \in {"idle", "getbit", "exists", "count", "total", "done"}
      /\ check.within \in BOOLEAN
  BY <1>2 DEF Check
<1>4. ASSUME NEW pc \in {"idle", "exists", "count", "total", "done"},
             NEW w \in BOOLEAN,
             check' = [check EXCEPT !.pc = pc, !.within = w],
             check.seen # {} =>
               /\ pc \notin {"count", "total"}
               /\ pc \in {"exists", "done"} =>
                    /\ IndexFromUserID(check.user) \in check.seen => w
                    /\ w => IndexFromUserID(check.user) \in bits
      PROVE  check' \in Check /\ CheckBetween'
  <2>1. /\ check' \in Check
        /\ check'.pc = pc /\ check'.within = w
        /\ check'.seen = check.seen /\ check'.after = check.after
        /\ check'.user = check.user
    BY <1>2, <1>4 DEF Check
  <2>. QED  BY <1>1, <1>2, <1>4, <2>1 DEF CheckBetween
<1>5. check' \in Check /\ CheckBetween'
  <2>1. ASSUME NEW u \in Users, CheckStart(u) PROVE check' \in Check /\ CheckBetween'
    <3>. DEFINE c == [pc |-> IF bits = {} THEN "exists" ELSE "getbit", user |-> u,
                      within |-> bits = {}, seen |-> bits, after |-> completed > 0]
    <3>1. check' = c
      BY <2>1 DEF CheckStart
    <3>2. completed > 0 => IndexesOf(BatchUsers) \subseteq bits
      BY DEF CompletedInBits
    <3>3. c \in Check
      BY <1>2 DEF Check
    <3>. QED  BY <1>1, <3>1, <3>2, <3>3 DEF CheckBetween
  <2>2. CASE GetBit
    <3>1. /\ check.pc = "getbit"
          /\ check' = [check EXCEPT !.pc = "exists",
                                    !.within = IndexFromUserID(check.user) \in bits]
      BY <2>2 DEF GetBit
    <3>2. PICK w \in BOOLEAN : w = (IndexFromUserID(check.user) \in bits)
      <4>1. CASE IndexFromUserID(check.user) \in bits
        BY <4>1, TRUE = (IndexFromUserID(check.user) \in bits)
      <4>2. CASE IndexFromUserID(check.user) \notin bits
        BY <4>2, FALSE = (IndexFromUserID(check.user) \in bits)
      <4>. QED  BY <4>1, <4>2
    <3>3. check' = [check EXCEPT !.pc = "exists", !.within = w]
      BY <3>1, <3>2
    <3>4. IndexFromUserID(check.user) \in check.seen => IndexFromUserID(check.user) \in bits
      BY <1>2 DEF CheckBetween
    <3>. QED  BY <1>4, <3>2, <3>3, <3>4
  <2>3. CASE KeyExists
    <3>1. CASE bits # {}
      <4>1. check.pc = "exists"
            /\ check' = [check EXCEPT !.pc = "done", !.within = check.within]
        BY <2>3, <3>1 DEF KeyExists, Answer
      <4>. QED  BY <1>2, <1>3, <1>4, <4>1 DEF CheckBetween
    <3>2. CASE bits = {}
      <4>1. check.pc = "exists" /\ check' = [check EXCEPT !.pc = "count"]
        BY <2>3, <3>2 DEF KeyExists
      <4>2. check' = [check EXCEPT !.pc = "count", !.within = check.within]
        BY <1>2, <4>1 DEF Check
      <4>3. check.seen = {}
        BY <1>2, <3>2 DEF CheckBetween
      <4>. QED  BY <1>3, <1>4, <4>2, <4>3
    <3>. QED  BY <3>1, <3>2
  <2>4. CASE CountUser
    <3>1. /\ check.pc = "count"
          /\ check' = [check EXCEPT !.pc = "total", !.within = check.user \in detail]
      BY <2>4 DEF CountUser
    <3>2. PICK w \in BOOLEAN : w = (check.user \in detail)
      <4>1. CASE check.user \in detail
        BY <4>1, TRUE = (check.user \in detail)
      <4>2. CASE check.user \notin detail
        BY <4>2, FALSE = (check.user \in detail)
      <4>. QED  BY <4>1, <4>2
    <3>3. check' = [check EXCEPT !.pc = "total", !.within = w]
      BY <3>1, <3>2
    <3>4. check.seen = {}
      BY <1>2, <3>1 DEF CheckBetween
    <3>. QED  BY <1>4, <3>3, <3>4
  <2>5. CASE CountAll
    <3>1. check.pc = "total"
      BY <2>5 DEF CountAll
    <3>2. check.seen = {}
      BY <1>2, <3>1 DEF CheckBetween
    <3>3. PICK w \in BOOLEAN : check' = [check EXCEPT !.pc = "done", !.within = w]
      BY <1>3, <2>5 DEF CountAll, Answer
    <3>. QED  BY <1>4, <3>2, <3>3
  <2>6. CASE CheckFails
    <3>1. check' = [check EXCEPT !.pc = "idle"]
      BY <2>6 DEF CheckFails
    <3>2. check' = [check EXCEPT !.pc = "idle", !.within = check.within]
      BY <1>2, <3>1 DEF Check
    <3>. QED  BY <1>3, <1>4, <3>2
  <2>. QED  BY <2>1, <2>2, <2>3, <2>4, <2>5, <2>6 DEF CheckStep
<1>6. TypeOK'
  BY <1>1, <1>5 DEF TypeOK
<1>7. RunsCounted'
  <2>1. Active' = Active
    BY <1>1 DEF Active
  <2>. QED  BY <1>1, <2>1, GoesOnCounts
<1>8. BitsHaveRows' /\ RunProgress' /\ CompletedInBits'
  BY <1>1 DEF BitsHaveRows, RunProgress, CompletedInBits, User
<1>. QED  BY <1>5, <1>6, <1>7, <1>8

\* The invariant holds in every state of every behaviour, with overlapping runs
\* that fail anywhere and trials that ask meanwhile.
THEOREM TagInvariance == Spec => []TagInv
<1>1. ASSUME TagInv, [Next]_vars PROVE TagInv'
  <2>1. CASE UNCHANGED vars
    <3>1. Active' = Active
      BY <2>1 DEF vars, Active
    <3>2. RunsCounted'
      BY <1>1, <2>1, <3>1, GoesOnCounts DEF TagInv, vars
    <3>. QED
      BY <1>1, <2>1, <3>2 DEF TagInv, vars, TypeOK, BitsHaveRows, RunProgress, User,
         CompletedInBits, CheckBetween
  <2>2. ASSUME NEW r \in Runs, RunStep(r) PROVE TagInv'
    BY <1>1, <2>2, RunPreserves
  <2>3. CASE CheckStep
    BY <1>1, <2>3, CheckPreserves
  <2>. QED  BY <1>1, <2>1, <2>2, <2>3 DEF Next, RunStep, CheckStep
<1>. QED  BY <1>1, TagInit, PTL DEF Spec

\* Every variable keeps its shape; a batch run never leaves the batch, and no
\* more runs complete than were started.
THEOREM TagTypeCorrect == Spec => []TypeOK
<1>1. TagInv => TypeOK
  BY DEF TagInv
<1>. QED  BY <1>1, TagInvariance, PTL

\* The bit set never runs ahead of the rows, for any number of overlapping and
\* failing runs.
THEOREM BitsHaveRowsCorrect == Spec => []BitsHaveRows
<1>1. TagInv => BitsHaveRows
  BY DEF TagInv
<1>. QED  BY <1>1, TagInvariance, PTL

\* A trial that asks after a completed run is told yes for who has the bit of a
\* user of the batch, and no for all others, whichever users share bits.
THEOREM CompletedBatchCorrect == Spec => []CompletedBatchIsTheCrowd
<1>1. ASSUME TagInv PROVE CompletedBatchIsTheCrowd
  <2>. SUFFICES ASSUME check.pc = "done", check.after
                PROVE  check.within <=> IndexFromUserID(check.user) \in IndexesOf(BatchUsers)
    BY DEF CompletedBatchIsTheCrowd
  <2>1. IndexesOf(BatchUsers) \subseteq check.seen /\ check.seen # {}
    BY <1>1, IndexFacts DEF TagInv, CheckBetween
  <2>2. bits \subseteq IndexesOf(BatchUsers) /\ check.within \in BOOLEAN
    BY <1>1 DEF TagInv, TypeOK, Check
  <2>. QED  BY <1>1, <2>1, <2>2 DEF TagInv, CheckBetween
<1>. QED  BY <1>1, TagInvariance, PTL

\* Once a bit is set, the statements of one question add up to the answer of
\* one moment.
THEOREM AnswerOfOneMomentCorrect == Spec => []AnswerOfOneMoment
<1>1. ASSUME TagInv PROVE AnswerOfOneMoment
  BY <1>1 DEF TagInv, CheckBetween, AnswerOfOneMoment
<1>. QED  BY <1>1, TagInvariance, PTL
=============================================================================
