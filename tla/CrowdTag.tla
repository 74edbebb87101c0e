------------------------------ MODULE CrowdTag ------------------------------
(***************************************************************************)
(* The crowd of one tag: the rows of crowd_tags_detail, the bit set in     *)
(* Redis that the trial reads, and the statistics column of crowd_tags.    *)
(* A batch run adds its users one by one, the row before the bit, and then *)
(* adds their number to the statistics.  Runs are started over HTTP, may   *)
(* overlap, and stop at the first error; none of it is a transaction.      *)
(* Trials meanwhile ask whether a user is in the crowd: Redis is asked     *)
(* first, and the database when Redis has no bit set for the tag.          *)
(*                                                                         *)
(* A user's bit is found by a hash, and users may share one.               *)
(***************************************************************************)
EXTENDS Integers, Sequences, FiniteSets

CONSTANTS
  Users,            \* everybody the trial may ask about
  Index,            \* the hash of each user modulo 10^8
  Batch,            \* the users of the batch, in the order they are added
  Seeded,           \* users with a row before the first run
  SeededStatistics, \* the statistics before the first run
  Runs,             \* requests that may run the batch at the same time
  MaxRuns,          \* bound: runs started
  MayFail           \* whether a statement may fail, or the process die

BatchUsers == {Batch[n] : n \in DOMAIN Batch}

IndexFromUserID(u) == Index[u]
IndexesOf(users) == {IndexFromUserID(u) : u \in users}

ASSUME IndexAssumption  == Index \in [Users -> Nat]
ASSUME BatchAssumption  == Batch \in Seq(Users) /\ Len(Batch) > 0
ASSUME SeededAssumption == Seeded \subseteq BatchUsers /\ SeededStatistics \in Nat
ASSUME RunsAssumption   == MaxRuns \in Nat /\ MayFail \in BOOLEAN

VARIABLES
  detail,      \* users with a row in crowd_tags_detail
  bits,        \* the bits that are set
  statistics,  \* the statistics column
  run,         \* where each run is
  started,     \* runs started so far
  completed,   \* runs that returned without an error so far
  check        \* a trial's question, as far as it has been answered

table == <<detail, bits, statistics>>
vars == <<detail, bits, statistics, run, started, completed, check>>

RunState == [pc: {"idle", "find", "insert", "bit", "statistics"},
             at: 1..Len(Batch) + 1]
IdleRun == [pc |-> "idle", at |-> 1]

\* seen (ghost): the bits when the question was asked; after (ghost): whether
\* a run had completed by then.
Check == [pc: {"idle", "getbit", "exists", "count", "total", "done"},
          user: Users, within: BOOLEAN, seen: SUBSET IndexesOf(Users),
          after: BOOLEAN]

Init ==
  /\ detail = Seeded
  /\ bits = {}
  /\ statistics = SeededStatistics
  /\ run = [r \in Runs |-> IdleRun]
  /\ started = 0
  /\ completed = 0
  /\ check \in [pc: {"idle"}, user: Users, within: {FALSE}, seen: {{}}, after: {FALSE}]

User(r) == Batch[run[r].at]
Goto(r, pc) == run' = [run EXCEPT ![r].pc = pc]
Stop(r) == run' = [run EXCEPT ![r] = IdleRun]

\* ExecTagBatchJob, for a batch that exists.
Start(r) ==
  /\ run[r].pc = "idle"
  /\ started < MaxRuns
  /\ started' = started + 1
  /\ Goto(r, "find")
  /\ UNCHANGED <<detail, bits, statistics, completed, check>>

\* Mutant: the bit is set whether or not there is a row.
FindDetailIgnored(r) ==
  /\ run[r].pc = "find"
  /\ Goto(r, "bit")
  /\ UNCHANGED <<detail, bits, statistics, started, completed, check>>

\* FirstOrCreate, the SELECT.
FindDetail(r) ==
  /\ run[r].pc = "find"
  /\ Goto(r, IF User(r) \in detail THEN "bit" ELSE "insert")
  /\ UNCHANGED <<detail, bits, statistics, started, completed, check>>

\* FirstOrCreate, the INSERT: uq_tag_user refuses a row written meanwhile, and
\* the run returns that error.
InsertDetail(r) ==
  /\ run[r].pc = "insert"
  /\ \/ /\ User(r) \notin detail
        /\ detail' = detail \cup {User(r)}
        /\ Goto(r, "bit")
     \/ /\ User(r) \in detail
        /\ Stop(r)
        /\ UNCHANGED detail
  /\ UNCHANGED <<bits, statistics, started, completed, check>>

\* Mutant: the loop ends after its first user.
NextUserEarly(r) ==
  run' = [run EXCEPT ![r] = [pc |-> "statistics", at |-> @.at]]

\* The next user of the loop, or its end.
NextUser(r) ==
  run' = [run EXCEPT ![r] = [pc |-> IF @.at < Len(Batch) THEN "find" ELSE "statistics",
                             at |-> @.at + 1]]

\* AddTagCrowd: SETBIT.
SetBit(r) ==
  /\ run[r].pc = "bit"
  /\ bits' = bits \cup {IndexFromUserID(User(r))}
  /\ NextUser(r)
  /\ UNCHANGED <<detail, statistics, started, completed, check>>

\* Mutant: UpdateCrowdTagsStatistics subtracts.
UpdateStatisticsDown(r) ==
  /\ run[r].pc = "statistics"
  /\ statistics' = statistics - Len(Batch)
  /\ completed' = completed + 1
  /\ Stop(r)
  /\ UNCHANGED <<detail, bits, started, check>>

\* UpdateCrowdTagsStatistics: statistics + the size of the batch.
UpdateStatistics(r) ==
  /\ run[r].pc = "statistics"
  /\ statistics' = statistics + Len(Batch)
  /\ completed' = completed + 1
  /\ Stop(r)
  /\ UNCHANGED <<detail, bits, started, check>>

\* Any other error, or a crash: the run stops where it is.
Fails(r) ==
  /\ MayFail
  /\ run[r].pc # "idle"
  /\ Stop(r)
  /\ UNCHANGED <<detail, bits, statistics, started, completed, check>>

-----------------------------------------------------------------------------
(* IsTagCrowdRange, statement by statement                                 *)

Answer(within) == check' = [check EXCEPT !.pc = "done", !.within = within]

\* The Redis service: EXISTS; without a bit it says yes.
CheckStart(u) ==
  /\ check.pc \in {"idle", "done"}
  /\ check' = [pc |-> IF bits = {} THEN "exists" ELSE "getbit", user |-> u,
               within |-> bits = {}, seen |-> bits, after |-> completed > 0]
  /\ UNCHANGED <<table, run, started, completed>>

\* The Redis service: GETBIT.
GetBit ==
  /\ check.pc = "getbit"
  /\ check' = [check EXCEPT !.pc = "exists",
                            !.within = IndexFromUserID(check.user) \in bits]
  /\ UNCHANGED <<table, run, started, completed>>

\* Mutant: the database decides in any case.
KeyExistsIgnored ==
  /\ check.pc = "exists"
  /\ check' = [check EXCEPT !.pc = "count"]
  /\ UNCHANGED <<table, run, started, completed>>

\* The repository: EXISTS again; with a bit, the answer of the Redis service.
KeyExists ==
  /\ check.pc = "exists"
  /\ IF bits # {} THEN Answer(check.within)
                  ELSE check' = [check EXCEPT !.pc = "count"]
  /\ UNCHANGED <<table, run, started, completed>>

\* The repository: the rows of this user, ...
CountUser ==
  /\ check.pc = "count"
  /\ check' = [check EXCEPT !.pc = "total", !.within = check.user \in detail]
  /\ UNCHANGED <<table, run, started, completed>>

\* ... and the rows of the tag; without any, or when they cannot be counted
\* (the error is dropped), everybody is in the crowd.
CountAll ==
  /\ check.pc = "total"
  /\ \/ Answer(detail = {} \/ check.within)
     \/ MayFail /\ Answer(TRUE)
  /\ UNCHANGED <<table, run, started, completed>>

\* An error of an earlier statement: the trial fails.
CheckFails ==
  /\ MayFail
  /\ check.pc \in {"getbit", "exists", "count"}
  /\ check' = [check EXCEPT !.pc = "idle"]
  /\ UNCHANGED <<table, run, started, completed>>

Next ==
  \/ \E r \in Runs :
       \/ Start(r)
       \/ FindDetail(r)
       \/ InsertDetail(r)
       \/ SetBit(r)
       \/ UpdateStatistics(r)
       \/ Fails(r)
  \/ \E u \in Users : CheckStart(u)
  \/ GetBit
  \/ KeyExists
  \/ CountUser
  \/ CountAll
  \/ CheckFails

Spec == Init /\ [][Next]_vars

-----------------------------------------------------------------------------
(* Properties                                                              *)

\* Every variable has the shape the code gives it.
TypeOK ==
  /\ detail \subseteq BatchUsers
  /\ bits \subseteq IndexesOf(BatchUsers)
  /\ statistics \in Nat
  /\ run \in [Runs -> RunState]
  /\ started \in 0..MaxRuns
  /\ completed \in 0..started
  /\ check \in Check

\* Redis never has a bit set without a user in the database whose bit it is:
\* rows come before bits in every run, and no error or overlap changes that.
BitsHaveRows == bits \subseteq IndexesOf(detail)

\* A trial that asks after a run has returned without an error is told that
\* the users of the batch are in the crowd, and of the others those and only
\* those who share a bit with one of them, whatever later or overlapping runs
\* fail at.
CompletedBatchIsTheCrowd ==
  check.pc = "done" /\ check.after =>
    (check.within <=> IndexFromUserID(check.user) \in IndexesOf(BatchUsers))

\* Once a bit is set, the five statements of IsTagCrowdRange give the answer
\* of one moment while they ran: yes to a user whose bit was set when the trial
\* asked, no to one whose bit is still not set when it is answered.
AnswerOfOneMoment ==
  check.pc = "done" /\ check.seen # {} =>
    /\ IndexFromUserID(check.user) \in check.seen => check.within
    /\ check.within => IndexFromUserID(check.user) \in bits

-----------------------------------------------------------------------------
(* What keeps these properties true from step to step                      *)

Active == {r \in Runs : run[r].pc # "idle"}

\* A run counts once, under way or completed.
RunsCounted ==
  /\ IsFiniteSet(Active)
  /\ completed + Cardinality(Active) <= started

\* Where a run is in the batch: the users before it have their bit, and the
\* user it is about to set a bit for has a row.
RunProgress ==
  \A r \in Runs :
    /\ \A n \in 1..(run[r].at - 1) : IndexFromUserID(Batch[n]) \in bits
    /\ run[r].pc \in {"find", "insert", "bit"} => run[r].at <= Len(Batch)
    /\ run[r].pc = "bit" => User(r) \in detail
    /\ run[r].pc = "statistics" => run[r].at = Len(Batch) + 1
    /\ run[r].pc = "idle" => run[r].at = 1

\* A completed run has set every bit of the batch.
CompletedInBits == completed > 0 => IndexesOf(BatchUsers) \subseteq bits

\* A question asked when a bit was set never reaches the database, and its
\* answer lies between the bits then and the bits now.
CheckBetween ==
  /\ check.seen \subseteq bits
  /\ check.after => IndexesOf(BatchUsers) \subseteq check.seen
  /\ check.seen # {} =>
       /\ check.pc \notin {"count", "total"}
       /\ check.pc \in {"exists", "done"} =>
            /\ IndexFromUserID(check.user) \in check.seen => check.within
            /\ check.within => IndexFromUserID(check.user) \in bits

TagInv ==
  /\ TypeOK
  /\ RunsCounted
  /\ BitsHaveRows
  /\ RunProgress
  /\ CompletedInBits
  /\ CheckBetween

-----------------------------------------------------------------------------
(* What a comment says and the code does not do                            *)

\* A conflict on the unique key of crowd_tags_detail is ignored: when nothing
\* else fails, every run that was started is under way or has completed.
ConflictIgnored == ~ MayFail => completed + Cardinality(Active) = started
=============================================================================
