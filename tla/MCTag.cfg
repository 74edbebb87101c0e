\* The seeded tag: overlapping runs of its batch that may fail anywhere.
SPECIFICATION Spec
CONSTANTS
  u1 = u1
  u2 = u2
  u3 = u3
  twin = twin
  out = out
  Users <- MCUsers
  Index <- MCIndex
  Batch <- MCBatch
  Seeded = {u1, u2}
  SeededStatistics = 3
  Runs = {r1, r2}
  MaxRuns = 4
  MayFail = TRUE
SYMMETRY Symmetry
CHECK_DEADLOCK FALSE
INVARIANTS
  TypeOK
  BitsHaveRows
  CompletedBatchIsTheCrowd
  AnswerOfOneMoment
