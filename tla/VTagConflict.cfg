\* Two overlapping runs of the batch, and no failure.
SPECIFICATION Spec
CONSTANTS
  u1 = u1
  u2 = u2
  u3 = u3
  twin = twin
  out = out
  Users <- MCUsers
  Index <- MCIndex
  Batch <- MCBatch
  Seeded = {u1, u2}
  SeededStatistics = 3
  Runs = {r1, r2}
  MaxRuns = 2
  MayFail = FALSE
CHECK_DEADLOCK FALSE
INVARIANT ConflictIgnored
