\* A goroutine and a job run, or two job runs; a low retry limit so that rows
\* are given up; a publish that is always refused in front of a live callback.
SPECIFICATION FairSpec
CONSTANTS
  NTasks = 2
  Executors = {e1, e2}
  Nil = Nil
  ScanLimit = 2
  RetryLimit = 1
  Http = {2}
  Mq = {1}
  Dead = {1}
  SlowDelivery = FALSE
  MaxFaults = 1
  MaxSeen = 1
CHECK_DEADLOCK FALSE
INVARIANTS
  TypeOK
  SuccessWasDelivered
  ErrorAfterRetries
  OneDeliveryAtATime
PROPERTY LiveTaskSettles
