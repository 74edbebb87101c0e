\* A receiver that never answers.
SPECIFICATION FairSpec
CONSTANTS
  NTasks = 1
  Executors = {e1, e2}
  Nil = Nil
  ScanLimit = 1
  RetryLimit = 4
  Http = {1}
  Mq = {}
  Dead = {1}
  SlowDelivery = FALSE
  MaxFaults = 0
  MaxSeen = 1
CHECK_DEADLOCK FALSE
PROPERTY DeadTaskGivenUp
