\* The refund credit: duplicate messages, three processes, and any four failures.
SPECIFICATION FairSpec
CONSTANTS
  Joins = {}
  Opener = opener
  Consumers = {c1, c2, c3}
  Nil = Nil
  Target = 2
  MaxCopies = 2
  Faults = {"lockReplyLost", "replyLost", "delFails", "consumerCrash",
            "connectionLost", "mqDown", "publishLost", "givenUp"}
  MaxFaults = 4
CHECK_DEADLOCK FALSE
INVARIANT CreditedAtMostOnce
PROPERTY RefundEventuallyCredited
