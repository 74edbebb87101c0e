\* The stock of a team of two: joins against refunds, whose messages may
\* come twice, with one failure.
SPECIFICATION Spec
CONSTANTS
  Joins = {o1, o2, o3}
  Opener = opener
  Consumers = {c1}
  Nil = Nil
  Target = 2
  MaxCopies = 1
  Faults = {"leak", "undueRecovery", "replyLost", "delFails", "connectionLost"}
  MaxFaults = 1
SYMMETRY Symmetry
CHECK_DEADLOCK FALSE
INVARIANTS
  TypeOK
  HeadroomExact
  FreeSeatIsAdmitted
  StockShieldsMySQL
PROPERTY TakesLedgerSteps
