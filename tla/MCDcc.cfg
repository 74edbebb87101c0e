\* Overlapping updates of two instances, with every failure.
SPECIFICATION FairSpec
CONSTANTS
  Instances = {i1, i2}
  Requests = {r1, r2}
  Keys = {k1}
  OtherKey = other
  Values = {v0, v1}
  Default = v0
  MaxUpdates = 3
  Faults <- AllFaults
  MaxFaults = 2
CHECK_DEADLOCK FALSE
INVARIANTS
  TypeOK
  AgreeWhenQuiet
PROPERTY EventuallyAgree
