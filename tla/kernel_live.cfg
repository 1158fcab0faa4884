SPECIFICATION FairSpec
CONSTANTS
  Key = {k1}
  Value = {v1}
  Writer = {w1, w2}
  Reader = {r1}
  Absent = Absent
  Untouched = Untouched
  NoOne = NoOne
  MaxTxn = 3
  MaxOps = 1
  MaxRefs = 1
  MaxCrashes = 0
  Exclusive = FALSE
  IoFaults = FALSE
  CloseCalls = FALSE
PROPERTIES CommitReturns
CHECK_DEADLOCK FALSE
