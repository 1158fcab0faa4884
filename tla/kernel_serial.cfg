SPECIFICATION Spec
CONSTANTS
  Key = {k1, k2}
  Value = {v1, v2}
  Writer = {w1}
  Reader = {}
  Absent = Absent
  Untouched = Untouched
  NoOne = NoOne
  MaxTxn = 2
  MaxOps = 2
  MaxRefs = 0
  MaxCrashes = 1
  Exclusive = TRUE
  IoFaults = FALSE
  CloseCalls = FALSE
SYMMETRY Symmetry
INVARIANTS TypeOK LatestSnapshotExact SnapshotNeverWrong WalBeforeData
CHECK_DEADLOCK FALSE
