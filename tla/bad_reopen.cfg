SPECIFICATION Spec
CONSTANTS
  Key = {k1}
  Value = {v1, v2}
  Writer = {w1}
  Reader = {r1}
  Absent = Absent
  Untouched = Untouched
  NoOne = NoOne
  MaxTxn = 3
  MaxOps = 2
  MaxRefs = 1
  MaxCrashes = 1
  Exclusive = TRUE
  IoFaults = FALSE
  CloseCalls = FALSE
SYMMETRY Symmetry
INVARIANTS ReopenMatchesCommits
CHECK_DEADLOCK FALSE
