SPECIFICATION Spec
CONSTANTS
  Key = {k1}
  Value = {v1}
  Writer = {w1, w2}
  Reader = {}
  Absent = Absent
  Untouched = Untouched
  NoOne = NoOne
  MaxTxn = 3
  MaxOps = 1
  MaxRefs = 0
  MaxCrashes = 1
  Exclusive = FALSE
  IoFaults = TRUE
  CloseCalls = TRUE
VIEW ControlView
INVARIANTS CurrentIsNewest AckedSurvives
PROPERTIES RegistryMonotone FreshIds
CHECK_DEADLOCK FALSE
