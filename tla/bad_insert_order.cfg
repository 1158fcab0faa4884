SPECIFICATION Spec
CONSTANTS
  Key = {1, 2, 3, 4, 5}
  Value = {s, t}
  LongValue = {}
  Absent = Absent
  Cap = 4
  SplitAt = 3
  DelMin = 0
  BorMin = 1
  MaxPage = 6
INVARIANT GetComplete
CHECK_DEADLOCK FALSE
SYMMETRY ValueSymmetry
