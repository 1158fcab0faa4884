SPECIFICATION IndexSpec
CONSTANTS
  Key = {1, 2, 3, 4}
  Value = {s, t, l}
  LongValue = {l}
  Absent = Absent
  Cap = 4
  SplitAt = 3
  DelMin = 1
  BorMin = 1
  MaxPage = 6
  CartTask = {w1, w2}  Pool <- MCPool  Lower <- MCLower  Depths = {1, 2}
  MaxCartWrites = 3  MaxCartReads = 1
INVARIANTS IndexesTypeOK FreeSpaceSafe UniformNeverStale AscendingComplete CartridgesSound
CHECK_DEADLOCK FALSE
SYMMETRY MCSymmetry
