CONSTANTS
  Caller = {c1, c2}
  Committer = {c1, c2}
  MaxReplicas = 1
  MaxSize = 3
  High = 3
  Low = 2
  Size = {1, 2}
  MaxConn = 1
  MaxSeq = 4
SPECIFICATION PubSpec
INVARIANT NoLockCycle
CHECK_DEADLOCK FALSE
