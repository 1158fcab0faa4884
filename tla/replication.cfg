CONSTANTS
  Caller = {c1, c2}  Committer = {c1}  MaxReplicas = 1  MaxSize = 3  High = 3  Low = 2
  Size = {1, 2}  MaxConn = 2  MaxSeq = 2
  MaxAttempts = 2  MaxLoops = 2  MaxBoot = 1
  MaxServed = 1  BufferCap = 3  ApplyAt = 3  RelieveAt = 2  MaxDials = 2  MaxCommits = 4
  MaxPending = 2
SPECIFICATION Spec
INVARIANTS ReplicationTypeOK  Streams SomebodyListens 
  ConnectionsConsistent
PROPERTY SubscriberRecovers
CHECK_DEADLOCK FALSE
