SPECIFICATION Spec
CONSTANTS
  LastPage = 6  CacheCap = 3  MaxChain = 3  NodeData = {1, 2}
  Threads = {t1, t2}  Keys = {"k1", "k2", "k3", "k4"}  EntrySize <- MCEntrySize
  MaxSize = 4  MaxEntries = 2  PinWrap = 4  MaxPins = 1  OpBudget = 4
  NodePages = {p1, p2}  Lsns = {1, 2}  NodeCap = 3  Callers = {c1, c2, c3}
  QueueCap = 3  MaxRequests = 6
  Query = {q1, q2, q3, q4}  NoQuery = NoQuery  PlanCacheSize = 2  MaxSchema = 1
  VKey = {y1, y2}  VLsn = {1, 2, 3}  ChainCap = 2  MaxAdds = 4
  PutSize = {2, 3}  DeleteSize = 1  MaxDelta = 4  MaxOperations = 2
  RefKey = {y1, y2}  RefValue = {v1, v2}  NoValue = NoValue  RefTxn = {x1, x2}
  MaxRefLsn = 3  MaxMutations = 2  VersionCap = 2  SnapshotCap = 2
INVARIANTS  PagesWhole  HeldIsFindable
  ResolveExact 
PROPERTY UrgentStay
CONSTRAINT PageBound
CHECK_DEADLOCK FALSE
