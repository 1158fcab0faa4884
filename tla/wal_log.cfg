SPECIFICATION FairSpec
CONSTANTS
  Payloads = {1, 6}
  BufCap = 8
  MaxRecs = 3
  MaxTroubles = 2
  Cuts = {0, 1, 3, 4, 6, 10}
  AppendAfterReplay = FALSE
INVARIANTS TypeOK AckedReadable 
PROPERTIES ImplementsDurableLog ReplayEnds
CHECK_DEADLOCK FALSE
