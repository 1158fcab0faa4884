SPECIFICATION RecoverySpec
CONSTANTS
  RKey = {k1}  RValue = {v1}  Gone = Gone  Same = Same  RWriter = {w1}
  MaxId = 2  MaxRecords = 2  MaxPowerLosses = 1
INVARIANT AbortedIgnored
CHECK_DEADLOCK FALSE
