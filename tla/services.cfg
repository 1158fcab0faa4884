SPECIFICATION Spec
CONSTANTS
  Users = {u1, u2}  OpenThreshold = 2  HalfOpenAttempts = 2  MaxResets = 1
  RateLimit = 2  BurstSize = 2  MaxClock = 2
  RKey = {k1, k2}  RValue = {v1}  Gone = Gone  Same = Same  RWriter = {w1, w2}
  MaxId = 2  MaxRecords = 2  MaxPowerLosses = 2
  PlugTask = {t1, t2}  Plugin = {"a", "b"}  Needs <- MCNeeds  MaxPlugins = 1
  MaxErrors = 2  MaxCalls = 4
  Chunks = 2  MaxAge = 1  MaxTime = 1  MaxBackups = 2  MaxRestores = 2  MaxVersion = 1
  Thread = {t1, t2}  MaxSnap = 2  MaxHandles = 2  MinKeep = 2  MinGap = 1
INVARIANTS ServicesTypeOK RateRespected   RestoreSound RegistrySound
PROPERTY BreakerRecovers
CHECK_DEADLOCK FALSE
