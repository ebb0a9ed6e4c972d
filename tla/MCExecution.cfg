\* Workers that finish within their lease; one crash, a retry, a changing mission.
CONSTANTS
  kMaterial = kMaterial
  kPrivileged = kPrivileged
  Task = {t1}
  Key = {kMaterial, kPrivileged, kReadonly}
  Mission = {m1}
  Proc = {w1, w2}
  Worker = {w1, w2}
  WorkerOf <- MCWorkerOf
  ModeOf <- MCModeOf
  Priority = {0}
  MaxAttempts = 2
  LeaseTime = 2
  RetryDelay = 0
  MaxClaimDelay = 0
  AttemptCap = 3
  MaxCrashes = 1
  Timely = TRUE
  NULL = NULL
SPECIFICATION ExecSpec
INVARIANTS
  ExecTypeOK
  ExecutesUnderLease
  RollbackExact
  CompletedWorkStays
  OriginalRecoverable
  FailureLeavesNothing
  MissionGate
