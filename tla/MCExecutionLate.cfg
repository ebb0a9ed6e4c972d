\* Workers slower than their lease: do they still execute under it?
CONSTANTS
  kMaterial = kMaterial
  kPrivileged = kPrivileged
  Task = {t1}
  Key = {kMaterial}
  Mission = {m1}
  Proc = {w1, w2}
  Worker = {w1, w2}
  WorkerOf <- MCWorkerOf
  ModeOf <- MCModeOf
  Priority = {0}
  MaxAttempts = 2
  LeaseTime = 2
  RetryDelay = 0
  MaxClaimDelay = 0
  AttemptCap = 3
  MaxCrashes = 0
  Timely = FALSE
  NULL = NULL
SPECIFICATION ExecSpec
INVARIANT ExecutesUnderLease
