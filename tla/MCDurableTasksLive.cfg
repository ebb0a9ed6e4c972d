\* Workers that report in time, two crashes, no bound on time.
CONSTANTS
  Task = {t1}
  Key = {k1}
  Mission = {m1}
  Proc = {w1, w2}
  Worker = {w1, w2}
  WorkerOf <- MCWorkerOf
  Priority = {0}
  MaxAttempts = 2
  LeaseTime = 2
  RetryDelay = 1
  MaxClaimDelay = 1
  AttemptCap = 5
  MaxCrashes = 2
  Timely = TRUE
  NULL = NULL
SPECIFICATION FairSpec
PROPERTY EveryTaskSettles
