\* Is a task claimed at most max_attempts times?
CONSTANTS
  Task = {t1}
  Key = {k1}
  Mission = {m1}
  Proc = {w1, w2}
  Worker = {w1, w2}
  WorkerOf <- MCWorkerOf
  Priority = {0}
  MaxAttempts = 2
  LeaseTime = 2
  RetryDelay = 1
  MaxClaimDelay = 1
  AttemptCap = 3
  MaxCrashes = 0
  Timely = FALSE
  NULL = NULL
SPECIFICATION Spec
INVARIANT RetryLimit
