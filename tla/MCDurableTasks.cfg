\* Two tasks, two workers: slow workers, lost leases, one crash.
CONSTANTS
  Task = {t1, t2}
  Key = {k1, k2}
  Mission = {m1}
  Proc = {w1, w2}
  Worker = {w1, w2}
  WorkerOf <- MCWorkerOf
  Priority = {0}
  MaxAttempts = 2
  LeaseTime = 2
  RetryDelay = 1
  MaxClaimDelay = 1
  AttemptCap = 2
  MaxCrashes = 1
  Timely = FALSE
  NULL = NULL
SPECIFICATION Spec
INVARIANTS
  TypeOK
  LeaseExclusive
  RetryBudget
  IdempotentSubmit
  LedgerAgrees
PROPERTIES
  FencedReport
  ImplementsLeaseQueue
SYMMETRY TaskSymmetry
