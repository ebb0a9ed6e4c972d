\* Starts one after the other, none beside a process whose lock is stale; one fault.
CONSTANTS
  Sup = {s1, s2}
  Stale = 1
  Retention = 2
  MaxBackups = 4
  MaxFaults = 1
  Timely = TRUE
  NULL = NULL
SPECIFICATION SupFairSpec
INVARIANTS
  SupTypeOK
  SingleInstance
  RecoveryPoint
  DiskBounded
  DrillWhole
PROPERTIES
  RetentionFloor
  LockRecovered
