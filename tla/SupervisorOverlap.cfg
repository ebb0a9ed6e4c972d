\* Overlapping starts, and a supervisor that outlives its lock.
CONSTANTS
  Sup = {s1, s2}
  Stale = 1
  Retention = 2
  MaxBackups = 1
  MaxFaults = 0
  Timely = FALSE
  NULL = NULL
SPECIFICATION SupSpec
INVARIANT SingleInstance
