\* A message stamped one tick ahead and a later one, tight limits, two callers on
\* each side.
CONSTANTS
  m1 = m1
  m2 = m2
  Message = {m1, m2}
  Stamp <- MCStamp
  Handler = {h1, h2}
  Skew = 1
  Ttl = 4
  MaxDelay = 1
  Capability = {c1}
  Executor = {e1, e2}
  CapTtl = 2
  MaxClock = 5
  NULL = NULL
SPECIFICATION GwSpec
INVARIANTS
  GwTypeOK
  AcceptedOnce
  EffectOnce
  ReceiptsAgree
