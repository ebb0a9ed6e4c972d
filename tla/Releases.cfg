\* Three versions: an old release, a rejected one and a newer one.
CONSTANT MaxVersion = 3
\* Nothing is left to do once the newest version is active.
CHECK_DEADLOCK FALSE
SPECIFICATION RelSpec
INVARIANTS
  RelTypeOK
  PointerInstalled
  HealthGate
