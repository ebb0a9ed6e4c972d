CONSTANTS
  k1 = k1
  k2 = k2
  d1 = d1
  d2 = d2
  NULL = NULL
  NoHypothesis = NoHypothesis
  Hypothesis = {h1, h2}
  Evidence = {e1}
  Weights <- MCWeights
  Task = {c1, c2, k1, k2, d1, d2}
  Correction = {c1, c2}
  Command <- MCCommand
  Registered = {k1}
  ChildOf <- MCChildOf
  Executor = {"worker"}
  Dispatcher = "dispatcher"
  Worker = {"worker", "dispatcher"}
  MaxWork = 7
  MaxUnderWay = 1

SPECIFICATION CtlSpec
SYMMETRY Symmetry
CHECK_DEADLOCK FALSE

INVARIANTS
  CtlTypeOK
  RootCauseGrounded
  AcceptedEffect
  RollbackReal
  ResolvedBacked
  CommandsAgree
  StrandedOnlySo
