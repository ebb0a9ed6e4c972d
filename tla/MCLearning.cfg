CONSTANTS
  k1 = k1
  g = g
  a = a
  b = b
  f1 = f1
  f2 = f2
  NULL = NULL
  Proc = {p1, p2}
  Knowledge <- MCKnowledge
  Global = {g}
  Passed <- MCPassed
  Validation <- MCValidation
  SystemOf <- MCSystemOf
  MaxWrites = 7
  MaxOverlaps = 1

SPECIFICATION LnSpec
SYMMETRY Symmetry
CHECK_DEADLOCK FALSE

INVARIANTS
  PromotedEarned
  OnePromoted
  RegressionActs
PROPERTY RetiredForGood
