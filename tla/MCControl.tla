----------------------------- MODULE MCControl -----------------------------
\* Two corrections and two commands, one of which the dispatcher can resolve.
EXTENDS OperatorDispatch, TLC

CONSTANTS k1, k2, d1, d2

\* Evidence against a hypothesis outweighs the evidence for it.
MCWeights == [p \in Polarity |-> IF p = "support" THEN {1} ELSE {2}]

MCCommand == {k1, k2}
MCChildOf == [k \in MCCommand |-> IF k = k1 THEN d1 ELSE d2]

\* Hypotheses are alike, and so are corrections.
Symmetry == Permutations(Hypothesis) \cup Permutations(Correction)
=============================================================================
