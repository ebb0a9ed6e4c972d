----------------------------- MODULE MCLearning -----------------------------
\* Two records of one lineage, one of them for every system, and two callers.
EXTENDS Learning, TLC

CONSTANTS k1, g, a, b, f1, f2

MCKnowledge == {k1, g}
MCPassed == {a, b}
MCValidation == MCPassed \cup {f1, f2}
\* The two successes are on two systems.
MCSystemOf == [v \in MCValidation |-> v]

\* Callers are alike, and so are the successes and the failures.
Symmetry == Permutations(Proc)
            \cup Permutations(MCPassed) \cup Permutations({f1, f2})
=============================================================================
