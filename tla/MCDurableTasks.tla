--------------------------- MODULE MCDurableTasks ---------------------------
(* Instances of DurableTasks for TLC: each process claims under its own id. *)
EXTENDS DurableTasks, TLC

MCWorkerOf == [p \in Proc |-> p]
TaskSymmetry == Permutations(Task) \cup Permutations(Key)
=============================================================================
