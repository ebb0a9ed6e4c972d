---------------------------- MODULE MCExecution ----------------------------
(* Instances of Execution for TLC: one key asks for a material run, the other *)
(* for a privileged one.                                                     *)
EXTENDS Execution

CONSTANTS kMaterial, kPrivileged

MCWorkerOf == [p \in Proc |-> p]
MCModeOf == [k \in Key |-> CASE k = kMaterial -> "material"
                             [] k = kPrivileged -> "privileged"
                             [] OTHER -> "readonly"]
=============================================================================
