------------------------------ MODULE Releases ------------------------------
(***************************************************************************)
(* ReleaseManager (immune_core/update_manager.py): bundles are staged,     *)
(* activated behind a health check, and rolled back to.  The state is the  *)
(* file system's: the staging and releases directories and the pointer     *)
(* file current.json, which is replaced atomically.  One call runs at a    *)
(* time, and the process may be killed between any two of its steps.       *)
(*                                                                         *)
(* A version is a number; its bundle is whole, or altered so that its      *)
(* manifest no longer matches; a copy that was cut short is partial.       *)
(***************************************************************************)
EXTENDS Integers

CONSTANT MaxVersion   \* bound: versions 1..MaxVersion are built

ASSUME VersionAssumption == MaxVersion \in Nat

Version == 1..MaxVersion
Content == {"none", "partial", "whole", "altered"}

VARIABLES
  staged,    \* staged[v]: what the staging directory holds of v
  release,   \* release[v]: what releases/v holds
  pointer,   \* the version current.json names, 0 without the file
  pc,        \* where the call of activate is, "idle" outside of it
  target,    \* the version being activated
  previous,  \* the version current.json named when activate began
  approved,  \* history: versions whose health check passed
  unchecked  \* history: versions whose health gate was cut short

relVars == <<staged, release, pointer, pc, target, previous, approved, unchecked>>
local == <<target, previous>>
history == <<approved, unchecked>>

RelInit ==
  /\ staged = [v \in Version |-> "none"]
  /\ release = [v \in Version |-> "none"]
  /\ pointer = 0
  /\ pc = "idle"
  /\ target = 0
  /\ previous = 0
  /\ approved = {}
  /\ unchecked = {}
-----------------------------------------------------------------------------
\* Mutant of Stage: a copy that was cut short counts as staged.
StageUnverified(v) ==
  /\ pc = "idle"
  /\ v > pointer
  /\ \E c \in {"whole", "partial"} : staged' = [staged EXCEPT ![v] = c]
  /\ UNCHANGED <<release, pointer, pc, local, history>>

\* stage: a verified bundle, newer than the current release, is copied; a copy
\* that does not verify is removed again, one that is cut short is never used.
Stage(v) ==
  /\ pc = "idle"
  /\ v > pointer
  /\ staged' = [staged EXCEPT ![v] = "whole"]
  /\ UNCHANGED <<release, pointer, pc, local, history>>

\* Somebody edits a staged bundle.
Alter(v) ==
  /\ staged[v] = "whole"
  /\ staged' = [staged EXCEPT ![v] = "altered"]
  /\ UNCHANGED <<release, pointer, pc, local, history>>

\* activate verifies the staged tree and reads the pointer.  It does not compare
\* the versions again.
Activate(v) ==
  /\ pc = "idle"
  /\ staged[v] = "whole"
  /\ target' = v
  /\ previous' = pointer
  /\ pc' = "backup"
  /\ UNCHANGED <<staged, release, pointer, history>>

\* The state is backed up and the backup verified, or the update is off.
BackupState ==
  /\ pc = "backup"
  /\ pc' \in {"install", "idle"}
  /\ UNCHANGED <<staged, release, pointer, local, history>>

\* "release version already installed", or copytree begins
Install ==
  /\ pc = "install"
  /\ \/ /\ release[target] # "none"
        /\ pc' = "idle"
        /\ UNCHANGED release
     \/ /\ release[target] = "none"
        /\ release' = [release EXCEPT ![target] = "partial"]
        /\ pc' = "copy"
  /\ UNCHANGED <<staged, pointer, local, history>>

\* copytree ends: the release is what the staged tree is by now.
Copy ==
  /\ pc = "copy"
  /\ release' = [release EXCEPT ![target] = staged[target]]
  /\ pc' = "point"
  /\ UNCHANGED <<staged, pointer, local, history>>

\* os.replace of current.json
Point ==
  /\ pc = "point"
  /\ pointer' = target
  /\ pc' = "check"
  /\ UNCHANGED <<staged, release, local, history>>

Healthy ==
  /\ pc = "check"
  /\ approved' = approved \cup {target}
  /\ pc' = "idle"
  /\ UNCHANGED <<staged, release, pointer, local, unchecked>>

\* Mutant of Unhealthy: the pointer stays.
UnhealthyKept ==
  /\ pc = "check"
  /\ pc' = "remove"
  /\ UNCHANGED <<staged, release, pointer, local, history>>

\* Unhealthy, or health_check raised: the pointer goes back to where it was ...
Unhealthy ==
  /\ pc = "check"
  /\ pointer' = previous
  /\ pc' = "remove"
  /\ UNCHANGED <<staged, release, local, history>>

\* ... and the release is removed; errors are ignored, so it may stay, in part or whole.
Remove ==
  /\ pc = "remove"
  /\ \/ /\ \E left \in {"none", "partial"} : release' = [release EXCEPT ![target] = left]
        /\ UNCHANGED unchecked
     \/ /\ unchecked' = unchecked \cup {target}
        /\ UNCHANGED release
  /\ pc' = "idle"
  /\ UNCHANGED <<staged, pointer, local, approved>>

\* Mutant of RollbackTo: the release is not verified.
RollbackToAny(v) ==
  /\ pc = "idle"
  /\ release[v] # "none"
  /\ pointer' = v
  /\ UNCHANGED <<staged, release, pc, local, history>>

\* rollback_to verifies the release's files and points to it; it neither checks its
\* health nor asks whether an earlier activation did.
RollbackTo(v) ==
  /\ pc = "idle"
  /\ release[v] = "whole"
  /\ pointer' = v
  /\ UNCHANGED <<staged, release, pc, local, history>>

\* The process is killed during activate.
RelCrash ==
  /\ pc # "idle"
  /\ pc' = "idle"
  /\ unchecked' = IF pc \in {"point", "check", "remove"} THEN unchecked \cup {target} ELSE unchecked
  /\ UNCHANGED <<staged, release, pointer, local, approved>>

RelNext ==
  \/ \E v \in Version : Stage(v) \/ Alter(v) \/ Activate(v) \/ RollbackTo(v)
  \/ BackupState \/ Install \/ Copy \/ Point
  \/ Healthy \/ Unhealthy \/ Remove
  \/ RelCrash

RelSpec == RelInit /\ [][RelNext]_relVars
-----------------------------------------------------------------------------
(* Properties *)

\* Type invariant of the release directories.
RelTypeOK ==
  /\ staged \in [Version -> {"none", "whole", "altered"}]
  /\ release \in [Version -> Content]
  /\ pointer \in Version \cup {0}
  /\ pc \in {"idle", "backup", "install", "copy", "point", "check", "remove"}
  /\ target \in Version \cup {0}
  /\ previous \in Version \cup {0}
  /\ approved \subseteq Version
  /\ unchecked \subseteq Version

\* current.json never names a release that is missing or half copied or removed,
\* wherever an activation, its rollback or a crash leaves off.
PointerInstalled == pointer # 0 => release[pointer] \in {"whole", "altered"}

\* "Health gate falho restaura o ponteiro anterior": outside of activate the current
\* release has passed its health check, unless the gate was cut short: by a crash after
\* the copy, or by a rejected release that could not be removed.
HealthGate == pc = "idle" => pointer \in approved \cup unchecked \cup {0}

\* "Versoes avancam monotonicamente": activation, unlike rollback_to, never moves to
\* an older release.
MonotonicVersions == [][pc = "point" /\ pc' = "check" => pointer' > pointer]_relVars
=============================================================================
