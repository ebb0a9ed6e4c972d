--------------------------- MODULE ReleasesProofs ---------------------------
(***************************************************************************)
(* PointerInstalled and HealthGate for any number of versions.             *)
(*                                                                         *)
(* PointerInstalled is not inductive: a rejected release is removed, and   *)
(* the pointer goes back to whatever previous says.  RelInv adds that from *)
(* Install on the target is not the version to return to, which is         *)
(* installed itself.                                                       *)
(***************************************************************************)
EXTENDS Releases, TLAPS

Installed(v) == v # 0 => release[v] \in {"whole", "altered"}

\* Where activate has read the pointer, and it is back there after a rejection.
Begun == {"backup", "install", "copy", "point", "remove"}

RelInv ==
  /\ RelTypeOK
  /\ Installed(pointer)
  /\ pc # "idle" =>
       /\ target \in Version
       /\ Installed(previous)
       /\ staged[target] # "none"
       /\ previous \in approved \cup unchecked \cup {0}
  /\ pc \in Begun => pointer = previous
  /\ pc \in {"copy", "point", "check", "remove"} => target # previous
  /\ pc = "copy" => release[target] = "partial"
  /\ pc \in {"point", "check"} => release[target] \in {"whole", "altered"}
  /\ pc = "check" => pointer = target

\* What is on disk in full has been through the gate, or the gate was cut short.
Gated ==
  /\ \A v \in Version : release[v] \in {"whole", "altered"} =>
       \/ v \in approved \cup unchecked
       \/ pc \in {"point", "check", "remove"} /\ v = target
  /\ pc \notin {"check"} => pointer \in approved \cup unchecked \cup {0}

LEMMA RelInitially == RelInit => RelInv /\ Gated
BY VersionAssumption
   DEF RelInit, RelInv, Gated, RelTypeOK, Installed, Begun, Version, Content

\* RelInv and Gated are kept by every step.
LEMMA RelInductive == RelInv /\ Gated /\ [RelNext]_relVars => RelInv' /\ Gated'
<1> SUFFICES ASSUME RelInv, Gated, [RelNext]_relVars PROVE RelInv' /\ Gated'
  OBVIOUS
<1> USE VersionAssumption
    DEF RelInv, Gated, RelTypeOK, Installed, Begun, Version, Content, local, history
<1>1. ASSUME NEW v \in Version, Stage(v) PROVE RelInv' /\ Gated'
  BY <1>1 DEF Stage
<1>2. ASSUME NEW v \in Version, Alter(v) PROVE RelInv' /\ Gated'
  BY <1>2 DEF Alter
<1>3. ASSUME NEW v \in Version, Activate(v) PROVE RelInv' /\ Gated'
  BY <1>3 DEF Activate
<1>4. ASSUME NEW v \in Version, RollbackTo(v) PROVE RelInv' /\ Gated'
  BY <1>4 DEF RollbackTo
<1>5. CASE BackupState
  BY <1>5 DEF BackupState
<1>6. CASE Install
  BY <1>6 DEF Install
<1>7. CASE Copy
  BY <1>7 DEF Copy
<1>8. CASE Point
  BY <1>8 DEF Point
<1>9. CASE Healthy
  BY <1>9 DEF Healthy
<1>10. CASE Unhealthy
  BY <1>10 DEF Unhealthy
<1>11. CASE Remove
  BY <1>11 DEF Remove
<1>12. CASE RelCrash
  BY <1>12 DEF RelCrash
<1>13. CASE UNCHANGED relVars
  BY <1>13 DEF relVars
<1> QED
  BY <1>1, <1>2, <1>3, <1>4, <1>5, <1>6, <1>7, <1>8, <1>9, <1>10, <1>11, <1>12, <1>13
     DEF RelNext

\* The directories and the pointer keep their types: in particular a partial copy is
\* never found in staging, so activate cannot install one.
THEOREM RelTypeCorrect == RelSpec => []RelTypeOK
<1>1. RelInv => RelTypeOK
  BY DEF RelInv
<1> QED BY <1>1, RelInitially, RelInductive, PTL DEF RelSpec

\* However an activation ends, current.json names a release that is on disk in full.
THEOREM PointerAlwaysInstalled == RelSpec => []PointerInstalled
<1>1. RelInv => PointerInstalled
  BY DEF RelInv, Installed, PointerInstalled
<1> QED BY <1>1, RelInitially, RelInductive, PTL DEF RelSpec

\* Between two calls, the current release has passed its health check unless the gate
\* was cut short.
THEOREM HealthGateHolds == RelSpec => []HealthGate
<1>1. Gated => HealthGate
  BY DEF Gated, HealthGate
<1> QED BY <1>1, RelInitially, RelInductive, PTL DEF RelSpec
=============================================================================
