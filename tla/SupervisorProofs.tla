-------------------------- MODULE SupervisorProofs --------------------------
(***************************************************************************)
(* The runtime's theorems, for every number of processes, retention, fault *)
(* bound and schedule.                                                     *)
(*                                                                         *)
(* RecoveryPoint and RetentionFloor make no assumption on Timely, so they  *)
(* hold even while two supervisors run and prune side by side. The         *)
(* argument: a reading is used by one tick only, so a backup that was      *)
(* listed for pruning is never written again (OneUse); whatever is listed  *)
(* has a newer manifest on disk (Kept), Retention of them (Floor), so      *)
(* removing it leaves one; and the database of a manifest is written       *)
(* before and removed after it (Paired).                                   *)
(*                                                                         *)
(* SingleInstance needs Timely, which bounds when a process is started and *)
(* not how long one runs: the lock file names the process that owns it     *)
(* (LockInv), and who tries to take it finds it fresh or its owner dead.   *)
(*                                                                         *)
(* DrillWhole and DiskBounded need no more than SingleInstance, however it *)
(* came about: one tick runs at a time (Alone), its backup is not pruned   *)
(* under it (DrillInv), and what it adds to the disk it takes away again   *)
(* unless a fault breaks it off (DiskInv).                                 *)
(***************************************************************************)
EXTENDS Supervisor, FiniteSetTheorems, WellFoundedInduction, TLAPS

\* s has a reading and has not written its manifest yet.
Writing(s) == pc[s] \in {"create", "manifest"}

\* Readings in use are not used yet, and are used by one process.
OneUse ==
  /\ manifests \subseteq 0..stamps
  /\ \A s \in Sup : \A b \in cyc[s].doomed : b <= stamps
  /\ \A s \in Sup : Writing(s) =>
       /\ cyc[s].stamp <= stamps
       /\ cyc[s].stamp \notin manifests
       /\ \A r \in Sup : cyc[s].stamp \notin cyc[r].doomed
       /\ \A r \in Sup : Writing(r) /\ cyc[r].stamp = cyc[s].stamp => r = s

\* Every manifest has its database.
Paired ==
  /\ manifests \subseteq dbs
  /\ \A s \in Sup : pc[s] = "manifest" => cyc[s].stamp \in dbs
  /\ \A s \in Sup : pc[s] = "unlink_db" => Newest(cyc[s].doomed) \cap manifests = {}

\* What is to be pruned has a newer manifest on disk.
Kept == \A s \in Sup : \A b \in cyc[s].doomed : \E c \in manifests : c > b

AtLeast(n) == n # 0 => \E c \in manifests : c >= n

\* What a tick made, and what the row records, is on disk or has a newer one there.
Recorded ==
  /\ AtLeast(rt.last)
  /\ \A s \in Sup : AtLeast(cyc[s].backup)

SupInv == SupTypeOK /\ OneUse /\ Paired /\ Kept /\ Recorded

Tracked == {"create", "manifest", "unlink_db"}

\* A step that adds nothing to what SupInv watches.
CalmStep ==
  /\ UNCHANGED <<stamps, dbs, manifests>>
  /\ rt'.last = rt.last
  /\ \A r \in Sup :
       /\ cyc'[r].doomed \subseteq cyc[r].doomed
       /\ cyc'[r].backup \in {0, cyc[r].backup}
       /\ pc'[r] \in Tracked => pc'[r] = pc[r] /\ cyc'[r] = cyc[r]
-----------------------------------------------------------------------------
\* A step whose processes keep to themselves leaves the backup invariants alone.
LEMMA CalmKeeps ==
  ASSUME SupInv, CalmStep PROVE OneUse' /\ Paired' /\ Kept' /\ Recorded'
<1>1. OneUse'
  BY DEF SupInv, SupTypeOK, Cycle, OneUse, CalmStep, Writing, Tracked
<1>2. Paired'
  BY DEF SupInv, Paired, CalmStep, Tracked
<1>3. Kept'
  BY DEF SupInv, Kept, CalmStep
<1>4. Recorded'
  BY DEF SupInv, Recorded, AtLeast, CalmStep
<1> QED BY <1>1, <1>2, <1>3, <1>4

\* The steps of the lock, of boot and stop, and the faults are calm: none of them
\* lists, writes or prunes a backup.
LEMMA CalmActions ==
  ASSUME SupTypeOK, NEW s \in Sup,
         \/ Start(s) \/ Open(s) \/ Write(s) \/ ReadLock(s) \/ UnlinkStale(s)
         \/ ReadToken(s) \/ Unlock(s) \/ Boot(s) \/ Booted(s) \/ Stop(s)
         \/ Interrupt(s) \/ SupFault(s) \/ VerifyBackup(s) \/ Drill(s)
  PROVE  CalmStep
<1> USE DEF SupTypeOK, Cycle, CalmStep, Tracked, Goto, Exit, backupVars, lockVars, NoCycle
<1>1. CASE Start(s) \/ Open(s) \/ Write(s)
  BY <1>1 DEF Start, Open, Write
<1>2. CASE ReadLock(s)
  BY <1>2 DEF ReadLock
<1>3. CASE UnlinkStale(s)
  BY <1>3 DEF UnlinkStale
<1>4. CASE ReadToken(s) \/ Unlock(s)
  BY <1>4 DEF ReadToken, Unlock
<1>5. CASE Boot(s) \/ Booted(s) \/ Stop(s)
  BY <1>5 DEF Boot, Booted, Stop, SetState
<1>6. CASE Interrupt(s)
  BY <1>6 DEF Interrupt
<1>7. CASE InterruptedMidway(s) \/ Uncaught(s)
  BY <1>7 DEF InterruptedMidway, Uncaught
<1>8. CASE BackupRaises(s)
  BY <1>8 DEF BackupRaises
<1>9. CASE Kill(s)
  BY <1>9 DEF Kill
<1>10. CASE VerifyBackup(s)
  BY <1>10 DEF VerifyBackup
<1>11. CASE Drill(s)
  BY <1>11 DEF Drill
<1>12. CASE DrillRaises(s)
  BY <1>12 DEF DrillRaises
<1> QED
  BY <1>1, <1>2, <1>3, <1>4, <1>5, <1>6, <1>7, <1>8, <1>9, <1>10, <1>11, <1>12 DEF SupFault
-----------------------------------------------------------------------------
LEMMA EmptyTypes == NoCycle \in Cycle /\ NoLock \in LockFile
BY DEF NoCycle, Cycle, NoLock, LockFile, Drills

LEMMA OrphanType ==
  ASSUME NEW s \in Sup, NEW l \in LockFile PROVE Orphan(s, l) \in LockFile
<1>1. CASE l.token = s
  BY <1>1 DEF Orphan, LockFile
<1>2. CASE l.token # s
  BY <1>2 DEF Orphan
<1> QED BY <1>1, <1>2

\* The end of a process.
LEMMA ExitTypes ==
  ASSUME SupTypeOK, NEW s \in Sup, Exit(s)
  PROVE  /\ pc' \in [Sup -> Pcs] /\ tries' \in [Sup -> 0..2]
         /\ owned' \in [Sup -> BOOLEAN] /\ cyc' \in [Sup -> Cycle]
BY EmptyTypes DEF SupTypeOK, Exit, Goto, Pcs

\* Every step keeps the types.
LEMMA TypeStep ==
  ASSUME SupTypeOK, [SupNext]_supVars PROVE SupTypeOK'
<1> USE EmptyTypes DEF SupTypeOK, Goto, backupVars, lockVars, Pcs, Acquiring, InTick, Backing
<1>1. ASSUME NEW s \in Sup, Start(s) PROVE SupTypeOK'
  BY <1>1 DEF Start
<1>2. ASSUME NEW s \in Sup, Open(s) PROVE SupTypeOK'
  <2>1. [there |-> TRUE, token |-> s, written |-> FALSE, age |-> 0] \in LockFile
    BY DEF LockFile
  <2>2. pc' \in [Sup -> Pcs]
    BY <1>2 DEF Open
  <2> QED BY <1>2, <2>1, <2>2 DEF Open
<1>3. ASSUME NEW s \in Sup, Write(s) PROVE SupTypeOK'
  BY <1>3 DEF Write, LockFile
<1>4. ASSUME NEW s \in Sup, ReadLock(s) PROVE SupTypeOK'
  <2>1. CASE Exit(s)
    BY <1>4, <2>1, ExitTypes DEF ReadLock
  <2>2. CASE ~Exit(s)
    BY <1>4, <2>2 DEF ReadLock
  <2> QED BY <2>1, <2>2
<1>5. ASSUME NEW s \in Sup, UnlinkStale(s) PROVE SupTypeOK'
  <2>1. CASE Exit(s)
    BY <1>5, <2>1, ExitTypes DEF UnlinkStale
  <2>2. CASE ~Exit(s)
    BY <1>5, <2>2 DEF UnlinkStale
  <2> QED BY <2>1, <2>2
<1>7. ASSUME NEW s \in Sup, ReadToken(s) PROVE SupTypeOK'
  <2>1. CASE Exit(s) /\ lock' = Orphan(s, lock)
    BY <1>7, <2>1, ExitTypes, OrphanType DEF ReadToken
  <2>2. CASE ~(Exit(s) /\ lock' = Orphan(s, lock))
    BY <1>7, <2>2 DEF ReadToken
  <2> QED BY <2>1, <2>2
<1>8. ASSUME NEW s \in Sup, Unlock(s) PROVE SupTypeOK'
  BY <1>8, ExitTypes DEF Unlock
<1>9. ASSUME NEW s \in Sup, Boot(s) \/ Booted(s) \/ Stop(s) \/ Interrupt(s) PROVE SupTypeOK'
  BY <1>9 DEF Boot, Booted, Stop, SetState, Interrupt
<1>10. ASSUME NEW s \in Sup, NEW ok \in BOOLEAN, NEW due \in BOOLEAN, NEW drill \in BOOLEAN,
              BeginTick(s, ok, due, drill)
       PROVE SupTypeOK'
  <2>1. stamps' \in Nat
    BY <1>10 DEF BeginTick
  <2>2. [NoCycle EXCEPT !.stamp = stamps', !.eff = rt.last, !.due = drill, !.failed = ~ok]
          \in Cycle
    BY <2>1 DEF NoCycle, Cycle, Drills
  <2>3. cyc' \in [Sup -> Cycle]
    BY <1>10, <2>2 DEF BeginTick
  <2>4. pc' \in [Sup -> Pcs]
    BY <1>10 DEF BeginTick
  <2> QED BY <1>10, <2>1, <2>3, <2>4 DEF BeginTick
<1>11. ASSUME NEW s \in Sup, CreateBackup(s) PROVE SupTypeOK'
  <2>0. [cyc EXCEPT ![s].failed = TRUE] \in [Sup -> Cycle]
    BY DEF Cycle
  <2>1. cyc' \in [Sup -> Cycle]
    BY <1>11, <2>0 DEF CreateBackup
  <2>2. pc' \in [Sup -> Pcs] /\ dbs' \subseteq Nat
    BY <1>11 DEF CreateBackup, Cycle
  <2> QED BY <1>11, <2>1, <2>2 DEF CreateBackup
<1>12. ASSUME NEW s \in Sup, WriteManifest(s) PROVE SupTypeOK'
  <2>1. cyc[s].stamp \in Nat
    BY DEF Cycle
  <2>2. [cyc EXCEPT ![s].backup = cyc[s].stamp] \in [Sup -> Cycle]
    BY <2>1 DEF Cycle
  <2> QED BY <1>12, <2>1, <2>2 DEF WriteManifest
<1>13. ASSUME NEW s \in Sup, VerifyBackup(s) PROVE SupTypeOK'
  <2>0. [cyc EXCEPT ![s].failed = TRUE] \in [Sup -> Cycle]
    BY DEF Cycle
  <2>1. cyc' \in [Sup -> Cycle]
    BY <1>13, <2>0 DEF VerifyBackup
  <2>2. pc' \in [Sup -> Pcs]
    BY <1>13 DEF VerifyBackup
  <2> QED BY <1>13, <2>1, <2>2 DEF VerifyBackup
<1>14. ASSUME NEW s \in Sup, ListBackups(s) PROVE SupTypeOK'
  <2>1. Beyond(manifests) \in SUBSET Nat
    BY DEF Beyond
  <2> QED BY <1>14, <2>1 DEF ListBackups, Cycle
<1>15. ASSUME NEW s \in Sup, PruneManifest(s) PROVE SupTypeOK'
  BY <1>15 DEF PruneManifest
<1>16. ASSUME NEW s \in Sup, PruneDatabase(s) PROVE SupTypeOK'
  <2>1. cyc[s].doomed \ Newest(cyc[s].doomed) \in SUBSET Nat
    BY DEF Cycle
  <2> QED BY <1>16, <2>1 DEF PruneDatabase, Cycle
<1>17. ASSUME NEW s \in Sup, Drill(s) PROVE SupTypeOK'
  <2>1. DrillResult(s) \in Drills
    BY DEF DrillResult, Drills
  <2>2. (cyc[s].failed \/ DrillResult(s) = "failed") \in BOOLEAN
    OBVIOUS
  <2>3. [cyc[s] EXCEPT !.drill = DrillResult(s)] \in Cycle
    BY <2>1 DEF Cycle
  <2>4. [[cyc[s] EXCEPT !.drill = DrillResult(s)]
           EXCEPT !.failed = cyc[s].failed \/ DrillResult(s) = "failed"] \in Cycle
    BY <2>2, <2>3 DEF Cycle
  <2>5. cyc' = [cyc EXCEPT ![s] = [[cyc[s] EXCEPT !.drill = DrillResult(s)]
           EXCEPT !.failed = cyc[s].failed \/ DrillResult(s) = "failed"]]
    BY <1>17 DEF Drill, Cycle
  <2>6. cyc' \in [Sup -> Cycle]
    BY <2>4, <2>5
  <2> QED BY <1>17, <2>6 DEF Drill
<1>18. ASSUME NEW s \in Sup, Record(s) PROVE SupTypeOK'
  BY <1>18 DEF Record, Cycle
<1>6. ASSUME NEW s \in Sup, InterruptedMidway(s) PROVE SupTypeOK'
  BY <1>6 DEF InterruptedMidway, Fault
<1>19. ASSUME NEW s \in Sup, Uncaught(s) PROVE SupTypeOK'
  BY <1>19 DEF Uncaught, Fault
<1>20. ASSUME NEW s \in Sup, BackupRaises(s) PROVE SupTypeOK'
  <2>1. PICK b \in {cyc[s].backup, 0} :
          cyc' = [cyc EXCEPT ![s] = [@ EXCEPT !.failed = TRUE, !.doomed = {}, !.backup = b]]
    BY <1>20 DEF BackupRaises
  <2>2. [cyc[s] EXCEPT !.failed = TRUE, !.doomed = {}, !.backup = b] \in Cycle
    <3>1. b \in Nat
      BY DEF Cycle
    <3>2. [cyc[s] EXCEPT !.failed = TRUE] \in Cycle
      BY DEF Cycle
    <3>3. [[cyc[s] EXCEPT !.failed = TRUE] EXCEPT !.doomed = {}] \in Cycle
      BY <3>2 DEF Cycle
    <3>4. [[[cyc[s] EXCEPT !.failed = TRUE] EXCEPT !.doomed = {}] EXCEPT !.backup = b] \in Cycle
      BY <3>1, <3>3 DEF Cycle
    <3> QED BY <3>4
  <2>3. cyc' \in [Sup -> Cycle]
    BY <2>1, <2>2
  <2> QED BY <1>20, <2>3 DEF BackupRaises, Fault
<1>25. ASSUME NEW s \in Sup, DrillRaises(s) PROVE SupTypeOK'
  <2>1. [cyc[s] EXCEPT !.drill = "failed"] \in Cycle
    BY DEF Cycle, Drills
  <2>2. [[cyc[s] EXCEPT !.drill = "failed"] EXCEPT !.failed = TRUE] \in Cycle
    BY <2>1 DEF Cycle
  <2>3. cyc' \in [Sup -> Cycle]
    BY <1>25, <2>2 DEF DrillRaises
  <2> QED BY <1>25, <2>3 DEF DrillRaises, Fault
<1>21. ASSUME NEW s \in Sup, Kill(s) PROVE SupTypeOK'
  BY <1>21, ExitTypes, OrphanType DEF Kill, Fault
<1>22. ASSUME NEW b \in dbs, Damage(b) PROVE SupTypeOK'
  BY <1>22 DEF Damage, Fault
<1>23. CASE Tick
  BY <1>23 DEF Tick, LockFile
<1>24. CASE UNCHANGED supVars
  BY <1>24 DEF supVars
<1> QED
  BY <1>1, <1>2, <1>3, <1>4, <1>5, <1>6, <1>7, <1>8, <1>9, <1>10, <1>11, <1>12, <1>13, <1>14,
     <1>15, <1>16, <1>17, <1>18, <1>19, <1>20, <1>21, <1>22, <1>23, <1>24,
     <1>25
     DEF SupNext, Proceed, TickStep, SupFault
-----------------------------------------------------------------------------
\* A tick that begins takes a reading nobody has used.
LEMMA BeginTickKeeps ==
  ASSUME SupInv, NEW s \in Sup, NEW ok \in BOOLEAN, NEW due \in BOOLEAN,
         NEW drill \in BOOLEAN, BeginTick(s, ok, due, drill)
  PROVE  OneUse' /\ Paired' /\ Kept' /\ Recorded'
<1> USE DEF SupInv, SupTypeOK
<1>1. /\ cyc'[s].stamp = stamps' /\ cyc'[s].doomed = {} /\ cyc'[s].backup = 0
      /\ pc'[s] \in {"create", "drill"}
      /\ pc'[s] = "create" => stamps' = stamps + 1
      /\ stamps' >= stamps /\ stamps' \in Nat
      /\ \A r \in Sup \ {s} : cyc'[r] = cyc[r] /\ pc'[r] = pc[r]
      /\ UNCHANGED <<manifests, dbs, rt>>
  BY DEF BeginTick, Goto, NoCycle
<1>2. OneUse'
  <2>1. \A r \in Sup : cyc[r].stamp \in Nat /\ cyc[r].doomed \subseteq Nat
    BY DEF Cycle
  <2> QED BY <1>1, <2>1 DEF OneUse, Writing
<1>3. Paired'
  BY <1>1 DEF Paired
<1>4. Kept'
  BY <1>1 DEF Kept
<1>5. Recorded'
  BY <1>1 DEF Recorded, AtLeast
<1> QED BY <1>2, <1>3, <1>4, <1>5

\* The database is there before the manifest.
LEMMA CreateKeeps ==
  ASSUME SupInv, NEW s \in Sup, CreateBackup(s)
  PROVE  OneUse' /\ Paired' /\ Kept' /\ Recorded'
<1> USE DEF SupInv, SupTypeOK
<1>1. /\ \A r \in Sup : /\ cyc'[r].stamp = cyc[r].stamp /\ cyc'[r].doomed = cyc[r].doomed
                        /\ cyc'[r].backup = cyc[r].backup
      /\ pc'[s] \in {"manifest", "drill"} /\ Writing(s)
      /\ pc'[s] = "manifest" => cyc[s].stamp \in dbs'
      /\ \A r \in Sup \ {s} : pc'[r] = pc[r]
      /\ dbs \subseteq dbs'
      /\ UNCHANGED <<manifests, stamps, rt>>
  BY DEF CreateBackup, Goto, Cycle, Writing
<1>2. OneUse'
  BY <1>1 DEF OneUse, Writing
<1>3. Paired'
  BY <1>1 DEF Paired
<1>4. Kept' /\ Recorded'
  BY <1>1 DEF Kept, Recorded, AtLeast
<1> QED BY <1>2, <1>3, <1>4

\* The manifest of a reading is written once.
LEMMA ManifestKeeps ==
  ASSUME SupInv, NEW s \in Sup, WriteManifest(s)
  PROVE  OneUse' /\ Paired' /\ Kept' /\ Recorded'
<1> USE DEF SupInv, SupTypeOK
<1>1. /\ \A r \in Sup : cyc'[r].stamp = cyc[r].stamp /\ cyc'[r].doomed = cyc[r].doomed
      /\ \A r \in Sup : cyc'[r].backup \in {cyc[r].backup, cyc[s].stamp}
      /\ \A r \in Sup \ {s} : cyc'[r].backup = cyc[r].backup
      /\ cyc[s].stamp \in Nat
      /\ pc[s] = "manifest" /\ pc'[s] = "verify" /\ Writing(s)
      /\ \A r \in Sup \ {s} : pc'[r] = pc[r]
      /\ manifests' = manifests \cup {cyc[s].stamp}
      /\ UNCHANGED <<dbs, stamps, rt>>
  BY DEF WriteManifest, Goto, Cycle, Writing
<1> DEFINE n == cyc[s].stamp
<1>2. OneUse'
  <2>1. n \in 0..stamps /\ \A r \in Sup : n \notin cyc[r].doomed
    BY <1>1 DEF OneUse
  <2>2. \A r \in Sup : Writing(r)' => r # s /\ Writing(r)
    BY <1>1 DEF Writing
  <2>3. \A r \in Sup : Writing(r)' => cyc[r].stamp # n
    BY <1>1, <2>2 DEF OneUse
  <2>4. manifests' \subseteq 0..stamps'
    BY <1>1, <2>1 DEF OneUse
  <2>5. \A r \in Sup : Writing(r)' =>
          /\ cyc'[r].stamp <= stamps'
          /\ cyc'[r].stamp \notin manifests'
          /\ \A q \in Sup : cyc'[r].stamp \notin cyc'[q].doomed
          /\ \A q \in Sup : Writing(q)' /\ cyc'[q].stamp = cyc'[r].stamp => q = r
    BY <1>1, <2>2, <2>3 DEF OneUse
  <2> QED BY <1>1, <2>4, <2>5 DEF OneUse
<1>3. Paired'
  <2>1. manifests' \subseteq dbs'
    BY <1>1 DEF Paired
  <2>2. \A r \in Sup : n \notin Newest(cyc[r].doomed)
    BY <1>1 DEF OneUse, Newest
  <2> QED BY <1>1, <2>1, <2>2 DEF Paired
<1>4. Kept' /\ Recorded'
  BY <1>1 DEF Kept, Recorded, AtLeast
<1> QED BY <1>2, <1>3, <1>4

\* A backup beyond the retention has a newer one, since at least two are kept.
LEMMA BeyondHasNewer ==
  ASSUME NEW M, NEW b \in Beyond(M) PROVE \E c \in M : c > b
<1> SUFFICES ASSUME ~ \E c \in M : c > b PROVE FALSE
  OBVIOUS
<1>1. {c \in M : c > b} = {}
  OBVIOUS
<1> QED BY <1>1, FS_EmptySet, SupervisorBounds DEF Beyond

\* What _prune_backups lists is beyond the retention.
LEMMA ListKeeps ==
  ASSUME SupInv, NEW s \in Sup, ListBackups(s)
  PROVE  OneUse' /\ Paired' /\ Kept' /\ Recorded'
<1> USE DEF SupInv, SupTypeOK, Cycle, ListBackups, Goto, backupVars
<1>0. Beyond(manifests) \subseteq manifests
  BY DEF Beyond
<1>1. OneUse'
  BY <1>0 DEF OneUse, Writing
<1>2. Paired'
  BY DEF Paired
<1>3. Kept'
  BY BeyondHasNewer DEF Kept
<1>4. Recorded'
  BY DEF Recorded, AtLeast
<1> QED BY <1>1, <1>2, <1>3, <1>4

\* Removing a manifest leaves a newer one for whoever relied on it.
LEMMA PruneKeeps ==
  ASSUME SupInv, NEW s \in Sup, PruneManifest(s) \/ PruneDatabase(s)
  PROVE  OneUse' /\ Paired' /\ Kept' /\ Recorded'
<1> USE DEF SupInv, SupTypeOK, Cycle, Goto
<1>1. CASE PruneManifest(s)
  <2> USE <1>1 DEF PruneManifest
  <2>0. \A b \in manifests : \E c \in manifests' : c >= b
    BY DEF Kept, Newest
  <2>1. OneUse'
    BY DEF OneUse, Writing
  <2>2. Paired'
    BY DEF Paired
  <2>3. Kept'
    BY <2>0 DEF Kept
  <2>4. Recorded'
    BY <2>0 DEF Recorded, AtLeast
  <2> QED BY <2>1, <2>2, <2>3, <2>4
<1>2. CASE PruneDatabase(s)
  <2> USE <1>2 DEF PruneDatabase
  <2>1. OneUse'
    BY DEF OneUse, Writing
  <2>2. Paired'
    BY DEF Paired, OneUse, Writing, Newest
  <2>3. Kept'
    BY DEF Kept
  <2>4. Recorded'
    BY DEF Recorded, AtLeast
  <2> QED BY <2>1, <2>2, <2>3, <2>4
<1> QED BY <1>1, <1>2

\* The row takes over what the tick made.
LEMMA RecordKeeps ==
  ASSUME SupInv, NEW s \in Sup, Record(s)
  PROVE  OneUse' /\ Paired' /\ Kept' /\ Recorded'
<1> USE DEF SupInv, SupTypeOK, Cycle, Record, Goto, NoCycle, backupVars
<1>1. OneUse'
  BY DEF OneUse, Writing
<1>2. Paired'
  BY DEF Paired
<1>3. Kept'
  BY DEF Kept
<1>4. Recorded'
  BY DEF Recorded, AtLeast
<1> QED BY <1>1, <1>2, <1>3, <1>4
-----------------------------------------------------------------------------
\* SupInv is inductive.
LEMMA SupInductive == SupInv /\ [SupNext]_supVars => SupInv'
<1> SUFFICES ASSUME SupInv, [SupNext]_supVars PROVE SupInv'
  OBVIOUS
<1>0. SupTypeOK /\ SupTypeOK'
  BY TypeStep DEF SupInv
<1> DEFINE Rest == OneUse' /\ Paired' /\ Kept' /\ Recorded'
<1>1. ASSUME NEW s \in Sup, Start(s) \/ Interrupt(s) \/ SupFault(s) PROVE Rest
  BY <1>0, <1>1, CalmActions, CalmKeeps
<1>2. ASSUME NEW s \in Sup, Proceed(s) PROVE Rest
  BY <1>0, <1>2, CalmActions, CalmKeeps, CreateKeeps, ManifestKeeps, ListKeeps, PruneKeeps, RecordKeeps
     DEF Proceed, TickStep
<1>3. ASSUME NEW s \in Sup, NEW ok \in BOOLEAN, NEW due \in BOOLEAN, NEW drill \in BOOLEAN,
             BeginTick(s, ok, due, drill)
      PROVE Rest
  BY <1>3, BeginTickKeeps
<1>4. ASSUME NEW b \in dbs, Damage(b) PROVE Rest
  <2>1. CalmStep
    BY <1>4 DEF Damage, CalmStep
  <2> QED BY <2>1, CalmKeeps
<1>5. ASSUME Tick \/ UNCHANGED supVars PROVE Rest
  <2>1. CalmStep
    BY <1>5 DEF Tick, CalmStep, supVars, backupVars
  <2> QED BY <2>1, CalmKeeps
<1>6. Rest
  BY <1>1, <1>2, <1>3, <1>4, <1>5 DEF SupNext
<1> QED BY <1>0, <1>6 DEF SupInv

LEMMA SupInitially == SupInit => SupInv
<1> SUFFICES ASSUME SupInit PROVE SupInv
  OBVIOUS
<1> USE DEF SupInit, NoCycle
<1>1. SupTypeOK
  BY EmptyTypes DEF SupTypeOK, Pcs, Drills
<1>2. OneUse /\ Paired /\ Kept /\ Recorded
  BY DEF OneUse, Paired, Kept, Recorded, AtLeast, Writing
<1> QED BY <1>1, <1>2 DEF SupInv

\* The runtime's variables keep their types, whatever is interrupted.
THEOREM SupervisorTypeCorrect == SupSpec => []SupTypeOK
<1>1. SupInit => SupTypeOK
  BY SupInitially DEF SupInv
<1>2. SupTypeOK /\ [SupNext]_supVars => SupTypeOK'
  BY TypeStep
<1> QED BY <1>1, <1>2, PTL DEF SupSpec

\* boot, tick, prune, crash and two supervisors at once: a backup at least as new as
\* the one runtime_state records is on disk, database and manifest.
THEOREM RecoveryPointKept == SupSpec => []RecoveryPoint
<1>1. SupInv => RecoveryPoint
  BY DEF SupInv, Paired, Recorded, AtLeast, RecoveryPoint
<1> QED BY <1>1, SupInitially, SupInductive, PTL DEF SupSpec
-----------------------------------------------------------------------------
(* Retention, with any number of supervisors at once *)

NewerThan(b) == {c \in manifests : c > b}

\* What is to be pruned has Retention newer manifests on disk.
Floor == \A s \in Sup : \A b \in cyc[s].doomed : Cardinality(NewerThan(b)) >= Retention

LEMMA FiniteReadings ==
  ASSUME NEW n \in Nat, NEW S, S \subseteq 0..n
  PROVE  IsFiniteSet(S) /\ Cardinality(S) \in Nat
<1>1. IsFiniteSet(0..n)
  <2>1. 0 \in Int /\ n \in Int
    OBVIOUS
  <2> QED BY <2>1, FS_Interval
<1>2. IsFiniteSet(S)
  BY <1>1, FS_Subset
<1> QED BY <1>2, FS_CardinalityType

LEMMA FiniteManifests ==
  ASSUME SupInv, NEW S \in SUBSET manifests
  PROVE  IsFiniteSet(manifests) /\ IsFiniteSet(S) /\ Cardinality(S) \in Nat
<1>1. stamps \in Nat /\ manifests \subseteq 0..stamps
  BY DEF SupInv, SupTypeOK, OneUse
<1>2. S \subseteq 0..stamps
  BY <1>1
<1> QED BY <1>1, <1>2, FiniteReadings

LEMMA NewestOne ==
  ASSUME NEW S \in SUBSET Nat, NEW b \in Newest(S), NEW c \in Newest(S) PROVE b = c
BY DEF Newest

\* Who lists, lists what is beyond the retention; who removes a manifest has Retention
\* newer ones, which are newer than whatever anybody else was to remove below it.
LEMMA FloorStep == SupInv /\ Floor /\ [SupNext]_supVars => Floor'
<1> SUFFICES ASSUME SupInv, Floor, [SupNext]_supVars, NEW r \in Sup, NEW b \in cyc'[r].doomed
             PROVE  Cardinality(NewerThan(b)') >= Retention
  BY DEF Floor, NewerThan
<1>0. /\ SupTypeOK /\ SupTypeOK' /\ SupInv' /\ Retention \in Nat
      /\ cyc \in [Sup -> Cycle] /\ manifests \subseteq Nat
  BY SupInductive, SupervisorBounds DEF SupInv, SupTypeOK
<1>1. CASE b \in cyc[r].doomed /\ manifests \subseteq manifests'
  <2>1. NewerThan(b) \subseteq NewerThan(b)' /\ NewerThan(b)' \subseteq manifests'
    BY <1>1 DEF NewerThan
  <2>2. IsFiniteSet(NewerThan(b)')
    <3>1. stamps' \in Nat /\ NewerThan(b)' \subseteq 0..stamps'
      BY <1>0, <2>1 DEF SupInv, OneUse, SupTypeOK
    <3> QED BY <3>1, FiniteReadings
  <2>3. Cardinality(NewerThan(b)) <= Cardinality(NewerThan(b)')
    BY <2>1, <2>2, FS_Subset
  <2>4. Cardinality(NewerThan(b)) \in Nat /\ Cardinality(NewerThan(b)') \in Nat
    BY <2>1, <2>2, FS_Subset, FS_CardinalityType
  <2>5. Cardinality(NewerThan(b)) >= Retention
    BY <1>1 DEF Floor
  <2> QED BY <1>0, <2>3, <2>4, <2>5
<1>2. ASSUME NEW s \in Sup, ListBackups(s) PROVE Cardinality(NewerThan(b)') >= Retention
  <2>1. manifests' = manifests /\ b \in cyc[r].doomed \cup Beyond(manifests)
    BY <1>0, <1>2 DEF ListBackups, backupVars, Cycle
  <2>2. CASE b \in Beyond(manifests)
    BY <2>1, <2>2 DEF Beyond, NewerThan
  <2> QED BY <1>1, <2>1, <2>2
<1>3. ASSUME NEW s \in Sup, PruneManifest(s) PROVE Cardinality(NewerThan(b)') >= Retention
  <2>0. /\ manifests' = manifests \ Newest(cyc[s].doomed) /\ b \in cyc[r].doomed
        /\ cyc[s].doomed \subseteq Nat /\ cyc[r].doomed \subseteq Nat
    BY <1>0, <1>3 DEF PruneManifest, Cycle
  <2>1. CASE \E m \in Newest(cyc[s].doomed) : m > b
    <3>1. PICK m \in Newest(cyc[s].doomed) : m > b
      BY <2>1
    <3>2. m \in cyc[s].doomed /\ m \in Nat
      BY <2>0 DEF Newest
    <3>3. NewerThan(m) \subseteq NewerThan(b)'
      <4> SUFFICES ASSUME NEW c \in manifests, c > m
                   PROVE  c \in manifests' /\ c > b
        BY DEF NewerThan
      <4>1. b \in Nat /\ c \in Nat
        BY <1>0, <2>0
      <4>2. c \notin Newest(cyc[s].doomed)
        BY <2>0, <3>2, <4>1 DEF Newest
      <4> QED BY <2>0, <3>1, <3>2, <4>1, <4>2
    <3>4. NewerThan(b)' \subseteq manifests
      BY <2>0 DEF NewerThan
    <3>5. IsFiniteSet(NewerThan(b)') /\ Cardinality(NewerThan(b)') \in Nat
      BY <3>4, FiniteManifests
    <3>6. Cardinality(NewerThan(m)) <= Cardinality(NewerThan(b)')
      BY <3>3, <3>5, FS_Subset
    <3>7. Cardinality(NewerThan(m)) >= Retention /\ Cardinality(NewerThan(m)) \in Nat
      BY <3>2, <3>3, <3>5, FS_Subset, FS_CardinalityType DEF Floor
    <3> QED BY <1>0, <3>5, <3>6, <3>7
  <2>2. CASE ~ \E m \in Newest(cyc[s].doomed) : m > b
    <3>1. NewerThan(b)' = NewerThan(b)
      BY <1>0, <2>0, <2>2 DEF NewerThan
    <3> QED BY <2>0, <3>1 DEF Floor
  <2> QED BY <2>1, <2>2
<1>4. CASE CalmStep
  BY <1>1, <1>4 DEF CalmStep
<1>5. ASSUME NEW s \in Sup, Start(s) \/ Interrupt(s) \/ SupFault(s)
      PROVE  Cardinality(NewerThan(b)') >= Retention
  BY <1>0, <1>4, <1>5, CalmActions
<1>6. ASSUME NEW s \in Sup, CreateBackup(s) \/ WriteManifest(s) \/ PruneDatabase(s) \/ Record(s)
      PROVE  Cardinality(NewerThan(b)') >= Retention
  <2>1. b \in cyc[r].doomed
    BY <1>0, <1>6 DEF CreateBackup, WriteManifest, PruneDatabase, Record, NoCycle, Cycle
  <2>2. manifests \subseteq manifests'
    BY <1>6 DEF CreateBackup, WriteManifest, PruneDatabase, Record, backupVars
  <2> QED BY <1>1, <2>1, <2>2
<1>7. ASSUME NEW s \in Sup, Proceed(s) PROVE Cardinality(NewerThan(b)') >= Retention
  BY <1>0, <1>2, <1>3, <1>4, <1>6, <1>7, CalmActions DEF Proceed, TickStep
<1>8. ASSUME NEW s \in Sup, NEW ok \in BOOLEAN, NEW due \in BOOLEAN, NEW drill \in BOOLEAN,
             BeginTick(s, ok, due, drill)
      PROVE  Cardinality(NewerThan(b)') >= Retention
  <2>1. b \in cyc[r].doomed /\ manifests' = manifests
    BY <1>0, <1>8 DEF BeginTick, NoCycle
  <2> QED BY <1>1, <2>1
<1>9. CASE UNCHANGED <<cyc, manifests>>
  BY <1>1, <1>9
<1> QED
  BY <1>5, <1>7, <1>8, <1>9 DEF SupNext, Damage, Tick, supVars, backupVars

\* "nunca apaga os backups mais recentes abaixo do piso configurado" holds of every
\* removal, even while two supervisors list, create and prune side by side.
THEOREM RetentionFloorKept == SupSpec => RetentionFloor
<1>1. SupInit => SupInv /\ Floor
  BY SupInitially DEF SupInit, NoCycle, Floor
<1>2. SupInv /\ Floor /\ [SupNext]_supVars =>
        \A b \in manifests \ manifests' : Cardinality({c \in manifests : c > b}) >= Retention
  <2> SUFFICES ASSUME SupInv, Floor, [SupNext]_supVars, NEW b \in manifests \ manifests'
               PROVE  Cardinality(NewerThan(b)) >= Retention
    BY DEF NewerThan
  <2>1. CASE CalmStep
    BY <2>1 DEF CalmStep
  <2>2. ASSUME NEW s \in Sup, PruneManifest(s) PROVE Cardinality(NewerThan(b)) >= Retention
    BY <2>2 DEF PruneManifest, Newest, Floor
  <2>3. ASSUME NEW s \in Sup, Proceed(s) PROVE Cardinality(NewerThan(b)) >= Retention
    BY <2>1, <2>2, <2>3, CalmActions
       DEF SupInv, Proceed, TickStep, CreateBackup, WriteManifest, ListBackups, PruneDatabase,
           Record, backupVars
  <2> QED
    BY <2>1, <2>3, CalmActions DEF SupInv, SupNext, BeginTick, Damage, Tick, supVars, backupVars
<1> QED BY <1>1, <1>2, SupInductive, FloorStep, PTL DEF SupSpec, RetentionFloor
-----------------------------------------------------------------------------
(* One supervisor, when starts are timely *)

\* Where a process has the lock.
Holding == InTick \cup {"boot", "resume", "idle", "unlock"}

LockAt(s) ==
  /\ owned[s] => lock.token = s /\ lock.there /\ lock.written
  /\ pc[s] \in Acquiring /\ lock.token # NULL => lock.age <= Stale
  /\ pc[s] = "write" => lock.token = s /\ lock.there /\ lock.age = 0
  /\ pc[s] = "unlink" => ~Fresh
  /\ pc[s] \in Acquiring \cup {"down"} => ~owned[s]
  /\ pc[s] \in Holding => owned[s]

OneStart == \A s, r \in Sup : pc[s] \in Acquiring /\ pc[r] \in Acquiring => s = r

LockInv == OneStart /\ \A s \in Sup : LockAt(s)

\* A step of s that leaves the lock alone, out of acquire and not into a tick.
LEMMA LockCalm ==
  ASSUME SupTypeOK, LockInv, NEW s \in Sup, NEW l, Goto(s, l), UNCHANGED <<lock, owned>>,
         l \notin Acquiring \cup {"down"}, l \in Holding => pc[s] \in Holding
  PROVE  LockInv'
<1>1. pc \in [Sup -> Pcs] /\ pc'[s] = l /\ \A r \in Sup \ {s} : pc'[r] = pc[r]
  BY DEF SupTypeOK, Goto
<1>2. OneStart'
  BY <1>1 DEF LockInv, OneStart
<1>3. \A r \in Sup : LockAt(r)'
  BY <1>1 DEF LockInv, LockAt, Fresh, Acquiring
<1> QED BY <1>2, <1>3 DEF LockInv

\* The end of s: the lock is gone, is as it was, or has lost s's token.
LEMMA LockExit ==
  ASSUME SupTypeOK, LockInv, NEW s \in Sup, Exit(s), lock' \in {lock, Orphan(s, lock)}
  PROVE  LockInv'
<1>1. /\ pc'[s] = "down" /\ \A r \in Sup \ {s} : pc'[r] = pc[r]
      /\ owned'[s] = FALSE /\ \A r \in Sup \ {s} : owned'[r] = owned[r]
  BY DEF SupTypeOK, Exit, Goto
<1>2. /\ lock'.there = lock.there /\ lock'.written = lock.written /\ lock'.age = lock.age
      /\ lock.token # s => lock'.token = lock.token
      /\ lock'.token # NULL => lock'.token = lock.token
  BY DEF Orphan, SupTypeOK, LockFile
<1>3. Fresh' <=> Fresh
  BY <1>2 DEF Fresh
<1>4. OneStart'
  BY <1>1 DEF LockInv, OneStart, Acquiring
<1>5. LockAt(s)'
  BY <1>1 DEF LockAt, Acquiring, Holding, InTick, Backing
<1>6. ASSUME NEW r \in Sup, r # s PROVE LockAt(r)'
  <2>1. LockAt(r) /\ pc'[r] = pc[r] /\ owned'[r] = owned[r]
    BY <1>1, <1>6 DEF LockInv
  <2> QED BY <1>2, <1>3, <1>6, <2>1 DEF LockAt
<1> QED BY <1>4, <1>5, <1>6 DEF LockInv

\* The file is removed when nobody has the lock, or by the one who has.
LEMMA LockGone ==
  ASSUME SupTypeOK, LockInv, NEW s \in Sup, lock' = NoLock,
         \A r \in Sup \ {s} : /\ ~owned[r] /\ pc[r] # "write"
                              /\ pc'[r] = pc[r] /\ owned'[r] = owned[r],
         ~owned'[s], pc'[s] \in {"open", "down"},
         pc'[s] = "open" => pc[s] \in Acquiring
  PROVE  LockInv'
<1>1. ~Fresh' /\ lock'.token = NULL
  BY DEF Fresh, NoLock
<1>2. OneStart'
  BY DEF LockInv, OneStart, Acquiring
<1>3. LockAt(s)'
  BY <1>1 DEF LockAt, Acquiring, Holding, InTick, Backing
<1>4. ASSUME NEW r \in Sup, r # s PROVE LockAt(r)'
  <2>1. LockAt(r) /\ pc'[r] = pc[r] /\ ~owned'[r] /\ ~owned[r] /\ pc[r] # "write"
    BY <1>4 DEF LockInv
  <2> QED BY <1>1, <2>1 DEF LockAt
<1> QED BY <1>2, <1>3, <1>4 DEF LockInv

LEMMA LockStep ==
  ASSUME Timely, SupTypeOK, LockInv, [SupNext]_supVars PROVE LockInv'
<1> USE SupAssumption, SupervisorBounds
<1>0. /\ pc \in [Sup -> Pcs] /\ owned \in [Sup -> BOOLEAN] /\ lock \in LockFile
      /\ OneStart /\ \A s \in Sup : LockAt(s)
  BY DEF SupTypeOK, LockInv
<1>1. ASSUME NEW s \in Sup, Start(s) PROVE LockInv'
  <2>1. /\ pc'[s] = "open" /\ pc[s] = "down" /\ \A r \in Sup \ {s} : pc'[r] = pc[r]
        /\ UNCHANGED <<lock, owned>> /\ \A r \in Sup : pc[r] \notin Acquiring
        /\ lock.token # NULL => lock.age <= Stale
    BY <1>0, <1>1 DEF Start, Goto
  <2>2. OneStart'
    BY <2>1 DEF OneStart
  <2>3. \A r \in Sup : LockAt(r)'
    BY <1>0, <2>1 DEF LockAt, Fresh, Holding, InTick, Backing
  <2> QED BY <2>2, <2>3 DEF LockInv
<1>2. ASSUME NEW s \in Sup, Open(s) PROVE LockInv'
  <2>0. /\ pc[s] = "open" /\ pc'[s] \in {"write", "read"}
        /\ \A r \in Sup \ {s} : pc'[r] = pc[r] /\ pc[r] \notin Acquiring
        /\ UNCHANGED owned /\ ~owned[s]
    BY <1>0, <1>2 DEF Open, Goto, OneStart, LockAt, Acquiring
  <2>1. OneStart'
    BY <2>0 DEF OneStart
  <2>2. CASE lock.there
    <3>1. UNCHANGED lock /\ pc'[s] = "read"
      BY <1>0, <1>2, <2>2 DEF Open, Goto
    <3>2. \A r \in Sup : LockAt(r)'
      BY <1>0, <2>0, <3>1 DEF LockAt, Fresh, Holding, InTick, Backing, Acquiring
    <3> QED BY <2>1, <3>2 DEF LockInv
  <2>3. CASE ~lock.there
    <3>1. lock' = [there |-> TRUE, token |-> s, written |-> FALSE, age |-> 0]
      BY <1>2, <2>3 DEF Open
    <3>2. \A r \in Sup : ~owned[r]
      BY <1>0, <2>3 DEF LockAt, Fresh
    <3>3. pc'[s] = "write"
      BY <1>0, <1>2, <2>3 DEF Open, Goto
    <3>4. LockAt(s)'
      BY <2>0, <3>1, <3>3 DEF LockAt, Holding, InTick, Backing
    <3>5. \A r \in Sup \ {s} : LockAt(r)'
      BY <1>0, <2>0, <3>2 DEF LockAt, Acquiring
    <3> QED BY <2>1, <3>4, <3>5 DEF LockInv
  <2> QED BY <2>2, <2>3
<1>3. ASSUME NEW s \in Sup, Write(s) PROVE LockInv'
  <2>0. /\ pc[s] = "write" /\ pc'[s] = "boot" /\ lock.token = s /\ lock.there /\ lock.age = 0
        /\ \A r \in Sup \ {s} : pc'[r] = pc[r] /\ pc[r] \notin Acquiring
        /\ owned'[s] = TRUE /\ \A r \in Sup \ {s} : owned'[r] = owned[r]
    BY <1>0, <1>3 DEF Write, Goto, OneStart, LockAt, Acquiring
  <2>1. lock' = [lock EXCEPT !.written = TRUE]
    BY <1>3, <2>0 DEF Write
  <2>2. lock'.written = TRUE /\ lock'.there /\ lock'.token = s /\ lock'.age = 0
    BY <1>0, <2>0, <2>1 DEF LockFile
  <2>3. Fresh'
    BY <2>2 DEF Fresh
  <2>4. OneStart'
    BY <2>0 DEF OneStart, Acquiring
  <2>5. LockAt(s)'
    BY <2>0, <2>2, <2>3 DEF LockAt, Acquiring
  <2>6. \A r \in Sup \ {s} : ~owned[r]
    BY <1>0, <2>0 DEF LockAt
  <2>7. \A r \in Sup \ {s} : LockAt(r)'
    BY <1>0, <2>0, <2>6 DEF LockAt, Acquiring
  <2> QED BY <2>4, <2>5, <2>7 DEF LockInv
<1>4. ASSUME NEW s \in Sup, ReadLock(s) PROVE LockInv'
  <2>1. CASE Fresh
    BY <1>4, <2>1, LockExit DEF ReadLock
  <2>2. CASE ~Fresh
    <3>1. /\ pc[s] = "read" /\ pc'[s] = "unlink" /\ UNCHANGED <<lock, owned>>
          /\ \A r \in Sup \ {s} : pc'[r] = pc[r]
      BY <1>0, <1>4, <2>2 DEF ReadLock, Goto
    <3>2. OneStart'
      BY <1>0, <3>1 DEF OneStart, Acquiring
    <3>3. \A r \in Sup : LockAt(r)'
      BY <1>0, <2>2, <3>1 DEF LockAt, Fresh, Acquiring, Holding, InTick, Backing
    <3> QED BY <3>2, <3>3 DEF LockInv
  <2> QED BY <2>1, <2>2
<1>5. ASSUME NEW s \in Sup, UnlinkStale(s) PROVE LockInv'
  <2>0. /\ pc[s] = "unlink" /\ lock' = NoLock /\ ~owned[s] /\ ~Fresh
        /\ lock.token # NULL => lock.age <= Stale
    BY <1>0, <1>5 DEF UnlinkStale, LockAt, Acquiring
  <2>1. /\ pc[s] = "unlink" /\ lock' = NoLock /\ ~owned[s] /\ ~Fresh
        /\ \A r \in Sup : ~owned[r]
    BY <1>0, <2>0 DEF LockAt, Fresh
  <2>2. pc'[s] \in {"open", "down"} /\ ~owned'[s]
    BY <1>0, <1>5, <2>1 DEF UnlinkStale, Goto, Exit
  <2>3. \A r \in Sup \ {s} : pc'[r] = pc[r] /\ owned'[r] = owned[r] /\ pc[r] # "write"
    BY <1>0, <1>5, <2>1 DEF UnlinkStale, Goto, Exit, OneStart, Acquiring
  <2> QED BY <2>1, <2>2, <2>3, LockGone DEF Acquiring
<1>6. ASSUME NEW s \in Sup, ReadToken(s) PROVE LockInv'
  <2>1. CASE owned[s] /\ lock.token = s /\ lock.written
    <3>1. /\ pc'[s] = "unlock" /\ UNCHANGED <<lock, owned>>
          /\ \A r \in Sup \ {s} : pc'[r] = pc[r]
      BY <1>0, <1>6, <2>1 DEF ReadToken, Goto
    <3>2. OneStart'
      BY <1>0, <3>1 DEF OneStart, Acquiring
    <3>3. \A r \in Sup : LockAt(r)'
      BY <1>0, <2>1, <3>1 DEF LockAt, Fresh, Acquiring
    <3> QED BY <3>2, <3>3 DEF LockInv
  <2>2. CASE ~(owned[s] /\ lock.token = s /\ lock.written)
    BY <1>6, <2>2, LockExit DEF ReadToken
  <2> QED BY <2>1, <2>2
<1>7. ASSUME NEW s \in Sup, Unlock(s) PROVE LockInv'
  <2>1. pc[s] = "unlock" /\ owned[s] /\ lock.token = s
    BY <1>0, <1>7 DEF Unlock, LockAt, Holding
  <2>2. /\ pc'[s] = "down" /\ ~owned'[s] /\ lock' = NoLock
        /\ \A r \in Sup \ {s} : pc'[r] = pc[r] /\ owned'[r] = owned[r]
    BY <1>0, <1>7 DEF Unlock, Exit, Goto
  <2>3. \A r \in Sup \ {s} : ~owned[r] /\ pc[r] # "write"
    BY <1>0, <2>1 DEF LockAt
  <2> QED BY <2>2, <2>3, LockGone
<1>8. ASSUME NEW s \in Sup, Boot(s) \/ Booted(s) \/ Stop(s) \/ Interrupt(s) PROVE LockInv'
  BY <1>8, LockCalm
     DEF Boot, Booted, Stop, Interrupt, lockVars, Holding, Acquiring, InTick, Backing
<1>9. ASSUME NEW s \in Sup, NEW ok \in BOOLEAN, NEW due \in BOOLEAN, NEW drill \in BOOLEAN,
             BeginTick(s, ok, due, drill)
      PROVE  LockInv'
  BY <1>9, LockCalm DEF BeginTick, lockVars, Holding, Acquiring, InTick, Backing
<1>10. ASSUME NEW s \in Sup, TickStep(s) PROVE LockInv'
  <2> USE LockCalm DEF lockVars, Holding, Acquiring, InTick, Backing
  <2>1. CASE CreateBackup(s)
    BY <2>1 DEF CreateBackup
  <2>2. CASE WriteManifest(s) \/ Drill(s) \/ Record(s)
    BY <2>2 DEF WriteManifest, Drill, Record
  <2>3. CASE VerifyBackup(s)
    BY <2>3 DEF VerifyBackup
  <2>4. CASE ListBackups(s) \/ PruneManifest(s) \/ PruneDatabase(s)
    BY <2>4 DEF ListBackups, PruneManifest, PruneDatabase
  <2> QED BY <1>10, <2>1, <2>2, <2>3, <2>4 DEF TickStep
<1>11. ASSUME NEW s \in Sup, \/ InterruptedMidway(s) \/ Uncaught(s) \/ BackupRaises(s)
                             \/ DrillRaises(s)
       PROVE  LockInv'
  <2> USE LockCalm DEF lockVars, Holding, Acquiring, InTick, Backing
  <2>1. CASE InterruptedMidway(s)
    BY <2>1 DEF InterruptedMidway
  <2>2. CASE Uncaught(s)
    BY <2>2 DEF Uncaught
  <2>3. CASE BackupRaises(s) \/ DrillRaises(s)
    BY <2>3 DEF BackupRaises, DrillRaises
  <2> QED BY <1>11, <2>1, <2>2, <2>3
<1>12. ASSUME NEW s \in Sup, Kill(s) PROVE LockInv'
  BY <1>12, LockExit DEF Kill
<1>13. CASE Tick
  <2>1. /\ \A s \in Sup : pc[s] \notin Acquiring
        /\ UNCHANGED <<pc, owned>>
    BY <1>13 DEF Tick
  <2>2. /\ lock'.there = lock.there /\ lock'.written = lock.written
        /\ lock'.age = lock.age + 1 /\ lock'.token = lock.token /\ lock.age \in Nat
    BY <1>0, <1>13 DEF Tick, LockFile
  <2>3. OneStart'
    BY <2>1 DEF OneStart
  <2>4. \A s \in Sup : LockAt(s)'
    BY <1>0, <2>1, <2>2 DEF LockAt, Fresh, Acquiring
  <2> QED BY <2>3, <2>4 DEF LockInv
<1>14. CASE UNCHANGED <<lock, owned, pc>>
  BY <1>0, <1>14 DEF LockInv, OneStart, LockAt, Fresh
<1> QED
  BY <1>1, <1>2, <1>3, <1>4, <1>5, <1>6, <1>7, <1>8, <1>9, <1>10, <1>11, <1>12, <1>13, <1>14
     DEF SupNext, Proceed, SupFault, Damage, supVars, lockVars

\* SupervisorLock keeps the runtime to one process, for as long as that process runs and
\* whatever crashes, is interrupted or leaves a stale file behind, if starts do not
\* overlap and none is tried beside a process whose lock has gone stale.
THEOREM OneSupervisor ==
  ASSUME Timely PROVE SupSpec => []SingleInstance
<1>1. SupInit => SupTypeOK /\ LockInv
  <2>1. SupInit => LockInv
    BY DEF SupInit, LockInv, OneStart, LockAt, Acquiring, Holding, InTick, Backing
  <2> QED BY <2>1, SupInitially DEF SupInv
<1>2. SupTypeOK /\ LockInv /\ [SupNext]_supVars => (SupTypeOK /\ LockInv)'
  BY TypeStep, LockStep
<1>3. LockInv => SingleInstance
  BY DEF LockInv, LockAt, SingleInstance
<1> QED BY <1>1, <1>2, <1>3, PTL DEF SupSpec
-----------------------------------------------------------------------------
(* One tick at a time: drills *)

\* A process in its loop came through acquire.
Owners == \A s \in Sup : pc[s] \in InTick \cup {"boot", "resume", "idle"} => owned[s]

Alone == Owners /\ SingleInstance

LEMMA OwnersStep == SupTypeOK /\ Owners /\ [SupNext]_supVars => Owners'
<1> SUFFICES ASSUME SupTypeOK, Owners, [SupNext]_supVars PROVE Owners'
  OBVIOUS
<1>0. pc \in [Sup -> Pcs] /\ owned \in [Sup -> BOOLEAN]
  BY DEF SupTypeOK
<1> DEFINE Loop == InTick \cup {"boot", "resume", "idle"}
<1>1. ASSUME NEW s \in Sup, NEW l, Goto(s, l), UNCHANGED owned, l \in Loop => pc[s] \in Loop
      PROVE  Owners'
  <2>1. pc'[s] = l /\ \A r \in Sup \ {s} : pc'[r] = pc[r]
    BY <1>0, <1>1 DEF Goto
  <2> QED BY <1>1, <2>1 DEF Owners
<1>2. ASSUME NEW s \in Sup, Exit(s) PROVE Owners'
  <2>1. pc'[s] = "down" /\ \A r \in Sup \ {s} : pc'[r] = pc[r] /\ owned'[r] = owned[r]
    BY <1>0, <1>2 DEF Exit, Goto
  <2> QED BY <2>1 DEF Owners, InTick, Backing
<1>3. ASSUME NEW s \in Sup, Write(s) PROVE Owners'
  BY <1>0, <1>3 DEF Write, Goto, Owners
<1> USE DEF lockVars, InTick, Backing, Acquiring
<1>4. ASSUME NEW s \in Sup, Start(s) \/ Open(s) \/ ReadLock(s) \/ UnlinkStale(s) PROVE Owners'
  BY <1>1, <1>2, <1>4 DEF Start, Open, ReadLock, UnlinkStale
<1>5. ASSUME NEW s \in Sup, ReadToken(s) \/ Unlock(s) \/ Kill(s) PROVE Owners'
  BY <1>1, <1>2, <1>5 DEF ReadToken, Unlock, Kill
<1>6. ASSUME NEW s \in Sup, Boot(s) \/ Booted(s) \/ Stop(s) \/ Interrupt(s) PROVE Owners'
  BY <1>1, <1>6 DEF Boot, Booted, Stop, Interrupt
<1>7. ASSUME NEW s \in Sup, TickStep(s) PROVE Owners'
  <2>1. CASE CreateBackup(s) \/ WriteManifest(s) \/ VerifyBackup(s) \/ ListBackups(s)
    BY <1>1, <2>1 DEF CreateBackup, WriteManifest, VerifyBackup, ListBackups
  <2>2. CASE PruneManifest(s) \/ PruneDatabase(s) \/ Drill(s) \/ Record(s)
    BY <1>1, <2>2 DEF PruneManifest, PruneDatabase, Drill, Record
  <2> QED BY <1>7, <2>1, <2>2 DEF TickStep
<1>8. ASSUME NEW s \in Sup, \/ InterruptedMidway(s) \/ Uncaught(s) \/ BackupRaises(s)
                            \/ DrillRaises(s)
      PROVE  Owners'
  BY <1>1, <1>8 DEF InterruptedMidway, Uncaught, BackupRaises, DrillRaises
<1>9. ASSUME NEW s \in Sup, NEW ok \in BOOLEAN, NEW due \in BOOLEAN, NEW drill \in BOOLEAN,
             BeginTick(s, ok, due, drill)
      PROVE  Owners'
  BY <1>1, <1>9 DEF BeginTick
<1>10. CASE UNCHANGED <<pc, owned>>
  BY <1>10 DEF Owners
<1> QED
  BY <1>3, <1>4, <1>5, <1>6, <1>7, <1>8, <1>9, <1>10
     DEF SupNext, Proceed, SupFault, Damage, Tick, supVars

LEMMA OneTick ==
  ASSUME Alone, NEW s \in Sup, NEW r \in Sup, pc[s] \in InTick \cup {"idle"},
         pc[r] \in InTick \cup {"idle"}
  PROVE  s = r
BY DEF Alone, Owners, SingleInstance

\* The tick under way took the last reading, and its backup is on disk.
DrillAt(s) ==
  pc[s] \in InTick => /\ cyc[s].stamp = stamps
                      /\ cyc[s].backup # 0 => cyc[s].backup = stamps /\ stamps \in manifests
                      /\ stamps \notin cyc[s].doomed

DrillInv == \A s \in Sup : DrillAt(s)

\* A step that does not begin a tick, or make or prune a backup.
LEMMA DrillCalm ==
  ASSUME DrillInv, CalmStep,
         \A s \in Sup : pc'[s] \in InTick => pc[s] \in InTick /\ cyc'[s].stamp = cyc[s].stamp
  PROVE  DrillInv'
<1> SUFFICES ASSUME NEW s \in Sup PROVE DrillAt(s)'
  BY DEF DrillInv
<1>1. DrillAt(s) /\ stamps' = stamps /\ manifests' = manifests
  BY DEF DrillInv, CalmStep
<1>2. cyc'[s].doomed \subseteq cyc[s].doomed /\ cyc'[s].backup \in {0, cyc[s].backup}
  BY DEF CalmStep
<1> QED BY <1>1, <1>2 DEF DrillAt

\* The backup a drill restores has its manifest, and so its database.
LEMMA DrillsWhole ==
  ASSUME SupInv, DrillInv PROVE DrillWhole
<1> SUFFICES ASSUME NEW s \in Sup, pc[s] = "drill", Drilled(s)
             PROVE  Effective(s) \in manifests \cap dbs
  BY DEF DrillWhole
<1>1. Effective(s) \in manifests
  <2>1. DrillAt(s)
    BY DEF DrillInv
  <2>2. CASE cyc[s].backup # 0
    BY <2>1, <2>2 DEF DrillAt, InTick, Effective
  <2>3. CASE cyc[s].backup = 0
    BY <2>3 DEF Drilled, Effective
  <2> QED BY <2>2, <2>3
<1> QED BY <1>1 DEF SupInv, Paired

LEMMA DrillStep == SupInv /\ Alone /\ DrillInv /\ [SupNext]_supVars => DrillInv'
<1> SUFFICES ASSUME SupInv, Alone, DrillInv, [SupNext]_supVars PROVE DrillInv'
  OBVIOUS
<1>0. /\ SupTypeOK /\ pc \in [Sup -> Pcs] /\ cyc \in [Sup -> Cycle]
      /\ manifests \subseteq 0..stamps /\ stamps \in Nat
      /\ \A s \in Sup : DrillAt(s)
  BY DEF SupInv, SupTypeOK, OneUse, DrillInv
<1>1. ASSUME NEW s \in Sup,
             \/ Start(s) \/ Open(s) \/ Write(s) \/ ReadLock(s) \/ UnlinkStale(s)
             \/ ReadToken(s) \/ Unlock(s) \/ Boot(s) \/ Booted(s) \/ Stop(s)
             \/ Interrupt(s) \/ SupFault(s) \/ VerifyBackup(s)
      PROVE  DrillInv'
  <2>1. CalmStep
    BY <1>0, <1>1, CalmActions
  <2> USE DEF InTick, Backing, Goto, Exit, NoCycle, Cycle
  <2> DEFINE Quietly == \A r \in Sup :
               pc'[r] \in InTick => pc[r] \in InTick /\ cyc'[r].stamp = cyc[r].stamp
  <2>3. CASE Start(s) \/ Open(s) \/ Write(s) \/ Boot(s) \/ Booted(s) \/ Stop(s) \/ Interrupt(s)
    <3>1. Quietly
      BY <1>0, <2>3 DEF Start, Open, Write, Boot, Booted, Stop, Interrupt
    <3> QED BY <2>1, <3>1, DrillCalm
  <2>4. CASE ReadLock(s) \/ UnlinkStale(s) \/ ReadToken(s) \/ Unlock(s) \/ Kill(s)
    <3>1. Quietly
      BY <1>0, <2>4 DEF ReadLock, UnlinkStale, ReadToken, Unlock, Kill
    <3> QED BY <2>1, <3>1, DrillCalm
  <2>5. CASE InterruptedMidway(s) \/ Uncaught(s)
    <3>1. Quietly
      BY <1>0, <2>5 DEF InterruptedMidway, Uncaught
    <3> QED BY <2>1, <3>1, DrillCalm
  <2>6. CASE VerifyBackup(s)
    <3>1. Quietly
      BY <1>0, <2>6 DEF VerifyBackup
    <3> QED BY <2>1, <3>1, DrillCalm
  <2>8. CASE DrillRaises(s)
    <3>1. cyc' = [cyc EXCEPT ![s] = [@ EXCEPT !.drill = "failed", !.failed = TRUE]]
      BY <2>8 DEF DrillRaises
    <3>2. cyc'[s].stamp = cyc[s].stamp
      BY <1>0, <3>1
    <3>3. \A r \in Sup \ {s} : cyc'[r] = cyc[r] /\ pc'[r] = pc[r]
      BY <1>0, <2>8, <3>1 DEF DrillRaises
    <3>4. pc[s] \in InTick
      BY <2>8 DEF DrillRaises
    <3>5. Quietly
      BY <3>2, <3>3, <3>4
    <3> QED BY <2>1, <3>5, DrillCalm
  <2>7. CASE BackupRaises(s)
    <3>1. PICK b \in {cyc[s].backup, 0} :
            cyc' = [cyc EXCEPT ![s] = [@ EXCEPT !.failed = TRUE, !.doomed = {}, !.backup = b]]
      BY <2>7 DEF BackupRaises
    <3>2. cyc'[s].stamp = cyc[s].stamp
      BY <1>0, <3>1
    <3>3. \A r \in Sup \ {s} : cyc'[r] = cyc[r] /\ pc'[r] = pc[r]
      BY <1>0, <2>7, <3>1 DEF BackupRaises
    <3>4. pc[s] \in InTick
      BY <2>7 DEF BackupRaises
    <3>5. Quietly
      BY <3>2, <3>3, <3>4
    <3> QED BY <2>1, <3>5, DrillCalm
  <2> QED BY <1>1, <2>3, <2>4, <2>5, <2>6, <2>7, <2>8 DEF SupFault
<1>2. ASSUME NEW b \in dbs, Damage(b) PROVE DrillInv'
  <2>1. CalmStep
    BY <1>2 DEF Damage, CalmStep
  <2> QED BY <1>2, <2>1, DrillCalm DEF Damage
<1>3. CASE Tick \/ UNCHANGED supVars
  <2>1. CalmStep
    BY <1>3 DEF Tick, CalmStep, supVars, backupVars
  <2> QED BY <1>3, <2>1, DrillCalm DEF Tick, supVars, backupVars
\* From here on s is the one process in a tick.
<1>4. ASSUME NEW s \in Sup, pc[s] \in InTick \cup {"idle"}, NEW r \in Sup, r # s,
             pc'[r] = pc[r]
      PROVE  DrillAt(r)'
  <2>1. pc[r] \notin InTick
    BY <1>4, OneTick
  <2> QED BY <1>4, <2>1 DEF DrillAt
<1>5. ASSUME NEW s \in Sup, NEW ok \in BOOLEAN, NEW due \in BOOLEAN, NEW drill \in BOOLEAN,
             BeginTick(s, ok, due, drill)
      PROVE  DrillInv'
  <2>1. /\ cyc'[s].stamp = stamps' /\ cyc'[s].doomed = {} /\ cyc'[s].backup = 0
        /\ pc[s] = "idle"
        /\ \A r \in Sup \ {s} : pc'[r] = pc[r]
    BY <1>0, <1>5 DEF BeginTick, Goto, NoCycle
  <2>2. DrillAt(s)'
    BY <2>1 DEF DrillAt
  <2> QED BY <1>0, <1>4, <2>1, <2>2 DEF DrillInv
<1>6. ASSUME NEW s \in Sup, CreateBackup(s) PROVE DrillInv'
  <2>1. /\ cyc'[s].stamp = cyc[s].stamp /\ cyc'[s].doomed = cyc[s].doomed
        /\ cyc'[s].backup = cyc[s].backup 
        /\ pc[s] \in InTick /\ \A r \in Sup \ {s} : pc'[r] = pc[r]
        /\ UNCHANGED <<stamps, manifests>>
    BY <1>0, <1>6 DEF CreateBackup, Goto, Cycle, InTick, Backing
  <2>2. DrillAt(s)'
    BY <1>0, <2>1 DEF DrillAt
  <2> QED BY <1>0, <1>4, <2>1, <2>2 DEF DrillInv
<1>7. ASSUME NEW s \in Sup, WriteManifest(s) PROVE DrillInv'
  <2>1. /\ cyc'[s].stamp = cyc[s].stamp /\ cyc'[s].doomed = cyc[s].doomed
        /\ cyc'[s].backup = cyc[s].stamp 
        /\ pc[s] \in InTick /\ \A r \in Sup \ {s} : pc'[r] = pc[r]
        /\ manifests' = manifests \cup {cyc[s].stamp}
        /\ UNCHANGED stamps
    BY <1>0, <1>7 DEF WriteManifest, Goto, Cycle, InTick, Backing
  <2>2. DrillAt(s)'
    BY <1>0, <2>1 DEF DrillAt
  <2> QED BY <1>0, <1>4, <2>1, <2>2 DEF DrillInv
<1>8. ASSUME NEW s \in Sup, ListBackups(s) PROVE DrillInv'
  <2>1. /\ cyc'[s].stamp = cyc[s].stamp /\ cyc'[s].doomed = Beyond(manifests)
        /\ cyc'[s].backup = cyc[s].backup 
        /\ pc[s] \in InTick /\ \A r \in Sup \ {s} : pc'[r] = pc[r]
        /\ UNCHANGED <<stamps, manifests>>
    BY <1>0, <1>8 DEF ListBackups, Goto, Cycle, InTick, Backing, backupVars
  <2>2. stamps \notin Beyond(manifests)
    <3>1. ~ \E c \in manifests : c > stamps
      BY <1>0
    <3> QED BY <3>1, BeyondHasNewer
  <2>3. DrillAt(s)'
    BY <1>0, <2>1, <2>2 DEF DrillAt
  <2> QED BY <1>0, <1>4, <2>1, <2>3 DEF DrillInv
<1>9. ASSUME NEW s \in Sup, PruneManifest(s) \/ PruneDatabase(s) PROVE DrillInv'
  <2>1. /\ cyc'[s].stamp = cyc[s].stamp /\ cyc'[s].doomed \subseteq cyc[s].doomed
        /\ cyc'[s].backup = cyc[s].backup 
        /\ pc[s] \in InTick /\ \A r \in Sup \ {s} : pc'[r] = pc[r]
        /\ UNCHANGED stamps
    BY <1>0, <1>9 DEF PruneManifest, PruneDatabase, Goto, Cycle, InTick, Backing
  <2>2. \A c \in manifests \ manifests' : c \in cyc[s].doomed
    BY <1>9 DEF PruneManifest, PruneDatabase, Newest
  <2>3. DrillAt(s)'
    BY <1>0, <2>1, <2>2 DEF DrillAt
  <2> QED BY <1>0, <1>4, <2>1, <2>3 DEF DrillInv
<1>10. ASSUME NEW s \in Sup, Drill(s) PROVE DrillInv'
  <2>1. /\ cyc'[s].stamp = cyc[s].stamp /\ cyc'[s].doomed = cyc[s].doomed
        /\ cyc'[s].backup = cyc[s].backup
        /\ pc[s] \in InTick /\ \A r \in Sup \ {s} : pc'[r] = pc[r]
        /\ UNCHANGED <<stamps, manifests>>
    BY <1>0, <1>10 DEF Drill, Goto, Cycle, InTick, backupVars
  <2>2. DrillAt(s)'
    BY <1>0, <2>1 DEF DrillAt
  <2> QED BY <1>4, <2>1, <2>2 DEF DrillInv
<1>11. ASSUME NEW s \in Sup, Record(s) PROVE DrillInv'
  <2>1. pc[s] \in InTick /\ pc'[s] = "idle" /\ \A r \in Sup \ {s} : pc'[r] = pc[r]
    BY <1>0, <1>11 DEF Record, Goto, InTick
  <2>2. DrillAt(s)'
    BY <2>1 DEF DrillAt, InTick, Backing
  <2> QED BY <1>4, <2>1, <2>2 DEF DrillInv
<1> QED
  BY <1>1, <1>2, <1>3, <1>5, <1>6, <1>7, <1>8, <1>9, <1>10, <1>11
     DEF SupNext, Proceed, TickStep

LEMMA AloneInductive ==
  /\ SupInit => SupInv /\ Owners
  /\ SupInv /\ Owners /\ [SupNext]_supVars => (SupInv /\ Owners)'
<1>1. SupInit => Owners
  BY DEF SupInit, Owners, InTick, Backing
<1>2. SupInv => SupTypeOK
  BY DEF SupInv
<1> QED BY <1>1, <1>2, SupInitially, SupInductive, OwnersStep

\* As long as no two processes supervise at once, whatever keeps them apart, a restore
\* drill finds its backup whole: neither pruned under it nor left half written.
THEOREM DrillsMeetWholeBackups == SupSpec /\ []SingleInstance => []DrillWhole
<1>1. SupInit => DrillInv
  BY DEF SupInit, DrillInv, DrillAt, InTick, Backing
<1>2. SupInv /\ DrillInv => DrillWhole
  BY DrillsWhole
<1>3. Owners /\ SingleInstance => Alone
  BY DEF Alone
<1> QED BY <1>1, <1>2, <1>3, AloneInductive, DrillStep, PTL DEF SupSpec
-----------------------------------------------------------------------------
(* One tick at a time: files on the disk *)

AtMost(S, n) == IsFiniteSet(S) /\ Cardinality(S) <= n

LEMMA AtMostPart ==
  ASSUME NEW S, NEW T, NEW n \in Nat, NEW m \in Nat, AtMost(S, n), T \subseteq S, n <= m
  PROVE  AtMost(T, m)
<1>1. IsFiniteSet(T) /\ Cardinality(T) <= Cardinality(S)
  BY FS_Subset DEF AtMost
<1>2. Cardinality(S) \in Nat /\ Cardinality(T) \in Nat
  BY <1>1, FS_CardinalityType DEF AtMost
<1> QED BY <1>1, <1>2 DEF AtMost

LEMMA AtMostBoth ==
  ASSUME NEW A, NEW B, NEW S, NEW m \in Nat, NEW n \in Nat, AtMost(A, m), AtMost(B, n),
         S \subseteq A \cup B
  PROVE  AtMost(S, m + n)
<1>1. /\ IsFiniteSet(A \cup B)
      /\ Cardinality(A \cup B) = Cardinality(A) + Cardinality(B) - Cardinality(A \cap B)
  BY FS_Union DEF AtMost
<1>2. IsFiniteSet(A \cap B)
  BY FS_Subset DEF AtMost
<1>3. Cardinality(A) \in Nat /\ Cardinality(B) \in Nat /\ Cardinality(A \cap B) \in Nat
  BY <1>2, FS_CardinalityType DEF AtMost
<1>4. AtMost(A \cup B, m + n)
  BY <1>1, <1>3 DEF AtMost
<1> QED BY <1>4, AtMostPart

LEMMA AtMostOne ==
  ASSUME NEW S, \A a, b \in S : a = b PROVE AtMost(S, 1)
<1>1. CASE S = {}
  BY <1>1, FS_EmptySet DEF AtMost
<1>2. CASE S # {}
  <2>1. PICK a \in S : S = {a}
    BY <1>2
  <2>2. IsFiniteSet({a}) /\ Cardinality({a}) = 1
    BY FS_Singleton
  <2> QED BY <2>1, <2>2 DEF AtMost
<1> QED BY <1>1, <1>2

LEMMA HasOldest ==
  ASSUME NEW S \in SUBSET Nat, S # {} PROVE \E m \in S : \A c \in S : m <= c
<1>1. PICK m \in S : \A c \in S : ~(<<c, m>> \in OpToRel(<, Nat))
  BY WFMin, NatLessThanWellFounded
<1>2. \A c \in S : ~(c < m)
  BY <1>1 DEF OpToRel
<1> QED BY <1>2

\* What is within the retention: at most Retention manifests.
LEMMA WithinRetention ==
  ASSUME NEW n \in Nat, NEW M, M \subseteq 0..n
  PROVE  AtMost(M \ Beyond(M), Retention)
<1> DEFINE K == M \ Beyond(M)
<1>0. Retention \in Nat
  BY SupervisorBounds
<1>1. CASE K = {}
  BY <1>0, <1>1, FS_EmptySet DEF AtMost
<1>2. CASE K # {}
  <2>1. PICK m \in K : \A c \in K : m <= c
    <3>1. K \in SUBSET Nat
      <4>1. M \subseteq Nat
        OBVIOUS
      <4> QED BY <4>1
    <3> HIDE DEF K
    <3> QED BY <1>2, <3>1, HasOldest
  <2> DEFINE N == {c \in M : c > m}
  <2>2. IsFiniteSet(N) /\ Cardinality(N) \in Nat
    <3>1. N \subseteq 0..n
      OBVIOUS
    <3> QED BY <3>1, FiniteReadings
  <2>3. Cardinality(N) < Retention
    BY <1>0, <2>2 DEF Beyond
  <2>4. IsFiniteSet(N \cup {m}) /\ Cardinality(N \cup {m}) <= Cardinality(N) + 1
    <3>1. IsFiniteSet({m}) /\ AtMost({m}, 1)
      BY FS_Singleton DEF AtMost
    <3>2. AtMost(N, Cardinality(N))
      BY <2>2 DEF AtMost
    <3>3. AtMost(N \cup {m}, Cardinality(N) + 1)
      BY <2>2, <3>1, <3>2, AtMostBoth
    <3> QED BY <3>3 DEF AtMost
  <2>5. Cardinality(N \cup {m}) \in Nat
    BY <2>4, FS_CardinalityType
  <2>6. AtMost(N \cup {m}, Retention)
    <3> HIDE DEF N
    <3> QED BY <1>0, <2>2, <2>3, <2>4, <2>5 DEF AtMost
  <2>7. ASSUME NEW c \in K PROVE c \in N \cup {m}
    <3>1. c \in M /\ c \in Nat /\ m \in Nat /\ m <= c
      BY <2>1, <2>7
    <3> QED BY <3>1
  <2>8. K \subseteq N \cup {m}
    BY <2>7
  <2> QED BY <1>0, <2>6, <2>8, AtMostPart
<1> QED BY <1>1, <1>2

\* Databases without a manifest: what an interrupted backup or pruning left.
Leftover == dbs \ manifests

\* The steps of a backup that has a file on disk.
Filing == Backing \ {"create"}

Rested == AtMost(dbs, Retention + faults) /\ AtMost(Leftover, faults)

DiskAt(s) ==
  /\ pc[s] = "create" => cyc[s].stamp \notin dbs \cup damaged
  /\ pc[s] = "manifest" => AtMost(Leftover \ {cyc[s].stamp}, faults)
  /\ pc[s] = "verify" => cyc[s].backup = cyc[s].stamp /\ cyc[s].stamp \in manifests
  /\ pc[s] \in {"manifest", "verify"} /\ cyc[s].stamp \in damaged =>
       AtMost(dbs, Retention + faults)
  /\ pc[s] \in Filing => AtMost(dbs, Retention + 1 + faults)
  /\ pc[s] \in {"verify", "list", "unlink_json"} => AtMost(Leftover, faults)
  /\ pc[s] \in {"unlink_json", "unlink_db"} => AtMost(manifests \ cyc[s].doomed, Retention)
  /\ pc[s] = "unlink_db" => AtMost(Leftover \ Newest(cyc[s].doomed), faults)

\* Between backups the retention holds but for a file per fault; a backup under way
\* adds one, and takes it away again unless it is interrupted or its file is damaged.
DiskInv ==
  /\ dbs \subseteq 0..stamps /\ damaged \subseteq 0..stamps
  /\ (\A s \in Sup : pc[s] \notin Filing) => Rested
  /\ \A s \in Sup : DiskAt(s)

\* A fault allows one file more.
LEMMA MoreFaults ==
  ASSUME SupTypeOK, faults' \in Nat, faults <= faults'
  PROVE  /\ \A S : AtMost(S, faults) => AtMost(S, faults')
         /\ \A S : AtMost(S, Retention + faults) => AtMost(S, Retention + faults')
         /\ \A S : AtMost(S, Retention + 1 + faults) => AtMost(S, Retention + 1 + faults')
<1>1. faults \in Nat /\ Retention \in Nat
  BY SupervisorBounds DEF SupTypeOK
<1>2. \A k, f, g \in Nat : f <= g => \A S : AtMost(S, k + f) => AtMost(S, k + g)
  BY AtMostPart
<1>3. Retention + 1 \in Nat
  BY <1>1
<1>4. \A S : AtMost(S, faults) => AtMost(S, faults')
  BY <1>1, AtMostPart
<1>5. \A S : AtMost(S, Retention + faults) => AtMost(S, Retention + faults')
  BY <1>1, <1>2
<1>6. \A S : AtMost(S, Retention + 1 + faults) => AtMost(S, Retention + 1 + faults')
  BY <1>1, <1>2, <1>3
<1> QED BY <1>4, <1>5, <1>6

\* A step that neither works on a backup nor breaks one off.
LEMMA DiskCalm ==
  ASSUME SupTypeOK, DiskInv, UNCHANGED backupVars, faults' \in Nat, faults <= faults',
         \A r \in Sup : /\ pc'[r] \in Backing => pc'[r] = pc[r] /\ cyc'[r] = cyc[r]
                        /\ pc[r] \in Filing => pc'[r] = pc[r]
  PROVE  DiskInv'
<1>0. UNCHANGED <<stamps, dbs, manifests, damaged>>
  BY DEF backupVars
<1>1. Rested => Rested'
  BY <1>0, MoreFaults DEF Rested, Leftover
<1>2. ASSUME NEW r \in Sup PROVE DiskAt(r)'
  <2>0. pc'[r] \in Backing => pc'[r] = pc[r] /\ cyc'[r] = cyc[r]
    OBVIOUS
  <2>1. CASE pc'[r] \notin Backing
    BY <2>1 DEF DiskAt, Filing, Backing
  <2>2. CASE pc'[r] \in Backing
    <3>1. DiskAt(r) /\ pc'[r] = pc[r] /\ cyc'[r] = cyc[r] /\ Leftover' = Leftover
      BY <1>0, <2>0, <2>2 DEF DiskInv, Leftover
    <3> QED BY <1>0, <3>1, MoreFaults DEF DiskAt
  <2> QED BY <2>1, <2>2
<1>3. (\A r \in Sup : pc'[r] \notin Filing) => Rested
  BY DEF DiskInv
<1> QED BY <1>0, <1>1, <1>2, <1>3 DEF DiskInv

\* Who works on a backup works alone.
LEMMA OneBackup ==
  ASSUME Alone, NEW s \in Sup, pc[s] \in InTick \cup {"idle"},
         \A r \in Sup \ {s} : pc'[r] = pc[r]
  PROVE  \A r \in Sup \ {s} : /\ pc[r] \notin Backing /\ pc[r] \notin Filing
                              /\ pc'[r] \notin Filing /\ DiskAt(r)'
<1> SUFFICES ASSUME NEW r \in Sup \ {s}
             PROVE  pc[r] \notin Backing /\ pc[r] \notin Filing /\ pc'[r] \notin Filing /\ DiskAt(r)'
  OBVIOUS
<1>1. pc[r] \notin Backing
  BY OneTick DEF InTick
<1> QED BY <1>1 DEF DiskAt, Filing, Backing

\* The pieces of DiskInv', for a step of the process in the tick.
LEMMA DiskAlone ==
  ASSUME Alone, NEW s \in Sup, pc[s] \in InTick \cup {"idle"},
         \A r \in Sup \ {s} : pc'[r] = pc[r],
         dbs' \subseteq 0..stamps', damaged' \subseteq 0..stamps', DiskAt(s)',
         pc'[s] \notin Filing => Rested'
  PROVE  DiskInv'
<1>1. \A r \in Sup : DiskAt(r)'
  BY OneBackup
<1> QED BY <1>1 DEF DiskInv

\* A backup broken off: the file it adds is the fault's.
LEMMA DiskDropped ==
  ASSUME SupInv, Alone, DiskInv, NEW s \in Sup, pc[s] \in Backing, pc'[s] \notin Backing,
         \A r \in Sup \ {s} : pc'[r] = pc[r], UNCHANGED backupVars, faults' = faults + 1
  PROVE  DiskInv'
<1>0. /\ UNCHANGED <<stamps, dbs, manifests, damaged>> /\ SupTypeOK /\ cyc \in [Sup -> Cycle]
      /\ faults \in Nat /\ Retention \in Nat /\ DiskAt(s) /\ pc[s] \in InTick
      /\ cyc[s].doomed \in SUBSET Nat
  BY SupervisorBounds DEF backupVars, SupInv, SupTypeOK, DiskInv, InTick, Cycle
<1>1. DiskAt(s)'
  BY DEF DiskAt, Filing, Backing
<1>2. AtMost(dbs, Retention + (faults + 1)) /\ AtMost(Leftover, faults + 1)
  <2>1. CASE pc[s] = "create"
    <3>1. \A r \in Sup : pc[r] \notin Filing
      BY <1>0, <2>1, OneBackup DEF Filing
    <3>2. Rested
      BY <3>1 DEF DiskInv
    <3> QED BY <1>0, <3>2, AtMostPart DEF Rested
  <2>2. CASE pc[s] \in Filing
    <3>1. Retention + 1 + faults = Retention + (faults + 1)
      BY <1>0
    <3>2. AtMost(dbs, Retention + (faults + 1))
      BY <1>0, <2>2, <3>1 DEF DiskAt
    <3>3. \A S : AtMost(Leftover \ S, faults) /\ AtMost(S, 1) => AtMost(Leftover, faults + 1)
      BY <1>0, AtMostBoth
    <3>4. AtMost({cyc[s].stamp}, 1)
      BY AtMostOne
    <3>5. AtMost(Newest(cyc[s].doomed), 1)
      BY <1>0, NewestOne, AtMostOne
    <3>6. AtMost({}, 1) /\ (Leftover \ {}) = Leftover
      BY AtMostOne
    <3>7. AtMost(Leftover, faults + 1)
      BY <1>0, <2>2, <3>3, <3>4, <3>5, <3>6 DEF DiskAt, Filing, Backing
    <3> QED BY <3>2, <3>7
  <2> QED BY <2>1, <2>2 DEF Filing
<1>3. Rested'
  BY <1>0, <1>2 DEF Rested, Leftover
<1>4. dbs' \subseteq 0..stamps' /\ damaged' \subseteq 0..stamps'
  BY <1>0 DEF DiskInv
<1> QED BY <1>0, <1>1, <1>3, <1>4, DiskAlone

LEMMA DiskStep == SupInv /\ Alone /\ DiskInv /\ [SupNext]_supVars => DiskInv'
<1> SUFFICES ASSUME SupInv, Alone, DiskInv, [SupNext]_supVars PROVE DiskInv'
  OBVIOUS
<1>0. /\ SupTypeOK /\ pc \in [Sup -> Pcs] /\ cyc \in [Sup -> Cycle] /\ faults \in Nat
      /\ stamps \in Nat /\ Retention \in Nat /\ OneUse /\ Paired
      /\ dbs \subseteq 0..stamps /\ damaged \subseteq 0..stamps /\ manifests \subseteq 0..stamps
      /\ \A s \in Sup : DiskAt(s)
  BY SupervisorBounds DEF SupInv, SupTypeOK, OneUse, DiskInv
\* Steps of the lock, boot and stop, and a tick's steps after its backup.
<1>1. ASSUME NEW s \in Sup, UNCHANGED <<backupVars, faults>>,
             pc[s] \notin Backing, pc'[s] \notin Backing,
             \A r \in Sup \ {s} : pc'[r] = pc[r] /\ cyc'[r] = cyc[r]
      PROVE  DiskInv'
  BY <1>0, <1>1, DiskCalm DEF Filing
<1>2. ASSUME NEW s \in Sup,
             \/ Start(s) \/ Open(s) \/ Write(s) \/ Boot(s) \/ Booted(s) \/ Stop(s)
             \/ Interrupt(s) \/ Drill(s) \/ Record(s)
      PROVE  DiskInv'
  <2>1. /\ UNCHANGED <<backupVars, faults>> /\ pc[s] \notin Backing /\ pc'[s] \notin Backing
        /\ \A r \in Sup \ {s} : pc'[r] = pc[r] /\ cyc'[r] = cyc[r]
    BY <1>0, <1>2 DEF Start, Open, Write, Boot, Booted, Stop, Interrupt, Drill, Record, Goto, Backing
  <2> QED BY <1>1, <2>1
<1>3. ASSUME NEW s \in Sup, ReadLock(s) \/ UnlinkStale(s) \/ ReadToken(s) \/ Unlock(s)
      PROVE  DiskInv'
  <2>1. /\ UNCHANGED <<backupVars, faults>> /\ pc[s] \notin Backing /\ pc'[s] \notin Backing
        /\ \A r \in Sup \ {s} : pc'[r] = pc[r] /\ cyc'[r] = cyc[r]
    BY <1>0, <1>3 DEF ReadLock, UnlinkStale, ReadToken, Unlock, Exit, Goto, Backing
  <2> QED BY <1>1, <2>1
<1>4. ASSUME NEW s \in Sup, SupFault(s) PROVE DiskInv'
  <2>1. /\ UNCHANGED backupVars /\ faults' = faults + 1 /\ pc'[s] \notin Backing
        /\ \A r \in Sup \ {s} : pc'[r] = pc[r] /\ cyc'[r] = cyc[r]
    <3> USE DEF Fault, Goto, Exit, Backing
    <3>1. CASE InterruptedMidway(s) \/ Uncaught(s)
      BY <1>0, <3>1 DEF InterruptedMidway, Uncaught
    <3>2. CASE Kill(s)
      BY <1>0, <3>2 DEF Kill
    <3>3. CASE BackupRaises(s) \/ DrillRaises(s)
      BY <1>0, <3>3 DEF BackupRaises, DrillRaises
    <3> QED BY <1>4, <3>1, <3>2, <3>3 DEF SupFault
  <2>2. CASE pc[s] \in Backing
    BY <2>1, <2>2, DiskDropped
  <2>3. CASE pc[s] \notin Backing
    <3>1. faults' \in Nat /\ faults <= faults'
      BY <1>0, <2>1
    <3> QED BY <1>0, <2>1, <2>3, <3>1, DiskCalm DEF Filing
  <2> QED BY <2>2, <2>3
<1>5. CASE Tick \/ UNCHANGED supVars
  <2>1. UNCHANGED <<pc, cyc, backupVars, faults>>
    BY <1>5 DEF Tick, supVars
  <2> QED BY <1>0, <2>1, DiskCalm
<1>6. ASSUME NEW b \in dbs, Damage(b) PROVE DiskInv'
  <2>0. /\ b \notin damaged /\ damaged' = damaged \cup {b} /\ faults' = faults + 1
        /\ UNCHANGED <<pc, cyc, stamps, dbs, manifests>> /\ Leftover' = Leftover
        /\ faults' \in Nat /\ faults <= faults'
    BY <1>0, <1>6 DEF Damage, Fault, Leftover
  <2>1. Rested => Rested'
    BY <1>0, <2>0, MoreFaults DEF Rested
  <2>2. ASSUME NEW r \in Sup PROVE DiskAt(r)'
    <3>0. DiskAt(r)
      BY <1>0
    <3>1. pc[r] = "create" => cyc[r].stamp \notin dbs' \cup damaged'
      BY <2>0, <3>0 DEF DiskAt
    <3>2. pc[r] \in Filing => AtMost(dbs, Retention + faults')
      <4>1. Retention + 1 + faults = Retention + faults'
        BY <1>0, <2>0
      <4> QED BY <3>0, <4>1 DEF DiskAt
    <3> QED BY <1>0, <2>0, <3>0, <3>1, <3>2, MoreFaults DEF DiskAt, Filing, Backing
  <2>3. damaged' \subseteq 0..stamps'
    BY <1>0, <2>0
  <2> QED BY <2>0, <2>1, <2>2, <2>3 DEF DiskInv
\* From here on s is the one process in a tick.
<1>7. ASSUME NEW s \in Sup, pc[s] \in (InTick \cup {"idle"}) \ Filing,
             \A r \in Sup \ {s} : pc'[r] = pc[r]
      PROVE  Rested
  <2>1. \A r \in Sup : pc[r] \notin Filing
    BY <1>7, OneBackup
  <2> QED BY <2>1 DEF DiskInv
<1>8. ASSUME NEW s \in Sup, NEW ok \in BOOLEAN, NEW due \in BOOLEAN, NEW drill \in BOOLEAN,
             BeginTick(s, ok, due, drill)
      PROVE  DiskInv'
  <2>1. /\ cyc'[s].stamp = stamps' /\ pc[s] = "idle" /\ pc'[s] \in {"create", "drill"}
        /\ pc'[s] = "create" => stamps' = stamps + 1
        /\ stamps' \in {stamps, stamps + 1}
        /\ \A r \in Sup \ {s} : pc'[r] = pc[r]
        /\ UNCHANGED <<dbs, manifests, damaged, faults>>
    BY <1>0, <1>8 DEF BeginTick, Goto, NoCycle
  <2>2. Rested'
    BY <1>7, <2>1 DEF Rested, Leftover, Filing, Backing
  <2>3. dbs' \subseteq 0..stamps' /\ damaged' \subseteq 0..stamps'
    BY <1>0, <2>1
  <2>4. pc'[s] = "create" => stamps' \notin dbs' \cup damaged'
    BY <1>0, <2>1
  <2>5. DiskAt(s)'
    BY <2>1, <2>4 DEF DiskAt, Filing, Backing
  <2> QED BY <2>1, <2>2, <2>3, <2>5, DiskAlone
<1>9. ASSUME NEW s \in Sup, CreateBackup(s) PROVE DiskInv'
  <2>1. /\ cyc'[s].stamp = cyc[s].stamp /\ pc[s] = "create" /\ pc'[s] \in {"manifest", "drill"}
        /\ \A r \in Sup \ {s} : pc'[r] = pc[r]
        /\ pc'[s] = "manifest" => dbs' = dbs \cup {cyc[s].stamp}
        /\ pc'[s] = "drill" => dbs' = dbs
        /\ UNCHANGED <<stamps, manifests, damaged, faults>>
    BY <1>0, <1>9 DEF CreateBackup, Goto, Cycle
  <2>2. Rested /\ cyc[s].stamp \notin damaged /\ pc[s] \in InTick
    BY <1>0, <1>7, <2>1 DEF DiskAt, InTick, Backing, Filing
  <2>3. dbs' \subseteq 0..stamps' /\ damaged' \subseteq 0..stamps'
    <3>1. cyc[s].stamp \in 0..stamps
      BY <1>0, <2>1 DEF OneUse, Writing, Cycle
    <3> QED BY <1>0, <2>1, <3>1
  <2>4. CASE pc'[s] = "drill"
    <3>1. Rested' /\ DiskAt(s)'
      BY <2>1, <2>2, <2>4 DEF Rested, Leftover, DiskAt, Filing, Backing
    <3> QED BY <2>1, <2>2, <2>3, <3>1, DiskAlone
  <2>5. CASE pc'[s] = "manifest"
    <3>1. AtMost(dbs', Retention + 1 + faults)
      <4>1. AtMost({cyc[s].stamp}, 1) /\ Retention + faults \in Nat
        BY <1>0, AtMostOne
      <4>2. AtMost(dbs', (Retention + faults) + 1)
        BY <2>1, <2>2, <2>5, <4>1, AtMostBoth DEF Rested
      <4>3. (Retention + faults) + 1 = Retention + 1 + faults
        BY <1>0
      <4> QED BY <4>2, <4>3
    <3>2. AtMost(Leftover' \ {cyc[s].stamp}, faults)
      <4>1. Leftover' \ {cyc[s].stamp} \subseteq Leftover
        BY <2>1, <2>5 DEF Leftover
      <4> QED BY <1>0, <2>2, <4>1, AtMostPart DEF Rested
    <3>3. DiskAt(s)'
      BY <2>1, <2>2, <2>5, <3>1, <3>2 DEF DiskAt, Filing, Backing
    <3>4. pc'[s] \in Filing
      BY <2>5 DEF Filing, Backing
    <3> QED BY <2>1, <2>2, <2>3, <3>3, <3>4, DiskAlone
  <2> QED BY <2>1, <2>4, <2>5
<1>10. ASSUME NEW s \in Sup, WriteManifest(s) PROVE DiskInv'
  <2>1. /\ cyc'[s].stamp = cyc[s].stamp /\ cyc'[s].backup = cyc[s].stamp
        /\ pc[s] = "manifest" /\ pc'[s] = "verify" /\ pc[s] \in InTick /\ pc'[s] \in Filing
        /\ \A r \in Sup \ {s} : pc'[r] = pc[r]
        /\ manifests' = manifests \cup {cyc[s].stamp}
        /\ UNCHANGED <<stamps, dbs, damaged, faults>>
    BY <1>0, <1>10 DEF WriteManifest, Goto, Cycle, InTick, Filing, Backing
  <2>2. Leftover' = Leftover \ {cyc[s].stamp}
    BY <2>1 DEF Leftover
  <2>3. DiskAt(s)'
    BY <1>0, <2>1, <2>2 DEF DiskAt, Filing, Backing
  <2> QED BY <1>0, <2>1, <2>3, DiskAlone
<1>11. ASSUME NEW s \in Sup, VerifyBackup(s) PROVE DiskInv'
  <2>1. /\ cyc'[s].stamp = cyc[s].stamp /\ cyc'[s].doomed = cyc[s].doomed
        /\ pc[s] = "verify" /\ pc'[s] \in {"list", "drill"} /\ pc[s] \in InTick
        /\ pc'[s] = "drill" => cyc[s].backup \notin Verified
        /\ \A r \in Sup \ {s} : pc'[r] = pc[r]
        /\ UNCHANGED <<stamps, dbs, manifests, damaged, faults>> /\ Leftover' = Leftover
    BY <1>0, <1>11 DEF VerifyBackup, Goto, Cycle, InTick, Backing, backupVars, Leftover
  <2>2. /\ DiskAt(s) /\ AtMost(Leftover, faults) /\ AtMost(dbs, Retention + 1 + faults)
        /\ cyc[s].backup = cyc[s].stamp /\ cyc[s].stamp \in manifests
        /\ cyc[s].stamp \in damaged => AtMost(dbs, Retention + faults)
    BY <1>0, <2>1 DEF DiskAt, Filing, Backing
  <2>3. DiskAt(s)'
    BY <2>1, <2>2 DEF DiskAt, Filing, Backing
  <2>4. pc'[s] = "drill" => cyc[s].stamp \in damaged
    BY <1>0, <2>1, <2>2 DEF Verified, Paired
  <2>5. pc'[s] \notin Filing => Rested'
    BY <2>1, <2>2, <2>4 DEF Rested, Filing, Backing
  <2> QED BY <1>0, <2>1, <2>3, <2>5, DiskAlone
\* What is kept and what is left over is all there is.
<1>12. ASSUME NEW D, NEW M, AtMost(M, Retention), AtMost(D \ M, faults)
       PROVE  AtMost(D, Retention + faults)
  BY <1>0, <1>12, AtMostBoth
<1>13. ASSUME NEW s \in Sup, ListBackups(s) PROVE DiskInv'
  <2>1. /\ cyc'[s].doomed = Beyond(manifests) /\ pc[s] = "list" /\ pc[s] \in InTick
        /\ pc'[s] = IF Beyond(manifests) = {} THEN "drill" ELSE "unlink_json"
        /\ \A r \in Sup \ {s} : pc'[r] = pc[r]
        /\ UNCHANGED <<stamps, dbs, manifests, damaged, faults>> /\ Leftover' = Leftover
    BY <1>0, <1>13 DEF ListBackups, Goto, Cycle, InTick, Backing, backupVars, Leftover
  <2>2. AtMost(Leftover, faults) /\ AtMost(dbs, Retention + 1 + faults)
    BY <1>0, <2>1 DEF DiskAt, Filing, Backing
  <2>3. AtMost(manifests \ Beyond(manifests), Retention)
    BY <1>0, WithinRetention
  <2>4. DiskAt(s)'
    BY <2>1, <2>2, <2>3 DEF DiskAt, Filing, Backing
  <2>5. ASSUME Beyond(manifests) = {} PROVE Rested'
    <3>1. AtMost(manifests, Retention)
      <4>1. manifests \ Beyond(manifests) = manifests
        BY <2>5
      <4> QED BY <2>3, <4>1
    <3>2. AtMost(dbs, Retention + faults)
      BY <1>12, <2>2, <3>1 DEF Leftover
    <3> QED BY <2>1, <2>2, <3>2 DEF Rested
  <2>6. pc'[s] \notin Filing => Rested'
    BY <2>1, <2>5 DEF Filing, Backing
  <2> QED BY <1>0, <2>1, <2>4, <2>6, DiskAlone
<1>14. ASSUME NEW s \in Sup, PruneManifest(s) PROVE DiskInv'
  <2>1. /\ cyc' = cyc /\ pc[s] = "unlink_json" /\ pc'[s] = "unlink_db" /\ pc[s] \in InTick
        /\ pc'[s] \in Filing /\ \A r \in Sup \ {s} : pc'[r] = pc[r]
        /\ manifests' = manifests \ Newest(cyc[s].doomed)
        /\ UNCHANGED <<stamps, dbs, damaged, faults>>
    BY <1>0, <1>14 DEF PruneManifest, Goto, InTick, Filing, Backing
  <2>2. /\ AtMost(Leftover, faults) /\ AtMost(dbs, Retention + 1 + faults)
        /\ AtMost(manifests \ cyc[s].doomed, Retention)
    BY <1>0, <2>1 DEF DiskAt, Filing, Backing
  <2>3. AtMost(manifests' \ cyc[s].doomed, Retention)
    <3>1. manifests' \ cyc[s].doomed \subseteq manifests \ cyc[s].doomed
      BY <2>1
    <3> QED BY <1>0, <2>2, <3>1, AtMostPart
  <2>4. AtMost(Leftover' \ Newest(cyc[s].doomed), faults)
    <3>1. Leftover' \ Newest(cyc[s].doomed) \subseteq Leftover
      BY <2>1 DEF Leftover
    <3> QED BY <1>0, <2>2, <3>1, AtMostPart
  <2>5. DiskAt(s)'
    BY <2>1, <2>2, <2>3, <2>4 DEF DiskAt, Newest, Filing, Backing
  <2> QED BY <1>0, <2>1, <2>5, DiskAlone
<1>15. ASSUME NEW s \in Sup, PruneDatabase(s) PROVE DiskInv'
  <2> DEFINE N == Newest(cyc[s].doomed)
             Rest == cyc[s].doomed \ N
  <2>1. /\ cyc'[s].doomed = Rest /\ pc[s] = "unlink_db" /\ pc[s] \in InTick
        /\ pc'[s] = IF Rest = {} THEN "drill" ELSE "unlink_json"
        /\ \A r \in Sup \ {s} : pc'[r] = pc[r]
        /\ dbs' = dbs \ N
        /\ UNCHANGED <<stamps, manifests, damaged, faults>>
    BY <1>0, <1>15 DEF PruneDatabase, Goto, Cycle, InTick, Backing
  <2>2. /\ AtMost(Leftover \ N, faults) /\ AtMost(dbs, Retention + 1 + faults)
        /\ AtMost(manifests \ cyc[s].doomed, Retention)
    BY <1>0, <2>1 DEF DiskAt, Filing, Backing
  <2>3. AtMost(Leftover', faults)
    <3>1. Leftover' = Leftover \ N
      BY <2>1 DEF Leftover
    <3> QED BY <2>2, <3>1
  <2>4. AtMost(manifests \ Rest, Retention)
    <3>1. N \cap manifests = {}
      BY <1>0, <2>1 DEF Paired
    <3>2. manifests \ Rest = manifests \ cyc[s].doomed
      BY <3>1
    <3> QED BY <2>2, <3>2
  <2>5. AtMost(dbs', Retention + 1 + faults)
    <3>1. dbs' \subseteq dbs /\ Retention + 1 + faults \in Nat
      BY <1>0, <2>1
    <3> QED BY <2>2, <3>1, AtMostPart
  <2>6. DiskAt(s)'
    BY <2>1, <2>3, <2>4, <2>5 DEF DiskAt, Filing, Backing
  <2>7. ASSUME Rest = {} PROVE Rested'
    <3>1. AtMost(manifests, Retention)
      <4>1. manifests \ Rest = manifests
        BY <2>7
      <4> QED BY <2>4, <4>1
    <3>2. dbs' \ manifests = Leftover'
      BY <2>1 DEF Leftover
    <3>3. AtMost(dbs', Retention + faults)
      BY <1>12, <2>3, <3>1, <3>2
    <3> QED BY <2>1, <2>3, <3>3 DEF Rested
  <2>8. pc'[s] \notin Filing => Rested'
    BY <2>1, <2>7 DEF Filing, Backing
  <2>9. dbs' \subseteq 0..stamps'
    BY <1>0, <2>1
  <2> QED BY <1>0, <2>1, <2>6, <2>8, <2>9, DiskAlone
<1> QED
  BY <1>2, <1>3, <1>4, <1>5, <1>6, <1>8, <1>9, <1>10, <1>11, <1>13, <1>14, <1>15
     DEF SupNext, Proceed, TickStep

\* "Retencao de backup e limitada": as long as no two processes supervise at once, however
\* long one runs, the databases on disk are the retained ones, the one being made and at most one more for every crash,
\* interrupt, exception or damaged file there has been.
THEOREM DiskIsBounded == SupSpec /\ []SingleInstance => []DiskBounded
<1>1. SupInit => DiskInv
  <2> SUFFICES ASSUME SupInit PROVE DiskInv
    OBVIOUS
  <2>1. /\ dbs = {} /\ Leftover = {} /\ faults = 0 /\ damaged = {} /\ stamps = 0
        /\ \A s \in Sup : pc[s] = "down"
    BY DEF SupInit, Leftover
  <2>2. IsFiniteSet({}) /\ Cardinality({}) = 0
    BY FS_EmptySet
  <2>3. Rested
    BY <2>1, <2>2, SupervisorBounds DEF Rested, AtMost
  <2> QED BY <2>1, <2>3 DEF DiskInv, DiskAt, Filing, Backing
<1>2. SupInv /\ DiskInv => DiskBounded
  <2> SUFFICES ASSUME SupInv, DiskInv PROVE DiskBounded
    OBVIOUS
  <2>0. faults \in Nat /\ Retention \in Nat
    BY SupervisorBounds DEF SupInv, SupTypeOK
  <2>1. CASE \A s \in Sup : pc[s] \notin Filing
    <3>1. IsFiniteSet(dbs) /\ Cardinality(dbs) <= Retention + faults
      BY <2>1 DEF DiskInv, Rested, AtMost
    <3>2. Cardinality(dbs) \in Nat
      BY <3>1, FS_CardinalityType
    <3> QED BY <2>0, <3>1, <3>2 DEF DiskBounded
  <2>2. CASE \E s \in Sup : pc[s] \in Filing
    BY <2>2 DEF DiskInv, DiskAt, AtMost, DiskBounded
  <2> QED BY <2>1, <2>2
<1>3. Owners /\ SingleInstance => Alone
  BY DEF Alone
<1> QED BY <1>1, <1>2, <1>3, AloneInductive, DiskStep, PTL DEF SupSpec
=============================================================================
