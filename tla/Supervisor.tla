----------------------------- MODULE Supervisor -----------------------------
(***************************************************************************)
(* The continuous runtime: scripts/immune_runtime.py runs one              *)
(* ContinuousSupervisor (immune_core/continuous.py) behind a SupervisorLock*)
(* file, and each of its ticks may back the state up, prune old backups and*)
(* drill a restore (immune_core/state_backup.py).                          *)
(*                                                                         *)
(* A step is one system call on a file or one write to the runtime_state   *)
(* row.  A process can be killed or interrupted between any two of them.   *)
(* Backups are named by their created_at, the clock reading their tick     *)
(* began with; readings are numbered 1, 2, ... in the order they are taken.*)
(***************************************************************************)
EXTENDS Integers, FiniteSets

CONSTANTS
  Sup,         \* runtime processes the host may start
  Stale,       \* stale_after_seconds of the lock, in ticks
  Retention,   \* backup_retention
  MaxBackups,  \* bound: ticks that find a backup due
  MaxFaults,   \* bound: crashes, interrupts, exceptions and damaged files
  Timely,      \* TRUE: starts do not overlap, and none is tried beside a process
               \*       that has held the lock for so long that it is stale
  NULL

ASSUME SupAssumption == NULL \notin Sup

ASSUME SupervisorBounds ==
  /\ Stale \in Nat \ {0}
  /\ Retention \in Nat /\ Retention >= 2
  /\ MaxBackups \in Nat
  /\ MaxFaults \in Nat
  /\ Timely \in BOOLEAN

VARIABLES
  lock,      \* the lock file: whose it is, whether its payload is written, its age
  pc,        \* pc[s]: the step process s is about to take
  tries,     \* tries[s]: openings of the lock file s has begun
  owned,     \* owned[s]: SupervisorLock._owned
  cyc,       \* cyc[s]: the local variables of the tick s is in
  rt,        \* the row of runtime_state
  stamps,    \* clock readings of ticks with a backup so far
  dbs,       \* backups whose .sqlite3 file is on disk
  manifests, \* backups whose .json file is on disk, whole
  damaged,   \* backups with an altered .sqlite3 file
  faults     \* faults so far

lockVars == <<lock, tries, owned>>
backupVars == <<stamps, dbs, manifests, damaged>>
supVars == <<lockVars, pc, cyc, rt, backupVars, faults>>

NoLock == [there |-> FALSE, token |-> NULL, written |-> FALSE, age |-> 0]
\* backup: the reading of the backup this tick made, 0 without one; eff: the one
\* recorded when it began; due, drill: whether to drill, and the result; doomed: what is
\* left to prune
NoCycle == [stamp |-> 0, backup |-> 0, eff |-> 0, due |-> FALSE, drill |-> "none",
            failed |-> FALSE, doomed |-> {}]

Acquiring == {"open", "write", "read", "unlink"}
Backing == {"create", "manifest", "verify", "list", "unlink_json", "unlink_db"}
InTick == Backing \cup {"drill", "record"}
Pcs == {"down", "boot", "resume", "idle", "stop", "release", "unlock"}
         \cup Acquiring \cup InTick

Drills == {"none", "ok", "failed"}

Goto(s, l) == pc' = [pc EXCEPT ![s] = l]

\* The process is over; a token in the lock file that was its own is nobody's now.
Exit(s) ==
  /\ Goto(s, "down")
  /\ owned' = [owned EXCEPT ![s] = FALSE]
  /\ tries' = [tries EXCEPT ![s] = 0]
  /\ cyc' = [cyc EXCEPT ![s] = NoCycle]

Orphan(s, l) == IF l.token = s THEN [l EXCEPT !.token = NULL] ELSE l

SupInit ==
  /\ lock = NoLock
  /\ pc = [s \in Sup |-> "down"]
  /\ tries = [s \in Sup |-> 0]
  /\ owned = [s \in Sup |-> FALSE]
  /\ cyc = [s \in Sup |-> NoCycle]
  /\ rt = [state |-> "STOPPED", last |-> 0, drill |-> "none"]
  /\ stamps = 0
  /\ dbs = {}
  /\ manifests = {}
  /\ damaged = {}
  /\ faults = 0
-----------------------------------------------------------------------------
(* SupervisorLock *)

\* main, once the boot gate let it pass
Start(s) ==
  /\ pc[s] = "down"
  /\ Timely => /\ \A r \in Sup : pc[r] \notin Acquiring
               /\ lock.token # NULL => lock.age <= Stale
  /\ Goto(s, "open")
  /\ tries' = [tries EXCEPT ![s] = 1]
  /\ UNCHANGED <<lock, owned, cyc, rt, backupVars, faults>>

\* os.open with O_EXCL: the file is created empty, or FileExistsError
Open(s) ==
  /\ pc[s] = "open"
  /\ \/ /\ ~lock.there
        /\ lock' = [there |-> TRUE, token |-> s, written |-> FALSE, age |-> 0]
        /\ Goto(s, "write")
     \/ /\ lock.there
        /\ Goto(s, "read")
        /\ UNCHANGED lock
  /\ UNCHANGED <<tries, owned, cyc, rt, backupVars, faults>>

\* os.write goes to the file this process opened, also if it was unlinked since.
Write(s) ==
  /\ pc[s] = "write"
  /\ lock' = IF lock.token = s THEN [lock EXCEPT !.written = TRUE] ELSE lock
  /\ owned' = [owned EXCEPT ![s] = TRUE]
  /\ Goto(s, "boot")
  /\ UNCHANGED <<tries, cyc, rt, backupVars, faults>>

\* Mutant of Fresh: a lock exactly stale_after_seconds old is stale.
FreshBefore == lock.there /\ lock.written /\ lock.age < Stale

\* A payload that is missing or not yet written reads as created_at = 0.
Fresh == lock.there /\ lock.written /\ lock.age <= Stale

\* A fresh lock raises "supervisor already active", and the process ends.
ReadLock(s) ==
  /\ pc[s] = "read"
  /\ \/ Fresh /\ Exit(s)
     \/ ~Fresh /\ Goto(s, "unlink") /\ UNCHANGED <<tries, owned, cyc>>
  /\ UNCHANGED <<lock, rt, backupVars, faults>>

\* Mutant of UnlinkStale: the stale file is left where it is.
UnlinkStaleNever(s) ==
  /\ pc[s] = "unlink"
  /\ \/ /\ tries[s] = 1
        /\ tries' = [tries EXCEPT ![s] = 2]
        /\ Goto(s, "open")
        /\ UNCHANGED <<owned, cyc>>
     \/ tries[s] = 2 /\ Exit(s)
  /\ UNCHANGED <<lock, rt, backupVars, faults>>

\* The file is removed, whichever it is by now; there is one more try.
UnlinkStale(s) ==
  /\ pc[s] = "unlink"
  /\ lock' = NoLock
  /\ \/ /\ tries[s] = 1
        /\ tries' = [tries EXCEPT ![s] = 2]
        /\ Goto(s, "open")
        /\ UNCHANGED <<owned, cyc>>
     \/ tries[s] = 2 /\ Exit(s)
  /\ UNCHANGED <<rt, backupVars, faults>>

\* release reads the token ...
ReadToken(s) ==
  /\ pc[s] = "release"
  /\ \/ /\ owned[s] /\ lock.token = s /\ lock.written
        /\ Goto(s, "unlock")
        /\ UNCHANGED <<lock, tries, owned, cyc>>
     \/ /\ ~(owned[s] /\ lock.token = s /\ lock.written)
        /\ Exit(s)
        /\ lock' = Orphan(s, lock)
  /\ UNCHANGED <<rt, backupVars, faults>>

\* ... and unlinks the file, whichever it is by now.
Unlock(s) ==
  /\ pc[s] = "unlock"
  /\ lock' = NoLock
  /\ Exit(s)
  /\ UNCHANGED <<rt, backupVars, faults>>
-----------------------------------------------------------------------------
(* boot, stop and the tick *)

SetState(st) == rt' = [rt EXCEPT !.state = st]

\* boot marks the row, recovers expired leases (DurableTasks!Resume) ...
Boot(s) ==
  /\ pc[s] = "boot"
  /\ SetState("STARTING")
  /\ Goto(s, "resume")
  /\ UNCHANGED <<lockVars, cyc, backupVars, faults>>

\* ... and goes into the loop.
Booted(s) ==
  /\ pc[s] = "resume"
  /\ SetState("RUNNING")
  /\ Goto(s, "idle")
  /\ UNCHANGED <<lockVars, cyc, backupVars, faults>>

\* tick up to its reading of the row: probes are run, and whether a backup and a
\* drill are due is decided.  Both are due the first time.
BeginTick(s, ok, due, drill) ==
  /\ pc[s] = "idle"
  /\ rt.last = 0 => due
  /\ rt.drill = "none" => drill
  /\ due => stamps < MaxBackups
  /\ stamps' = IF due THEN stamps + 1 ELSE stamps
  /\ cyc' = [cyc EXCEPT ![s] =
       [NoCycle EXCEPT !.stamp = stamps', !.eff = rt.last, !.due = drill, !.failed = ~ok]]
  /\ Goto(s, IF due THEN "create" ELSE "drill")
  /\ UNCHANGED <<lockVars, rt, dbs, manifests, damaged, faults>>

\* Mutant of CreateBackup: the tick takes note of the backup before its manifest is there.
CreateBackupNoted(s) ==
  /\ pc[s] = "create"
  /\ dbs' = dbs \cup {cyc[s].stamp}
  /\ cyc' = [cyc EXCEPT ![s].backup = cyc[s].stamp]
  /\ Goto(s, "manifest")
  /\ UNCHANGED <<lockVars, rt, stamps, manifests, damaged, faults>>

\* StateBackupManager.create copies the database; a copy that fails its integrity
\* check is removed again and the tick goes on without a backup.
CreateBackup(s) ==
  /\ pc[s] = "create"
  /\ \/ /\ dbs' = dbs \cup {cyc[s].stamp}
        /\ Goto(s, "manifest")
        /\ UNCHANGED cyc
     \/ /\ Goto(s, "drill")
        /\ cyc' = [cyc EXCEPT ![s].failed = TRUE]
        /\ UNCHANGED dbs
  /\ UNCHANGED <<lockVars, rt, stamps, manifests, damaged, faults>>

WriteManifest(s) ==
  /\ pc[s] = "manifest"
  /\ manifests' = manifests \cup {cyc[s].stamp}
  /\ cyc' = [cyc EXCEPT ![s].backup = cyc[s].stamp]
  /\ Goto(s, "verify")
  /\ UNCHANGED <<lockVars, rt, stamps, dbs, damaged, faults>>

\* StateBackupManager.verify
Verified == {b \in manifests \cap dbs : b \notin damaged}

\* A backup that does not verify keeps its place in the tick's record; nothing is
\* pruned then.
VerifyBackup(s) ==
  /\ pc[s] = "verify"
  /\ \/ cyc[s].backup \in Verified /\ Goto(s, "list") /\ UNCHANGED cyc
     \/ /\ cyc[s].backup \notin Verified
        /\ Goto(s, "drill")
        /\ cyc' = [cyc EXCEPT ![s].failed = TRUE]
  /\ UNCHANGED <<lockVars, rt, backupVars, faults>>

\* Mutant of Beyond: one backup fewer is kept.
BeyondOneFewer(M) == {b \in M : Cardinality({c \in M : c > b}) >= Retention - 1}

\* Mutant of Beyond: the list is sorted the other way.
BeyondNewest(M) == {b \in M : Cardinality({c \in M : c < b}) >= Retention}

\* manifests[self.backup_retention:] of the list sorted by created_at, newest first
Beyond(M) == {b \in M : Cardinality({c \in M : c > b}) >= Retention}

\* _prune_backups reads the manifests ...
ListBackups(s) ==
  /\ pc[s] = "list"
  /\ cyc' = [cyc EXCEPT ![s].doomed = Beyond(manifests)]
  /\ Goto(s, IF Beyond(manifests) = {} THEN "drill" ELSE "unlink_json")
  /\ UNCHANGED <<lockVars, rt, backupVars, faults>>

\* the one the loop comes to next
Newest(S) == {b \in S : \A c \in S : c <= b}

\* ... and removes each backup beyond the retention, its manifest first.
PruneManifest(s) ==
  /\ pc[s] = "unlink_json"
  /\ manifests' = manifests \ Newest(cyc[s].doomed)
  /\ Goto(s, "unlink_db")
  /\ UNCHANGED <<lockVars, cyc, rt, stamps, dbs, damaged, faults>>

\* Mutant of PruneDatabase: only the manifest is removed.
PruneDatabaseNever(s) ==
  LET rest == cyc[s].doomed \ Newest(cyc[s].doomed) IN
  /\ pc[s] = "unlink_db"
  /\ cyc' = [cyc EXCEPT ![s].doomed = rest]
  /\ Goto(s, IF rest = {} THEN "drill" ELSE "unlink_json")
  /\ UNCHANGED <<lockVars, rt, backupVars, faults>>

PruneDatabase(s) ==
  LET rest == cyc[s].doomed \ Newest(cyc[s].doomed) IN
  /\ pc[s] = "unlink_db"
  /\ dbs' = dbs \ Newest(cyc[s].doomed)
  /\ cyc' = [cyc EXCEPT ![s].doomed = rest]
  /\ Goto(s, IF rest = {} THEN "drill" ELSE "unlink_json")
  /\ UNCHANGED <<lockVars, rt, stamps, manifests, damaged, faults>>

\* The backup to drill: this tick's, or the recorded one if its manifest is there.
Effective(s) ==
  CASE cyc[s].backup # 0 -> cyc[s].backup
    [] cyc[s].backup = 0 /\ cyc[s].eff \in manifests -> cyc[s].eff
    [] OTHER -> 0

Drilled(s) == cyc[s].due /\ Effective(s) # 0

DrillResult(s) ==
  CASE ~Drilled(s) -> "none"
    [] Drilled(s) /\ Effective(s) \in Verified -> "ok"
    [] OTHER -> "failed"

\* _restore_drill into a temporary directory; DrillRaises is its other outcome.
Drill(s) ==
  /\ pc[s] = "drill"
  /\ cyc' = [cyc EXCEPT ![s].drill = DrillResult(s),
                        ![s].failed = @ \/ DrillResult(s) = "failed"]
  /\ Goto(s, "record")
  /\ UNCHANGED <<lockVars, rt, backupVars, faults>>

\* Mutant of Record: a state that is not in STATES.
RecordFailing(s) ==
  /\ pc[s] = "record"
  /\ rt' = [rt EXCEPT !.state = IF cyc[s].failed THEN "FAILED" ELSE "RUNNING"]
  /\ cyc' = [cyc EXCEPT ![s] = NoCycle]
  /\ Goto(s, "idle")
  /\ UNCHANGED <<lockVars, backupVars, faults>>

\* _update_state: the backup is recorded whether or not it verified.
Record(s) ==
  /\ pc[s] = "record"
  /\ rt' = [state |-> IF cyc[s].failed THEN "DEGRADED" ELSE "RUNNING",
            last  |-> IF cyc[s].backup = 0 THEN rt.last ELSE cyc[s].backup,
            drill |-> IF cyc[s].drill = "none" THEN rt.drill ELSE cyc[s].drill]
  /\ cyc' = [cyc EXCEPT ![s] = NoCycle]
  /\ Goto(s, "idle")
  /\ UNCHANGED <<lockVars, backupVars, faults>>

\* stop, also in a process that never got the lock
Stop(s) ==
  /\ pc[s] = "stop"
  /\ SetState("STOPPED")
  /\ Goto(s, "release")
  /\ UNCHANGED <<lockVars, cyc, backupVars, faults>>
-----------------------------------------------------------------------------
(* Stops, faults and time *)

\* KeyboardInterrupt during the sleep between two ticks: the intended way to stop.
Interrupt(s) ==
  /\ pc[s] = "idle"
  /\ Goto(s, "stop")
  /\ UNCHANGED <<lockVars, cyc, rt, backupVars, faults>>

Fault == faults < MaxFaults /\ faults' = faults + 1

\* KeyboardInterrupt anywhere else in main's try block
InterruptedMidway(s) ==
  /\ Fault
  /\ pc[s] \in Acquiring \cup InTick \cup {"boot", "resume"}
  /\ Goto(s, "stop")
  /\ cyc' = [cyc EXCEPT ![s] = NoCycle]
  /\ UNCHANGED <<lockVars, rt, backupVars>>

\* An exception that boot or tick does not catch: released, but not stopped.
Uncaught(s) ==
  /\ Fault
  /\ pc[s] \in {"boot", "resume", "idle", "drill", "record"}
  /\ Goto(s, "release")
  /\ cyc' = [cyc EXCEPT ![s] = NoCycle]
  /\ UNCHANGED <<lockVars, rt, backupVars>>

\* An exception inside the backup, which tick catches.  create's last step is an
\* audit append: if that one raises, the tick does not know of the backup it made.
BackupRaises(s) ==
  /\ Fault
  /\ pc[s] \in Backing
  /\ \E b \in {cyc[s].backup, 0} :
       /\ b # cyc[s].backup => pc[s] = "verify"
       /\ cyc' = [cyc EXCEPT ![s] = [@ EXCEPT !.failed = TRUE, !.doomed = {}, !.backup = b]]
  /\ Goto(s, "drill")
  /\ UNCHANGED <<lockVars, rt, backupVars>>

\* Any exception of restore_to is a failed drill, also with nothing wrong with the file:
\* a disk that is full, a copy that breaks off, an audit append that fails.
DrillRaises(s) ==
  /\ Fault
  /\ pc[s] = "drill" /\ Drilled(s)
  /\ cyc' = [cyc EXCEPT ![s] = [@ EXCEPT !.drill = "failed", !.failed = TRUE]]
  /\ Goto(s, "record")
  /\ UNCHANGED <<lockVars, rt, backupVars>>

\* The process is killed: no finally block runs.
Kill(s) ==
  /\ Fault
  /\ pc[s] # "down"
  /\ Exit(s)
  /\ lock' = Orphan(s, lock)
  /\ UNCHANGED <<rt, backupVars>>

\* A backup file changes on disk.
Damage(b) ==
  /\ Fault
  /\ b \in dbs \ damaged
  /\ damaged' = damaged \cup {b}
  /\ UNCHANGED <<lockVars, pc, cyc, rt, stamps, dbs, manifests>>

\* acquire reads the clock once and is over within a tick.
Tick ==
  /\ \A s \in Sup : pc[s] \notin Acquiring
  /\ lock.there /\ lock.age <= Stale
  /\ lock' = [lock EXCEPT !.age = @ + 1]
  /\ UNCHANGED <<tries, owned, pc, cyc, rt, backupVars, faults>>
-----------------------------------------------------------------------------
TickStep(s) ==
  \/ CreateBackup(s) \/ WriteManifest(s) \/ VerifyBackup(s) \/ ListBackups(s)
  \/ PruneManifest(s) \/ PruneDatabase(s) \/ Drill(s) \/ Record(s)

Proceed(s) ==
  \/ Open(s) \/ Write(s) \/ ReadLock(s) \/ UnlinkStale(s)
  \/ ReadToken(s) \/ Unlock(s)
  \/ Boot(s) \/ Booted(s) \/ TickStep(s) \/ Stop(s)

SupFault(s) ==
  InterruptedMidway(s) \/ Uncaught(s) \/ BackupRaises(s) \/ DrillRaises(s) \/ Kill(s)

SupNext ==
  \/ \E s \in Sup : Start(s) \/ Proceed(s) \/ Interrupt(s) \/ SupFault(s)
  \/ \E s \in Sup, ok, due, drill \in BOOLEAN : BeginTick(s, ok, due, drill)
  \/ \E b \in dbs : Damage(b)
  \/ Tick

SupSpec == SupInit /\ [][SupNext]_supVars

\* A process that runs goes on, the service manager starts one when none runs
\* (Restart=always), and time passes (SF: not while the lock is being taken).
SupFairness ==
  /\ \A s \in Sup : WF_supVars(Proceed(s))
  /\ WF_supVars(\E s \in Sup : Start(s))
  /\ SF_supVars(Tick)

SupFairSpec == SupSpec /\ SupFairness
-----------------------------------------------------------------------------
(* Properties *)

Cycle == [stamp : Nat, backup : Nat, eff : Nat, due : BOOLEAN, drill : Drills,
          failed : BOOLEAN, doomed : SUBSET Nat]
LockFile == [there : BOOLEAN, token : Sup \cup {NULL}, written : BOOLEAN, age : Nat]

\* Type invariant of the runtime.
SupTypeOK ==
  /\ lock \in LockFile
  /\ pc \in [Sup -> Pcs]
  /\ tries \in [Sup -> 0..2]
  /\ owned \in [Sup -> BOOLEAN]
  /\ cyc \in [Sup -> Cycle]
  /\ rt \in [state : {"STARTING", "RUNNING", "DEGRADED", "STOPPED"}, last : Nat, drill : Drills]
  /\ stamps \in Nat
  /\ dbs \subseteq Nat
  /\ manifests \subseteq Nat
  /\ damaged \subseteq Nat
  /\ faults \in Nat

\* "Cross-platform single-instance lock": no two processes supervise at once.
SingleInstance == \A s, r \in Sup : owned[s] /\ owned[r] => s = r

\* Whatever is interrupted, and even if two supervisors run, a backup as new as the
\* recorded one, or newer, is on disk with its manifest.
RecoveryPoint == rt.last # 0 => \E b \in manifests \cap dbs : b >= rt.last

\* "nunca apaga os backups mais recentes abaixo do piso configurado": a manifest is
\* only ever removed while Retention newer ones are on disk.
RetentionFloor ==
  [][\A b \in manifests \ manifests' :
       Cardinality({c \in manifests : c > b}) >= Retention]_supVars

\* "Retencao de backup e limitada": each fault costs the disk at most one file more.
DiskBounded == Cardinality(dbs) <= Retention + 1 + faults

\* A restore drill finds its backup whole, manifest and database: it may fail for a
\* damaged file or an error of its own, never for a backup that was pruned before or
\* during the tick, or cut short while it was made or removed.
DrillWhole ==
  \A s \in Sup : pc[s] = "drill" /\ Drilled(s) => Effective(s) \in manifests \cap dbs

\* A lock left behind by a process that died does not keep the system down.
LockRecovered == (\A s \in Sup : ~owned[s]) ~> (\E s \in Sup : owned[s])
=============================================================================
