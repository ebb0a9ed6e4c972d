------------------------------ MODULE Execution ------------------------------
(***************************************************************************)
(* What a worker does between claim and report: WorkerRunner.run_once and  *)
(* SafeExecutor / PrivilegedExecutor (immune_execution_broker/) over the   *)
(* task queue of DurableTasks, with the workspaces and checkpoints of      *)
(* immune_core/checkpoints.py and the mission state they are gated by.     *)
(*                                                                         *)
(* Every action of DurableTasks is an action here, and run_once adds its   *)
(* steps while pc[p] = "leased".  A workspace's content is the set of those*)
(* who wrote it: 0 for what was there first, n for attempt n of its task.  *)
(*                                                                         *)
(* Refusals that depend on the payload, the manifest or a token (a kind    *)
(* outside the manifest, a bad argv, an expired identity) are choices.     *)
(***************************************************************************)
EXTENDS DurableTasks

CONSTANT ModeOf   \* ModeOf[k]: what the payload submitted under key k asks for

Modes == {"readonly", "material", "privileged"}

ASSUME ModeAssumption == ModeOf \in [Key -> Modes]

ACTIVE_EXECUTION_STATES == {"AUTHORIZED", "DISCOVERING", "RUNNING", "DEGRADED", "VALIDATING"}

MISSION_TRANSITIONS ==
  [CREATED       |-> {"AUTHORIZED", "CANCELLED"},
   AUTHORIZED    |-> {"DISCOVERING", "RUNNING", "CANCELLED", "FAILED_SAFE"},
   DISCOVERING   |-> {"RUNNING", "DEGRADED", "BLOCKED", "FAILED_SAFE", "CANCELLED"},
   RUNNING       |-> {"DEGRADED", "BLOCKED", "WAITING_HUMAN", "CONTAINED", "VALIDATING",
                      "FAILED_SAFE", "CANCELLED"},
   DEGRADED      |-> {"RUNNING", "BLOCKED", "WAITING_HUMAN", "CONTAINED", "VALIDATING",
                      "FAILED_SAFE", "CANCELLED"},
   BLOCKED       |-> {"RUNNING", "WAITING_HUMAN", "CONTAINED", "FAILED_SAFE", "CANCELLED"},
   WAITING_HUMAN |-> {"RUNNING", "CONTAINED", "FAILED_SAFE", "CANCELLED"},
   CONTAINED     |-> {"RUNNING", "WAITING_HUMAN", "VALIDATING", "FAILED_SAFE", "CANCELLED"},
   VALIDATING    |-> {"RUNNING", "DEGRADED", "COMPLETED", "FAILED_SAFE"},
   COMPLETED     |-> {},
   FAILED_SAFE   |-> {"RUNNING", "CANCELLED"},
   CANCELLED     |-> {}]

VARIABLES
  mission, \* mission[m]: the state of mission m
  step,    \* step[p]: where p is in run_once, "none" outside of it
  ws,      \* ws[t]: who wrote what the workspace of t holds
  cp,      \* cp[p]: content of the checkpoint p made, {} without one
  saved,   \* saved[t]: contents of the checkpoints of t on disk
  seen     \* history: seen[p]: steps of Checks during which p's mission was active

execVars == <<mission, step, ws, cp, saved, seen>>
allVars == <<vars, execVars>>

\* Steps at which the outcome is known and only the report is left.
Decided == {"complete", "fail", "undone", "block"}
\* Steps at which the process, or the rollback, may write to the workspace.
Executing == {"running", "wrote", "failed", "cleared"}
Steps == {"none", "begin", "saved", "bound", "ready", "permitted"} \cup Executing \cup Decided
\* Steps at which run_once may be about to read the mission.
Checks == {"begin", "saved", "ready"}

Mode(p) == ModeOf[tasks[lease[p].task].key]
MissionOf(p) == mission[tasks[lease[p].task].mission]
MayExecute(p) == MissionOf(p) \in ACTIVE_EXECUTION_STATES

Goto(p, s) ==
  /\ step' = [step EXCEPT ![p] = s]
  /\ seen' = [seen EXCEPT ![p] = IF MayExecute(p) THEN @ \cup ({s} \cap Checks) ELSE @]

\* run_once is over, or the process p with it.
Leave(p) ==
  /\ step' = [step EXCEPT ![p] = "none"]
  /\ cp' = [cp EXCEPT ![p] = {}]
  /\ seen' = [seen EXCEPT ![p] = {}]
  /\ UNCHANGED <<mission, ws, saved>>

ExecInit ==
  /\ Init
  /\ mission \in [Mission -> {"CREATED", "RUNNING"}]
  /\ step = [p \in Proc |-> "none"]
  /\ ws = [t \in Task |-> {0}]
  /\ cp = [p \in Proc |-> {}]
  /\ saved = [t \in Task |-> {}]
  /\ seen = [p \in Proc |-> {}]
-----------------------------------------------------------------------------
(* The mission *)

\* transition_mission, with one controller of the mission.
TransitionMission(m, s) ==
  /\ s \in MISSION_TRANSITIONS[mission[m]]
  /\ mission' = [mission EXCEPT ![m] = s]
  /\ seen' = [p \in Proc |->
       IF /\ step[p] \in Checks /\ tasks[lease[p].task].mission = m
          /\ s \in ACTIVE_EXECUTION_STATES
       THEN seen[p] \cup {step[p]} ELSE seen[p]]
  /\ UNCHANGED <<vars, step, ws, cp, saved>>
-----------------------------------------------------------------------------
(* run_once, up to the start of the process *)

At(p, s) == pc[p] = "leased" /\ step[p] = s

\* The audit event of the claim is appended and run_once goes on with the lease.
BeginRun(p) ==
  /\ AuditAppend(p)
  /\ pending[p].action = "task_claimed"
  /\ Goto(p, "begin")
  /\ UNCHANGED <<mission, ws, cp, saved>>

\* AuthorizationError and PrivilegeError block the task, ExecutionError fails it;
\* before the process starts any check may refuse for reasons of its own.
Refuse(p, s) ==
  /\ pc[p] = "leased"
  /\ step[p] \in {"begin", "saved", "bound", "ready", "permitted"}
  /\ Goto(p, s)
  /\ UNCHANGED <<vars, mission, ws, cp, saved>>

\* CheckpointManager.create: a copy of the workspace as it is now.
SaveCheckpoint(p) ==
  LET t == lease[p].task IN
  /\ cp' = [cp EXCEPT ![p] = ws[t]]
  /\ saved' = [saved EXCEPT ![t] = @ \cup {ws[t]}]
  /\ UNCHANGED <<vars, mission, ws>>

\* A privileged task is checkpointed, and its grant issued, before anything else.
SavePrivileged(p) ==
  /\ At(p, "begin") /\ Mode(p) = "privileged"
  /\ SaveCheckpoint(p)
  /\ Goto(p, "saved")

\* Where _binding reads the mission
Binding(p) == IF Mode(p) = "privileged" THEN "saved" ELSE "begin"

\* Mutant of Bind: a status run_once has no branch for.
BindMisnamed(p) ==
  /\ At(p, Binding(p))
  /\ Goto(p, IF MayExecute(p) THEN "bound" ELSE "denied")
  /\ UNCHANGED <<vars, mission, ws, cp, saved>>

\* _binding and _validate_command
Bind(p) ==
  /\ At(p, Binding(p))
  /\ Goto(p, CASE ~MayExecute(p) -> "block"
               [] MayExecute(p) /\ Mode(p) = "material" -> "bound"
               [] OTHER -> "ready")
  /\ UNCHANGED <<vars, mission, ws, cp, saved>>

\* Mutant of SaveMaterial: the process is started without a checkpoint.
SaveMaterialNever(p) ==
  /\ At(p, "bound")
  /\ Goto(p, "ready")
  /\ UNCHANGED <<vars, mission, ws, cp, saved>>

\* A material task without a checkpoint gets one.
SaveMaterial(p) ==
  /\ At(p, "bound")
  /\ SaveCheckpoint(p)
  /\ Goto(p, "ready")

\* Mutant of Policy: the mission is not read a second time.
PolicyUnread(p) ==
  /\ At(p, "ready")
  /\ Goto(p, "permitted")
  /\ UNCHANGED <<vars, mission, ws, cp, saved>>

\* _policy_request reads the mission again and verifies the checkpoint; PolicyGuard
\* decides, and a privileged run consumes its grant.
Policy(p) ==
  /\ At(p, "ready")
  /\ Goto(p, IF MayExecute(p) THEN "permitted" ELSE "block")
  /\ UNCHANGED <<vars, mission, ws, cp, saved>>

\* subprocess.run starts the process.
Launch(p) ==
  /\ At(p, "permitted")
  /\ Goto(p, "running")
  /\ UNCHANGED <<vars, mission, ws, cp, saved>>
-----------------------------------------------------------------------------
(* The process and its rollback *)

\* The process may delete and write anything in its workspace; one that is not
\* declared material is taken at its word.
Write(p) ==
  LET t == lease[p].task IN
  /\ At(p, "running") /\ Mode(p) # "readonly"
  /\ \E keep \in SUBSET ws[t] :
       ws' = [ws EXCEPT ![t] = keep \cup {lease[p].attempt}]
  /\ Goto(p, "wrote")
  /\ UNCHANGED <<vars, mission, cp, saved>>

ExitZero(p) ==
  /\ At(p, IF Mode(p) = "readonly" THEN "running" ELSE "wrote")
  /\ Goto(p, "complete")
  /\ UNCHANGED <<vars, mission, ws, cp, saved>>

\* Mutant of ExitNonzero: only a privileged run is rolled back.
ExitNonzeroKept(p) ==
  /\ pc[p] = "leased" /\ step[p] \in {"running", "wrote"}
  /\ Goto(p, IF Mode(p) = "privileged" THEN "failed" ELSE "fail")
  /\ UNCHANGED <<vars, mission, ws, cp, saved>>

\* A nonzero exit, or the timeout: with or without having written.
ExitNonzero(p) ==
  /\ pc[p] = "leased" /\ step[p] \in {"running", "wrote"}
  /\ Goto(p, IF Mode(p) = "readonly" THEN "fail" ELSE "failed")
  /\ UNCHANGED <<vars, mission, ws, cp, saved>>

\* restore verifies the checkpoint and clears the workspace ...
ClearWorkspace(p) ==
  /\ At(p, "failed")
  /\ ws' = [ws EXCEPT ![lease[p].task] = {}]
  /\ Goto(p, "cleared")
  /\ UNCHANGED <<vars, mission, cp, saved>>

\* Mutant of CopyBack: the workspace stays empty.
CopyBackNothing(p) ==
  /\ At(p, "cleared")
  /\ Goto(p, "undone")
  /\ UNCHANGED <<vars, mission, ws, cp, saved>>

\* ... and copies the checkpoint over whatever is there by then.
CopyBack(p) ==
  /\ At(p, "cleared")
  /\ ws' = [ws EXCEPT ![lease[p].task] = @ \cup cp[p]]
  /\ Goto(p, "undone")
  /\ UNCHANGED <<vars, mission, cp, saved>>
-----------------------------------------------------------------------------

\* Mutant of ReportOutcome: whatever the process did, the task is completed.
ReportOutcomeCompleted(p) == step[p] \in Decided /\ CompleteTask(p) /\ Leave(p)

\* run_once reports what it decided; the report may come too late.
ReportOutcome(p) ==
  /\ \/ step[p] = "complete" /\ CompleteTask(p)
     \/ step[p] = "block" /\ BlockTask(p)
     \/ step[p] \in {"fail", "undone"} /\ FailTask(p, 0)
     \/ step[p] \in Decided /\ ReportRefused(p)
  /\ Leave(p)

\* The process dies, or an exception that run_once does not catch (CheckpointError, an
\* OSError of subprocess.run, StateError) ends the run without a report.
CrashWorker(p) == Crash(p) /\ Leave(p)

\* The rest of DurableTasks: submissions, claims, recovery, the other audit events.
QueueStep(p) ==
  /\ \/ \E k \in Key, m \in Mission, prio \in Priority, max \in 1..MaxAttempts :
          SubmitTask(p, k, m, prio, max)
     \/ Resume(p)
     \/ ClaimRecover(p)
     \/ \E m \in Mission \cup {NULL} : ClaimTake(p, m) \/ ClaimNone(p, m)
     \/ pending[p].action # "task_claimed" /\ AuditAppend(p)
  /\ UNCHANGED execVars

RunStep(p) ==
  \/ BeginRun(p)
  \/ \E s \in {"block", "fail"} : Refuse(p, s)
  \/ SavePrivileged(p)
  \/ Bind(p)
  \/ SaveMaterial(p)
  \/ Policy(p)
  \/ Launch(p)
  \/ Write(p)
  \/ ExitZero(p)
  \/ ExitNonzero(p)
  \/ ClearWorkspace(p)
  \/ CopyBack(p)
  \/ ReportOutcome(p)

ExecNext ==
  \/ \E p \in Proc : QueueStep(p) \/ RunStep(p) \/ CrashWorker(p)
  \/ Tick /\ UNCHANGED execVars
  \/ \E m \in Mission : \E s \in MISSION_TRANSITIONS[mission[m]] : TransitionMission(m, s)

ExecSpec == ExecInit /\ [][ExecNext]_allVars
-----------------------------------------------------------------------------
(* Properties *)

\* Type invariant of the execution state.
ExecTypeOK ==
  /\ mission \in [Mission -> DOMAIN MISSION_TRANSITIONS]
  /\ step \in [Proc -> Steps]
  /\ ws \in [Task -> SUBSET Nat]
  /\ cp \in [Proc -> SUBSET Nat]
  /\ saved \in [Task -> SUBSET SUBSET Nat]
  /\ seen \in [Proc -> SUBSET Checks]

\* "Toda execucao material e vinculada a um TaskLease duravel": while a worker's
\* process or rollback may write to a workspace, the worker has the task's lease.
ExecutesUnderLease ==
  \A p \in Proc : step[p] \in Executing =>
    /\ Owns(p)
    /\ tasks[lease[p].task].attempts = lease[p].attempt

\* A failed material run is undone to the last byte before the failure is reported,
\* whatever crashed runs left behind before it began.
RollbackExact ==
  \A p \in Proc : step[p] = "undone" => ws[lease[p].task] = cp[p]

\* The work of the attempt that completed a task is in its workspace: nothing rolls
\* it back afterwards.
CompletedWorkStays ==
  \A t \in Task : tasks[t].state = "COMPLETED" /\ ModeOf[tasks[t].key] # "readonly" =>
    tasks[t].attempts \in ws[t]

\* What was in a workspace before the first run is still there or in a checkpoint,
\* even when a run, or its rollback, is cut short.
OriginalRecoverable ==
  \A t \in Task : 0 \in ws[t] \/ \E c \in saved[t] : 0 \in c

\* Attempts at t that are over, did not complete it and left something in its workspace
Leftovers(t) ==
  {n \in ws[t] \ {0} :
     /\ ~(tasks[t].state = "COMPLETED" /\ tasks[t].attempts = n)
     /\ \A p \in Proc : step[p] \in Executing \cup {"complete"} =>
          ~(lease[p].task = t /\ lease[p].attempt = n)}

\* A run that fails or is refused leaves nothing of its own in the workspace.  What the
\* next runs find there, take into their checkpoints and restore is of attempts that died,
\* one for each death.
FailureLeavesNothing == \A t \in Task : Cardinality(Leftovers(t)) <= crashes

\* A process runs only for a mission that was active twice: while run_once was at its
\* binding, and again after that while it was at the policy request.  One that ends before
\* the second reading, and stays so, starts nothing, however the run got there.
MissionGate ==
  \A p \in Proc : step[p] \in Executing => {Binding(p), "ready"} \subseteq seen[p]
=============================================================================
