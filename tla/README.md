# TLA+ verification of the Immune System core

The Immune System is a Python program that looks after other systems: it keeps
missions and tasks in a SQLite database, has workers execute tasks under leases
with checkpoints and rollback, supervises itself continuously, backs its state up
and updates itself. Its packages are `immune_core`, `immune_execution_broker`,
`immune_gateway`, `immune_fortress` and a few smaller ones; `donors/` is vendored
and `scripts/` holds the runtime's entry points and phase validators.

This directory models the parts that keep durable state and are used by several
processes, checks them with TLC and proves the central results with TLAPS.
`PROJECT.json` lists the components, runs, mutants, the map from definitions to
source lines, findings, hazards and theorems.

## Inventory

| Component | State | Operations | What makes it correct |
|---|---|---|---|
| Task queue (`storage.py`, `engine.py`) | tables `missions`, `tasks`, `transitions` | submit, claim, recover, complete, block, fail, resume | one holder per lease, late reports refused, retries accounted for, keys idempotent, every task settles |
| Audit ledger (`audit.py`) | table `audit_events`, a hash chain | append, verify | agrees with the tables up to crashes |
| Mission state machine (`engine.py`) | `missions.state` | transition | work runs for active missions only |
| Execution broker (`immune_execution_broker/`) | a worker's run in memory | run_once: refuse, checkpoint, policy, run, roll back, report | runs under a lease, rolls back exactly |
| Checkpoints (`checkpoints.py`) | directories with manifests | create, verify, restore | the original content is never lost |
| Supervisor (`continuous.py`, `scripts/immune_runtime.py`) | lock file, row `runtime_state` | acquire, release, boot, tick, stop | one instance, a lock of the dead is recovered |
| State backups (`state_backup.py`) | `.sqlite3` + `.json` files | create, get, verify, restore_to, prune | a recovery point always exists, the floor holds, the disk is bounded |
| Release manager (`update_manager.py`) | staging, releases, `current.json` | stage, activate, rollback_to | the pointer names a whole release that passed its health gate |
| Diagnosis (`diagnosis.py`) | tables `diag_incidents`, `diag_hypotheses`, `diag_hypothesis_evidence`, `diag_attempts` | attach a signal, add and weigh hypotheses, record tests, confirm a root cause, transition | a confirmed cause is grounded in evidence and tests |
| Remediation (`remediation.py`) | tables `diag_corrections`, `diag_validations`, checkpoints | plan, queue, validate, finalize_incident | an accepted correction is in place, a rollback is real, a resolved incident has a correction |
| Operations, operator dispatch (`operations.py`, `operator_dispatch.py`) | table `op_commands` | submit, dispatch | a command's row agrees with its task and with the task it is dispatched to |
| Gateway (`immune_gateway/`) | tables `gateway_nonces`, `gateway_egress_receipts` | ingest_signed, execute | a message is accepted once, an effect has its receipt |
| Capabilities (`immune_fortress/capability.py`) | table `used_action_capabilities` | issue, consume | a capability acts once |
| Learning (`learning.py`) | tables `learning_knowledge`, `learning_outcomes`, `learning_reviews` | create, reproduce, review, promote, regress, retire | promoted only when earned, one version at a time, a regression acts |
| Policy, identity, acceptance, vault, discovery, observability, providers, cognition, panels, lab, twin, watchdog, autostart | little or none | pure checks, I/O, presentation | by tests |

Interaction: everything goes through one SQLite file, with one connection per
process and `BEGIN IMMEDIATE` around each multi-statement change. An operation of
the engine is a store transaction followed by an audit transaction of its own.
Workers, dispatcher, remediation and supervisor all call the engine, and workers
and dispatcher claim from the same table, whoever a task is for. Diagnosis,
remediation, operations and learning write tables of their own in further
transactions, before or after the engine's. The supervisor, the checkpoints and the releases also keep files, whose steps are not
transactions at all. Hard behaviours: leases that run out under a running worker,
crashes between store and ledger or between two files, stale readings of a clock
or of a mission's state, a lock file without a heartbeat, a task that is claimable
before the rows about it exist, a rollback while the work may still run, nonces
that are purged by another caller's clock reading, and records that are decided on
in one transaction and written in the next.

## Modules

| Module | Models |
|---|---|
| `LeaseQueue` | abstract specification: what the task store promises, without leases, clocks and attempts |
| `DurableTasks` | `SQLiteStateStore` and `DurableLoopEngine` for tasks, with the audit append, crashes and time |
| `Execution` | extends `DurableTasks`: `WorkerRunner.run_once`, `SafeExecutor`, `PrivilegedExecutor`, `CheckpointManager` and mission state |
| `Supervisor` | `SupervisorLock`, `ContinuousSupervisor`, `StateBackupManager`, `immune_runtime.main` |
| `Releases` | `ReleaseManager` |
| `Gateway` | `GatewayIngress`, `GatewayEgress` and the one-use capabilities of `ActionCapabilityAuthority` |
| `Diagnosis` | `IncidentEngine` on one incident |
| `Remediation` | extends `Diagnosis` and `LeaseQueue`: `RemediationPlanner`, `CorrectionLab`, `ValidationEngine` and the executors of corrections |
| `OperatorDispatch` | extends `Remediation`: `CommandGateway.submit` and `OperatorCommandDispatcher` over the same task table |
| `Learning` | `ControlledLearningEngine` on one lineage of records |
| `MCDurableTasks`, `MCExecution`, `MCGateway`, `MCControl`, `MCLearning` | instances for TLC |
| `DurableTasksProofs`, `LeaseQueueRefinement`, `ExecutionProofs`, `SupervisorProofs`, `ReleasesProofs`, `GatewayProofs`, `ControlProofs`, `LearningProofs` | theorems and proofs |

`Execution` is the task queue with its leases and clocks and the broker on top.
`OperatorDispatch` is built on the abstract `LeaseQueue` instead, which
`DurableTasks` and `Execution` are shown to implement: what the control plane does
to a task does not depend on attempts and deadlines.

**DurableTasks.** `tasks[t]` is the row of the table, and one `BEGIN IMMEDIATE ...
COMMIT` is one action. `claim_next` reads the clock once and runs two
transactions, so it is `ClaimRecover` and then `ClaimTake` or `ClaimNone`, with
`age[p]` the age of that reading. Deadlines are kept relative to the clock
(`lease_left`, `next_left`), so that time needs no upper bound. Each
operation ends with `ThenAudit`; `AuditAppend` is the second transaction, and a
`Crash` in between loses the event. `expiries` and `retries` count rows of the
table `transitions`. `submit_task` looks its key up twice and only the second
lookup, inside the transaction, decides: it is one action.

**Execution.** While `pc[p] = "leased"`, `step[p]` walks through `run_once`:
privileged checkpoint, binding, checkpoint of a material run, policy, process,
rollback, report. A workspace's content is the set of attempts that wrote it (0
for what was there first). `restore` is two steps, clear and copy. Refusals that
depend on payloads, manifests, tokens or the policy table are choices (`Refuse`).
`TransitionMission` may come between any two steps. `seen[p]` remembers at which of
the steps where `run_once` reads the mission it was active.

**Supervisor.** One action per system call on the lock file or on a backup file
and per write of `runtime_state`. Backups are numbered by the clock reading of
the tick that made them. `BackupRaises`, `Uncaught`, `InterruptedMidway` and
`Kill` are the four ways `main` and `tick` treat an interruption; `DrillRaises` is an
exception during a restore drill, which `_restore_drill` turns into a failed drill
whether or not the backup is at fault.

**Releases.** `activate` is one action per effect on the file system, so that a
crash can fall between any two. `Alter` edits a staged bundle at any time.

**Gateway.** In: a caller reads the clock (`at[h]`) in `Verify`, deletes the
nonces that are out of date by that reading (`Purge`), inserts its own (`Claim`)
and hands the observation on (`Accept`). Each is a transaction of its own, and a
caller may die or be refused in between (`Abandon`). Out: `Admit` tests mission
and capability, `Consume` inserts the capability into the table of used ones or is
`Refused`, `Execute` is the adapter's effect, `Receipt` the row about it, and
`Fault` an exception at any of these points.

**Diagnosis.** One action per operation. `cut` says that the process dies between
the operation's statements, so that only the first of its tables is written: a signal
attached, a link inserted before the hypothesis is weighed anew, a hypothesis marked
before the incident names it. `revised` and `torn` remember what changed after a cause
was confirmed and whose mark a cut confirmation or a cut link left behind.

**Remediation.** The controller's `queue` is `LabSubmit` (the task, claimable from
here on), `LabSave` (the checkpoint) and `LabLink` (the row); its `validate` is
`Judge`, `Restore` and `Conclude`; `FinalizeIncident` resolves the incident. An
executor claims, makes its own checkpoint, writes, and completes or rolls back and
fails, or dies (`LoseWorker`). Four histories name the ways in which the tables can
come to disagree: `early` (claimed before the row was linked), `hasty` (rolled back
while the task could still run), `undone` (rolled back with a passing result in
hand) and `halved` (died between incident and correction).

**OperatorDispatch.** `EnterTask` and `EnterRow` are the two transactions of a
command's submission. The dispatcher claims any task (`DispatcherClaim`), rejects
the kinds it does not know (`Reject`), submits the child of a command
(`Dispatch`), completes or blocks it, and then updates its row
(`CloseCommand`, or `CloseLost` when it dies first). `stranded[k]` remembers why a
command's row was left behind.

**Learning.** Each call is a step that reads the record and decides (`Create`,
`Reproduce`, `Regress`, `Review`, `Promote`, `Retire`) and one or two steps that
write. None of the writes asks whether the record is still as it was read, so
`stale[p]` remembers that something was written since, and `suspect` the records
whose state was written by such a call or by one cut short. The reads of one call
are one moment, except for the failures that `review` and a regression count: those
are counted as of the start or as of the write (`fails[p]`). `promote` writes twice,
each time in a transaction of its own: `SettlePromotion` promotes the record and
`Supersede` replaces the one promoted before, and others read and write in between. The
stored confidence is left out: `promote` compares it with the new record's and may
refuse, and a refused promotion is one that was abandoned.

## Runs

| Run | Instance | Shows |
|---|---|---|
| `tasks_safety` | 2 tasks, 2 keys, 2 workers, lease 2 ticks, retry delay up to 1, claim delay up to 1, 1 crash | `TypeOK`, `LeaseExclusive`, `FencedReport`, `RetryBudget`, `IdempotentSubmit`, `LedgerAgrees`, `ImplementsLeaseQueue` |
| `tasks_liveness` | 1 task, 2 workers, 2 crashes, timely workers | `EveryTaskSettles` |
| `tasks_retry_limit` | 1 task, slow workers | `RetryLimit` is violated |
| `execution` | 1 task of any of the three modes, 2 workers, 1 crash, 1 mission | `ExecutesUnderLease`, `RollbackExact`, `CompletedWorkStays`, `OriginalRecoverable`, `FailureLeavesNothing`, `MissionGate` |
| `execution_late` | a process slower than its lease | `ExecutesUnderLease` is violated |
| `supervisor` | 2 supervisors, retention 2, 4 backups, 1 fault, `Timely` | `SingleInstance`, `RecoveryPoint`, `RetentionFloor`, `DiskBounded`, `DrillWhole`, `LockRecovered` |
| `supervisor_overlap` | the same without `Timely` and without faults | `SingleInstance` is violated |
| `releases` | 3 versions | `PointerInstalled`, `HealthGate` |
| `releases_downgrade` | 2 versions | `MonotonicVersions` is violated |
| `gateway` | 2 messages (one stamped ahead of the clock), 2 callers on each side, skew 1, nonce lifetime 4, delay 1, 1 capability of lifetime 2, clock up to 5 | `AcceptedOnce`, `EffectOnce`, `ReceiptsAgree` |
| `control` | 2 hypotheses, 1 piece of evidence of weight 1 for or 2 against, 2 corrections, 2 commands of which the dispatcher knows 1, 1 executor, 1 dispatcher, 1 controller | `RootCauseGrounded`, `AcceptedEffect`, `RollbackReal`, `ResolvedBacked`, `CommandsAgree`, `StrandedOnlySo` |
| `learning` | 2 records (1 global), 2 successes on 2 systems, 2 failures, 2 callers | `PromotedEarned`, `OnePromoted`, `RegressionActs`, `RetiredForGood` |

Each passing run but `learning` and `tasks_liveness` also checks the type
invariant of its module. `gateway` has 1.3 million distinct states, `control` 1.4
million and `learning` 1.4 million; the longest takes about two minutes with two TLC
workers.

Bounds. Two workers and two tasks are what a lost lease, a second claimant, a
late report and a competing key need. A lease of two ticks has a "running",
a "last tick" and an "expired" value, and a claim delay of one tick makes the
clock reading of a claim older than its transaction. `AttemptCap` is the only bound on
behaviour: a task's `AttemptCap`-th lease does not run out. It is at least
`max_attempts` in each run, so that expiry is met inside and at the edge of the
retry budget. Four backups with a retention of two make the pruning loop run on
consecutive ticks and after an interrupted pruning. One fault per supervisor run reaches every
place a fault can fall; with two faults (1.5 million states, 3 minutes) the
same properties hold. Three versions are an old, a rejected and a newer one.
`Releases` runs without the deadlock check because nothing is left to do once the
newest version is current and its release directory was altered.

In `gateway` the limits are as tight as `NonceOutlivesMessage` allows, and the clock
runs past the last moment at which either message can pass the timestamp test. In
`control`, `MaxWork` bounds hypotheses, links, tests and tasks together (a task
counts three): seven is what a confirmed cause and two more tasks need, or three
tasks without a cause. `MaxUnderWay` makes the second correction wait until the task
of the first is settled and its row judged; the first may still be judged again,
rolled back or accepted after that, and the theorems hold for any number at once.
Evidence against weighs twice as much as evidence for, so that a confirmed cause can be
refuted by weight and a rival confirmed after it; an even balance is left to the
theorem, which is about all weights. Hypotheses and corrections are interchangeable
there and declared symmetric. In `learning`,
`MaxWrites` is seven because that is what it takes for a global record to supersede
another (create, review, promote; create, reproduce, review, promote), where the writes
of a promotion that supersedes are not counted: one more write is left for whoever
comes in between, such as a retirement. And
`MaxOverlaps` lets one call begin while another is open, if there is room for a write
of each. Both runs do without the
deadlock check because the bounded work comes to an end.

`Timely`. In `DurableTasks` and `Execution` it says that a live worker reports
before its lease runs out; in `Supervisor`, that starts do not overlap and that none is
tried beside a process that has held the lock for so long that it is stale. How long
that process runs is not limited: the loop goes on past the 120 s of its lock, and as
long as nobody starts a second one nothing happens. The code guarantees neither, which is
what the violation runs `execution_late` and `supervisor_overlap` show. `tasks_safety` does without it.

Fairness. `tasks_liveness`: workers poll again and again (strong fairness of
`ClaimRecover`, because a process may do other things between polls), a
call once begun goes on, a worker reports in the end (the executor's timeout
bounds a process), and time passes. Nobody has to submit and nobody has to crash.
`supervisor`: a running process goes on, and one is started when none runs: the
service that `autostart.py` writes has `Restart=always`.

## Findings

Each is a violation run: the document says one thing and the code does another.

* `RetryLimit`: ADR-0002 says retries are limited; recovery of expired leases
  ignores `max_attempts`. What does hold is `RetryBudget`: `fail_task` grants
  fewer than `max_attempts` retries, and every attempt beyond is an expired lease.
* `ExecutesUnderLease`: ADR-0003 binds every material execution to a lease; a
  process may run 60 s under a lease of 30 s that is never renewed.
* `SingleInstance`: the lock is never refreshed and its file is empty between
  creation and write, so two supervisors can own it. `RecoveryPoint`
  survives that; it is proved without `Timely`.
* `MonotonicVersions`: ADR-0010 says versions advance monotonically; the test is
  made when a bundle is staged and not when it is activated.

What the passing runs show besides: where a property has an exception, the
exception is a named history variable, and TLC finds the property violated as soon
as the exception is left out: the code does meet it.

* A nonce protects its message as long as `Ttl > 2 * Skew + MaxDelay`. The defaults
  (60 s and 300 s) leave a caller three minutes; `runtime_config.py:55-57` bounds
  the two separately (skew up to 300 s, lifetime from 30 s) and does not ask for it.
* The nonce is claimed before the observation is handed on, so a crash in between
  loses the observation: accepted at most once, not exactly once. Likewise a
  capability is used up before its effect.
* A command stays `QUEUED` forever in three ways and no other: the dispatcher
  claimed its task before the row was inserted, died before the row was updated, or
  an executor claimed the task. The dispatcher may also claim and fail the child it
  has just submitted, which has one attempt.
* `finalize_incident` does not look at the correction's row: a result that passed is
  accepted after the correction was rolled back. `validate` rolls back a task that
  may still run. Both are exceptions of `AcceptedEffect` and `RollbackReal`.
* A promotion that read its predecessor before it was retired turns it into
  `SUPERSEDED` (TLC shows it for two records that are not global); two promotions that overlap leave two records promoted; a regression
  that died after storing its outcome never acts, a retry being refused. What is
  promoted has earned it in every case.
* Every promotion that supersedes another commits a state with two promoted records,
  which `recall_promoted` can see; `OnePromoted` allows it while the call is between its
  two UPDATEs.
* ADR-0003, item 10 (lines 34-35), says that inactive missions start no material
  execution. `MissionGate` is what the code does: the mission was active at the binding
  and active again at the policy request. A mission cancelled after the second reading
  and before `subprocess.run` still gets its process.
* A failed run is rolled back to what it found. After a crash that is a half-changed
  workspace: `FailureLeavesNothing` says that whatever is found there is of attempts
  that died, one per death.

## Proofs

All theorems hold for every value of the constants that satisfies the named
assumptions (finite or infinite sets of processes, any lease time and so on).

* `TypeCorrect`, `LeaseExclusivity`, `ReportsAreFenced` (`DurableTasksProofs`).
  `TypeInv` adds to the types what a process has in memory at each point of its
  call (`Memory`). `LeaseExclusive` is not inductive: it says nothing of a lease
  whose deadline has passed, and such a lease must not be taken for a new one of
  the same worker. `LeaseInv` says, for every lease a process has, that if the row
  still names its worker then attempt and deadline are the lease's own, and that
  before the deadline the row does name it. It uses `DistinctWorkers`, that worker
  ids are not shared: the test of the code compares nothing but the id.
* `RetryAccounting`, `IdempotentSubmission`, `LedgerAgreement`, `Refinement`
  (`LeaseQueueRefinement`). One lemma says that whatever a step is, it does one of
  four things to the table (a task is born, taken back, handed out or reported on)
  or nothing these properties look at; the theorems follow from it. For the ledger,
  `LedgerInv` says that every event written or about to be written is true of the
  table, and that the settled tasks without one (`Lost`) are no more than the
  crashes: a task is only added to `Lost` by the crash of the process that was about to
  append its event.
* `QueueWithExecutors`, `TimelyExecution` (`ExecutionProofs`). The broker touches the
  task table through the queue's operations only (lemma `ExecutionRunsQueue`), so the
  theorems above hold of the composed system; with `Timely` and a claim delay shorter
  than the lease a process under way has `lease[p].left > 0`, and
  `LeaseExclusive` does the rest.
* `ExecTypeCorrect`, `MissionGated`, `OriginalIsRecoverable` (`ExecutionProofs`),
  without any assumption on time: leases may be outlived. `Gate` says that whoever is
  past a reading of the mission was at it while the mission was active; `OriginalInv` that whoever may
  write to, or has emptied, a workspace has a checkpoint with the original in it
  (`Backed`), and checkpoints are only added.
* `RollbackIsExact`, `CompletedWorkIsKept` (`ExecutionProofs`), for `Timely` and a
  claim delay shorter than the lease. Two runs of one task never overlap, so
  a workspace only changes by the steps of the run that has the lease (`Work`): it is
  empty between clear and copy, it is the checkpoint after the copy, and it has the
  attempt's mark from the first write to the report.
* `SupervisorTypeCorrect`, `RecoveryPointKept`, `RetentionFloorKept`
  (`SupervisorProofs`), for any number of supervisors at once. The invariant
  `SupInv` says that a clock reading is used by one tick only, so that a
  backup listed for pruning is never written again (`OneUse`); that the database of
  a manifest is written before it and removed after it (`Paired`); that whatever is
  listed for pruning has a newer manifest on disk (`Kept`); and that what the row
  and the ticks under way remember is on disk or has a newer one there
  (`Recorded`). Most actions touch none of this, which lemma `CalmKeeps` says once.
  For the floor, whatever is listed has `Retention` newer manifests (`Floor`): when one
  process removes a manifest that another counts on, the `Retention` manifests
  above it are also above whatever the other was to remove.
* `OneSupervisor` (`SupervisorProofs`), for `Timely` (without it `SingleInstance`
  fails, see Findings) and however long the holder runs. `LockInv` says that at most one
  process is taking the lock, that whoever owns it is named by the file, and that the
  file is fresh while somebody is taking it.
* `DrillsMeetWholeBackups`, `DiskIsBounded` (`SupervisorProofs`). Both are of the form
  `SupSpec /\ []SingleInstance => ...`: they do not ask why there is only one supervisor,
  nor how long it runs. One tick runs at a time; its reading is the latest and is not listed
  for pruning (`DrillInv`). `DiskInv` counts files at each step of a backup: at most
  `faults` databases without a manifest, one more than the retention while a backup is
  under way unless its file was damaged, and at most `Retention` manifests outside the
  list being pruned (lemma `WithinRetention`).
* `RelTypeCorrect`, `PointerAlwaysInstalled`, `HealthGateHolds`
  (`ReleasesProofs`). `RelInv` adds where `target`, `previous` and `pointer` stand at each step of `activate`, in
  particular that a rejected release is not the one to return to; `Gated` adds that
  what is on disk in full has been through the gate or had its gate cut short.
* `GwTypeCorrect`, `AcceptedOnceHolds`, `EffectOnceHolds`, `ReceiptsAgreeHolds`
  (`GatewayProofs`). On the way in, a caller before its INSERT is no older than
  `MaxDelay` (`Prompt`); a message that was claimed has its nonce in the table or is
  out of the reach of every caller, whatever its clock reading (`Remembered`, where
  `NonceOutlivesMessage` is used); and the caller that claimed it is the only one
  that hands it on (`Alone`). On the way out, a used capability is in the hands of
  one executor at most and has acted only once it is past `Execute` (`OutAlone`).
* `CtlTypeCorrect`, `AcceptedEffectHolds`, `RollbackRealHolds`,
  `ResolvedBackedHolds`, `CommandsAgreeHolds`, `StrandedOnlySoHolds`,
  `RootCauseIsGrounded` (`ControlProofs`). The invariant adds
  to the types where a task that is run stands (`Running`) and where the controller stands (`Placed`); what is so of a workspace
  while a passing result is in hand (`Effective`); that the checkpoints are of the
  workspace as it was found unless the task was claimed early (`Original`); what a
  rollback leaves behind (`RolledBack`); and what the command rows and the task rows
  say of each other (`Rows`). For the root cause, `MarkWeighed` adds that a hypothesis
  marked `ROOT_CAUSE` is supported by its weights or its mark is torn: new evidence takes
  the mark away unless the call is cut, a test does not. What the weights sum up to is not looked at; that they do not
  support and refute one hypothesis at once is enough.
* `LnTypeCorrect`, `PromotedEarnedHolds`, `OnePromotedHolds`, `RegressionActsHolds`,
  `RetiredForGoodHolds` (`LearningProofs`). What a call read is still so unless it is
  stale (`Fresh`); a promotion that is on its way rests on successes that stay,
  stale or not (`Backed`); versions are unique (`Unique`); and a promotion
  that is not stale knows the record it supersedes, so that no promoted record but one
  about to be superseded, or in doubt, has a newer one beside it (`Leading`).

Only model-checked: liveness (`EveryTaskSettles`, `LockRecovered`), which is out of
the prover's reach, and `FailureLeavesNothing`, whose proof is left to do. Every other property of a passing run is a theorem. Two of the
runs that expect a violation show what `Timely` is for: without it
`ExecutesUnderLease` and `SingleInstance` fail.

## Not modelled

* The hash chain of the ledger, signatures, policy tables, payloads and paths.
* A process that survives its worker: when a worker is killed, its child is taken
  to be gone too. A run that is not declared material is taken not to write.
* Two controllers of one mission: `transition_mission` is one action. Two
  controllers of one incident, and several incidents: the tables of one incident do
  not refer to another's.
* Two calls of the release manager at once; its only caller makes them in
  sequence.
* `acquire` lasts less than a tick of the supervisor's clock.
* Notifications, human exceptions, reports and the read models of `operations.py`:
  rows written once and shown. What `_correction_snapshot`, runbooks, scopes
  and policies ask is a choice or a constant set.
* `collect_once` of the gateway (it is `_accept` without a nonce), its server,
  adapters and configuration. The request threads of `server.py` share one SQLite
  connection, which `sqlite3` refuses by default; callers are modelled as processes
  with a connection each. A privilege grant is consumed by a transaction of the same
  shape as a capability; `Execution` takes its outcome as a choice.
* The single SELECTs inside one learning call, apart from the failures it counts.
* The components that `PROJECT.json` lists as `not_modelled`, with the reasons:
  pure checks, cryptography, I/O and presentation.

`donors/` is more than nine tenths of the repository's Python and is third-party
code that the program collects but does not consist of; none of it is modelled. Of
the 9,000 lines of the `immune_*` packages the map covers about a quarter: the parts
that change durable state.

## Left to do

1. Two controllers of one mission, and two callers of the release manager.
2. Liveness of the control plane: what a dispatcher and an executor that poll fairly
   guarantee for a command that is not stranded.
3. A proof of `FailureLeavesNothing`, from `Work` and a count of the attempts that died.
