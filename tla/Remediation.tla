---------------------------- MODULE Remediation ----------------------------
(***************************************************************************)
(* RemediationPlanner, CorrectionLab and ValidationEngine                  *)
(* (immune_core/remediation.py) for the incident of Diagnosis, and the     *)
(* executors that run the corrections' tasks.                              *)
(*                                                                         *)
(* The task table is LeaseQueue, which DurableTasks implements; an executor*)
(* here ends within its lease or crashes.  The task of a correction has the*)
(* idempotency key remediation:<id> and is named by the correction.  Its   *)
(* workspace is as found, fixed (the validation rules hold) or wrong.      *)
(*                                                                         *)
(* One controller process calls the planner, the lab and the validation and*)
(* may die between any two statements; queue and validate are split where  *)
(* an executor can come in between.                                        *)
(***************************************************************************)
EXTENDS Diagnosis, LeaseQueue

CONSTANTS
  Correction,
  Executor,    \* workers whose manifest has the corrections' kind
  MaxWork,     \* bound: hypotheses, links, tests and tasks together
  MaxUnderWay  \* bound: corrections under way at the same time

ASSUME CorrectionAssumption ==
  /\ Correction \subseteq Task
  /\ Executor \subseteq Worker
  /\ NULL \notin Task \cup Worker
  /\ NoHypothesis \notin Hypothesis
  /\ Weights \in [Polarity -> SUBSET (Nat \ {0})] /\ MaxWork \in Nat /\ MaxUnderWay \in Nat

VARIABLES
  correction, \* correction[c]: state of c's row in diag_corrections
  content,    \* content[c]: the workspace of c's task
  saved,      \* saved[c]: content of the checkpoint the lab made last
  run,        \* run[t]: where the worker that holds t is in its run
  own,        \* own[t]: content of the checkpoint the executor that holds t made
  ctl,        \* where the controller is in queue or validate
  cur,        \* the correction it is called with
  held,       \* corrections whose passing ValidationResult the controller has in hand
  early,      \* history: claimed before the row was linked to task and checkpoint
  hasty,      \* history: last rolled back by validate before the task was settled
  undone,     \* history: rolled back with a passing result in hand or accepted
  halved      \* history: the incident is resolved and the row was not updated with it

remVars == <<correction, content, saved, run, own, ctl, cur, held, early, hasty, undone, halved>>

RemInit ==
  /\ DiagInit
  /\ AbsInit
  /\ correction = [c \in Correction |-> "NONE"]
  /\ content = [c \in Correction |-> "found"]
  /\ saved = [c \in Correction |-> "none"]
  /\ run = [t \in Task |-> "none"]
  /\ own = [t \in Task |-> "none"]
  /\ ctl = "idle"
  /\ cur = NULL
  /\ held = {}
  /\ early = {} /\ hasty = {} /\ undone = {}
  /\ halved = FALSE

Submitted == Cardinality({t \in Task : status[t] # "ABSENT"})
Room == findings + 3 * Submitted < MaxWork
UnderWay == {c \in Correction : correction[c] \in {"PLANNED", "QUEUED"}
                                 \/ status[c] \notin Settled \cup {"ABSENT"}}

\* submit_task under an idempotency key: at most one task.
Submit(t) ==
  \/ status[t] = "ABSENT" /\ Room /\ Enqueue(t)
  \/ status[t] # "ABSENT" /\ UNCHANGED absVars

SetState(c, s) == correction' = [correction EXCEPT ![c] = s]
-----------------------------------------------------------------------------
(* The controller *)

Plan(c) ==
  /\ ctl = "idle"
  /\ correction[c] = "NONE"
  /\ incident = "ROOT_CAUSE_CONFIRMED" /\ root # NoHypothesis
  /\ Cardinality(UnderWay) < MaxUnderWay
  /\ SetState(c, "PLANNED")
  /\ UNCHANGED <<diagVars, absVars, content, saved, run, own, ctl, cur, held, early, hasty,
                 undone, halved>>

\* queue, up to submit_task
LabSubmit(c) ==
  /\ ctl = "idle"
  /\ correction[c] = "PLANNED"
  /\ Submit(c)
  /\ ctl' = "submitted" /\ cur' = c
  /\ UNCHANGED <<diagVars, correction, content, saved, run, own, held, early, hasty, undone,
                 halved>>

\* queue, the checkpoint: the workspace as it is by now.
LabSave ==
  /\ ctl = "submitted"
  /\ saved' = [saved EXCEPT ![cur] = content[cur]]
  /\ ctl' = "saved"
  /\ UNCHANGED <<diagVars, absVars, correction, content, run, own, cur, held, early, hasty,
                 undone, halved>>

Return == ctl' = "idle" /\ cur' = NULL

\* queue, the two UPDATEs
LabLink(cut) ==
  /\ ctl = "saved"
  /\ SetState(cur, "QUEUED")
  /\ incident' = IF cut THEN incident ELSE "REMEDIATING"
  /\ halved' = (cut /\ halved)
  /\ held' = IF cut THEN {} ELSE held
  /\ Return
  /\ UNCHANGED <<root, evidenceVars, absVars, content, saved, run, own, early, hasty, undone>>

\* Mutant of Passes: the task's state is not looked at.
PassesUnfinished(c) == content[c] = "fixed"

\* The checks of validate that are about the task and its workspace.
Passes(c) == status[c] = "COMPLETED" /\ content[c] = "fixed"

\* validate, up to the verdict.  It asks for a linked task and checkpoint and for no
\* state in particular; the audit chain may fail it as well.
Judge(c) ==
  /\ ctl = "idle"
  /\ correction[c] \notin {"NONE", "PLANNED"}
  /\ \/ Passes(c) /\ ctl' = "passed"
     \/ ctl' = "failed"
  /\ cur' = c
  /\ UNCHANGED <<diagVars, absVars, correction, content, saved, run, own, held, early, hasty,
                 undone, halved>>

\* Mutant of Restore: the checkpoint is looked up and not restored.
RestoreNothing ==
  /\ ctl = "failed"
  /\ ctl' = "restored"
  /\ UNCHANGED <<diagVars, absVars, correction, content, saved, run, own, cur, held, early,
                 hasty, undone, halved>>

\* validate, the rollback to the lab's checkpoint
Restore ==
  /\ ctl = "failed"
  /\ content' = [content EXCEPT ![cur] = saved[cur]]
  /\ hasty' = IF status[cur] \in Settled THEN hasty \ {cur} ELSE hasty \cup {cur}
  /\ undone' = IF cur \in held \/ correction[cur] = "ACCEPTED" THEN undone \cup {cur} ELSE undone
  /\ ctl' = "restored"
  /\ UNCHANGED <<diagVars, absVars, correction, saved, run, own, cur, held, early, halved>>

\* Mutant of Conclude: a rollback does not reopen the incident.
ConcludeQuietly(cut) ==
  /\ ctl \in {"passed", "restored"}
  /\ SetState(cur, IF ctl = "passed" THEN "VALIDATED" ELSE "ROLLED_BACK")
  /\ \/ /\ ~cut
        /\ incident' = IF ctl = "passed" THEN "VALIDATING" ELSE incident
        /\ held' = IF ctl = "passed" THEN held \cup {cur} ELSE held
     \/ /\ cut
        /\ held' = {}
        /\ UNCHANGED incident
  /\ halved' = (cut /\ incident = "RESOLVED")
  /\ hasty' = IF ctl = "passed" THEN hasty \ {cur} ELSE hasty
  /\ undone' = IF ctl = "passed" THEN undone \ {cur} ELSE undone
  /\ Return
  /\ UNCHANGED <<root, evidenceVars, absVars, content, saved, run, own, early>>

\* validate, from the INSERT of the verdict on
Conclude(cut) ==
  /\ ctl \in {"passed", "restored"}
  /\ SetState(cur, IF ctl = "passed" THEN "VALIDATED" ELSE "ROLLED_BACK")
  /\ \/ /\ ~cut
        /\ incident' = IF ctl = "passed" THEN "VALIDATING" ELSE "INVESTIGATING"
        /\ held' = IF ctl = "passed" THEN held \cup {cur} ELSE held
     \/ /\ cut
        /\ held' = {}
        /\ UNCHANGED incident
  /\ halved' = (cut /\ incident = "RESOLVED")
  /\ hasty' = IF ctl = "passed" THEN hasty \ {cur} ELSE hasty
  /\ undone' = IF ctl = "passed" THEN undone \ {cur} ELSE undone
  /\ Return
  /\ UNCHANGED <<root, evidenceVars, absVars, content, saved, run, own, early>>

\* finalize_incident: resolve_incident, then the row.  The ValidationResult is the
\* caller's; the row's own state is not looked at.
FinalizeIncident(c, cut) ==
  /\ ctl = "idle"
  /\ c \in held
  /\ incident = "VALIDATING" /\ root # NoHypothesis
  /\ incident' = "RESOLVED"
  /\ IF cut THEN UNCHANGED correction ELSE SetState(c, "ACCEPTED")
  /\ halved' = cut
  /\ held' = IF cut THEN {} ELSE held
  /\ UNCHANGED <<root, evidenceVars, absVars, content, saved, run, own, ctl, cur, early, hasty,
                 undone>>

\* Diagnosis goes on between the controller's calls.
Diagnose ==
  /\ ctl = "idle"
  /\ DiagNext
  /\ findings' > findings => Room
  /\ UNCHANGED <<absVars, remVars>>

CrashController ==
  /\ ctl # "idle" \/ held # {}
  /\ held' = {}
  /\ Return
  /\ UNCHANGED <<diagVars, absVars, correction, content, saved, run, own, early, hasty, undone,
                 halved>>
-----------------------------------------------------------------------------
(* The executors *)

Free(w) == \A t \in Task : holder[t] # w

\* claim_next; the kind of the task is not part of the query.
Claim(w, t) ==
  /\ Free(w)
  /\ Hand(t, w)
  /\ run' = [run EXCEPT ![t] = "claimed"]
  /\ early' = IF t \in Correction /\ correction[t] = "PLANNED" THEN early \cup {t} ELSE early
  /\ UNCHANGED <<diagVars, correction, content, saved, own, ctl, cur, held, hasty, undone, halved>>

\* The run of t is over.
Over(t) ==
  /\ run' = [run EXCEPT ![t] = "none"]
  /\ own' = [own EXCEPT ![t] = "none"]

Settle(t, s) == Report(t, s) /\ Over(t)

\* run_once of an executor on a correction: the checkpoint before the process ...
SaveOwn(c) ==
  /\ run[c] = "claimed" /\ holder[c] \in Executor
  /\ own' = [own EXCEPT ![c] = content[c]]
  /\ run' = [run EXCEPT ![c] = "ready"]
  /\ UNCHANGED <<diagVars, absVars, correction, content, saved, ctl, cur, held, early, hasty,
                 undone, halved>>

\* ... what the process leaves behind ...
Write(c) ==
  /\ run[c] \in {"ready", "wrote"}
  /\ \E x \in {"fixed", "wrong"} : content' = [content EXCEPT ![c] = x]
  /\ run' = [run EXCEPT ![c] = "wrote"]
  /\ UNCHANGED <<diagVars, absVars, correction, saved, own, ctl, cur, held, early, hasty,
                 undone, halved>>

Complete(c) ==
  /\ run[c] = "wrote"
  /\ Settle(c, "COMPLETED")
  /\ UNCHANGED <<diagVars, correction, content, saved, ctl, cur, held, early, hasty,
                 undone, halved>>

\* ... and the rollback of a process that failed.
RollBack(c) ==
  /\ run[c] \in {"ready", "wrote"}
  /\ content' = [content EXCEPT ![c] = own[c]]
  /\ run' = [run EXCEPT ![c] = "undone"]
  /\ UNCHANGED <<diagVars, absVars, correction, saved, own, ctl, cur, held, early, hasty,
                 undone, halved>>

Fail(c) ==
  /\ run[c] = "undone"
  /\ Settle(c, "FAILED")
  /\ UNCHANGED <<diagVars, correction, content, saved, ctl, cur, held, early, hasty,
                 undone, halved>>

\* Refused before the process starts (a CONTAINED mission, a policy, an identity): BLOCKED,
\* or FAILED for a payload the executor cannot run.
Refuse(c, s) ==
  /\ run[c] \in {"claimed", "ready"} /\ holder[c] \in Executor
  /\ Settle(c, s)
  /\ UNCHANGED <<diagVars, correction, content, saved, ctl, cur, held, early, hasty,
                 undone, halved>>

\* The worker dies and the lease expires; the workspace stays as it is.
LoseWorker(t) ==
  /\ run[t] # "none"
  /\ Revoke({t})
  /\ Over(t)
  /\ UNCHANGED <<diagVars, correction, content, saved, ctl, cur, held, early, hasty,
                 undone, halved>>

RemNext ==
  \/ Diagnose
  \/ \E c \in Correction :
       \/ Plan(c) \/ LabSubmit(c) \/ Judge(c)
       \/ SaveOwn(c) \/ Write(c) \/ Complete(c) \/ RollBack(c) \/ Fail(c)
       \/ \E s \in {"BLOCKED", "FAILED"} : Refuse(c, s)
  \/ LabSave
  \/ Restore
  \/ \E cut \in BOOLEAN :
       LabLink(cut) \/ Conclude(cut) \/ \E c \in Correction : FinalizeIncident(c, cut)
  \/ CrashController
  \/ \E t \in Task : LoseWorker(t) \/ \E w \in Executor : Claim(w, t)
-----------------------------------------------------------------------------
(* Properties *)

Contents == {"found", "fixed", "wrong"}

\* Type of the corrections' tables and of the controller.
RemTypeOK ==
  /\ DiagTypeOK
  /\ status \in [Task -> Status]
  /\ holder \in [Task -> Worker \cup {NULL}]
  /\ correction \in [Correction -> {"NONE", "PLANNED", "QUEUED", "VALIDATED", "ROLLED_BACK",
                                    "ACCEPTED"}]
  /\ content \in [Correction -> Contents]
  /\ saved \in [Correction -> Contents \cup {"none"}]
  /\ own \in [Task -> Contents \cup {"none"}]
  /\ ctl \in {"idle", "submitted", "saved", "passed", "failed", "restored"}
  /\ cur \in Correction \cup {NULL}
  /\ held \subseteq Correction
  /\ early \subseteq Correction /\ hasty \subseteq Correction
  /\ undone \subseteq Correction
  /\ halved \in BOOLEAN

\* An accepted correction is in place: its task completed and the fix is in its workspace,
\* with one exception, a rollback after the result that is accepted: finalize_incident
\* does not look at the row, and a rollback of an accepted correction may be cut short.
AcceptedEffect ==
  \A c \in Correction : correction[c] = "ACCEPTED" =>
    status[c] = "COMPLETED" /\ (content[c] = "fixed" \/ c \in undone)

\* ROLLED_BACK is true once the task is settled: the workspace is as it was found, unless
\* validate rolled back a task that could still run, or the task was claimed before
\* queue had linked its checkpoint.
RollbackReal ==
  \A c \in Correction : correction[c] = "ROLLED_BACK" /\ status[c] \in Settled =>
    content[c] = "found" \/ c \in hasty \/ c \in early

\* A resolved incident has its accepted correction, unless the controller died between
\* the two tables.
ResolvedBacked ==
  incident = "RESOLVED" => halved \/ \E c \in Correction : correction[c] = "ACCEPTED"
=============================================================================
