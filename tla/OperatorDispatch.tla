-------------------------- MODULE OperatorDispatch --------------------------
(***************************************************************************)
(* CommandGateway.submit (immune_core/operations.py) and                   *)
(* OperatorCommandDispatcher (immune_core/operator_dispatch.py) over the   *)
(* task table they share with the corrections of Remediation: dispatcher   *)
(* and executors claim whatever is queued, whoever it is for.              *)
(*                                                                         *)
(* A command's task has the key operator:<id> and is named by the command; *)
(* ChildOf[k] is the task it is dispatched to, operator-dispatch:<id>:...  *)
(* Scopes, policies and runbook parameters are left out: Registered are the*)
(* commands whose runbook and target the dispatcher knows.                 *)
(***************************************************************************)
EXTENDS Remediation

CONSTANTS
  Command,
  Registered,  \* commands the dispatcher can resolve
  ChildOf,     \* ChildOf[k]: the task command k is dispatched to
  Dispatcher   \* the dispatcher's worker id

Child == {ChildOf[k] : k \in Command}

ASSUME CommandAssumption ==
  /\ ChildOf \in [Command -> Task]
  /\ \A k, j \in Command : ChildOf[k] = ChildOf[j] => k = j
  /\ Command \subseteq Task /\ Registered \subseteq Command
  /\ Command \cap Correction = {} /\ Child \cap (Correction \cup Command) = {}
  /\ Dispatcher \in Worker \ Executor

VARIABLES
  command,   \* command[k]: state of k's row in op_commands, NONE without one
  entering,  \* commands whose submit is between the task and the row
  closing,   \* the command whose row the dispatcher updates next, or NULL
  stranded   \* history: why a command's task was settled and its row was not

opVars == <<command, entering, closing, stranded>>
ctlVars == <<diagVars, absVars, remVars, opVars>>

CtlInit ==
  /\ RemInit
  /\ command = [k \in Command |-> "NONE"]
  /\ entering = {}
  /\ closing = NULL
  /\ stranded = [k \in Command |-> {}]

Strand(k, why) == stranded' = [stranded EXCEPT ![k] = @ \cup {why}]

\* A step that leaves the incident and the corrections alone.
OpStep == UNCHANGED <<diagVars, correction, content, saved, ctl, cur, held, early, hasty, undone,
                      halved>>
-----------------------------------------------------------------------------
(* The operator *)

\* CommandGateway.submit: the task ...
EnterTask(k) ==
  /\ command[k] = "NONE" /\ status[k] = "ABSENT" /\ Room
  /\ Enqueue(k)
  /\ entering' = entering \cup {k}
  /\ OpStep
  /\ UNCHANGED <<run, own, command, closing, stranded>>

\* ... and then its row.
EnterRow(k) ==
  /\ k \in entering
  /\ command' = [command EXCEPT ![k] = "QUEUED"]
  /\ entering' = entering \ {k}
  /\ OpStep
  /\ UNCHANGED <<absVars, run, own, closing, stranded>>

\* The operator's process dies in between.
EnterLost(k) ==
  /\ k \in entering
  /\ entering' = entering \ {k}
  /\ OpStep
  /\ UNCHANGED <<absVars, run, own, command, closing, stranded>>
-----------------------------------------------------------------------------
(* The dispatcher *)

\* run_once claims any task.
DispatcherClaim(t) ==
  /\ closing = NULL
  /\ Claim(Dispatcher, t)
  /\ UNCHANGED opVars

Dispatching(t) == holder[t] = Dispatcher /\ closing = NULL

\* A task that is not an operator command is failed, and has no second attempt.
Reject(t) ==
  /\ Dispatching(t) /\ t \notin Command
  /\ Settle(t, "FAILED")
  /\ OpStep
  /\ UNCHANGED opVars

\* No row, or one that is not QUEUED: the task is blocked and the row left alone.
Mismatch(k) ==
  /\ Dispatching(k)
  /\ command[k] # "QUEUED"
  /\ Settle(k, "BLOCKED")
  /\ Strand(k, "early")
  /\ OpStep
  /\ UNCHANGED <<command, entering, closing>>

\* DispatchError: the task is blocked, then the row.
Unknown(k) ==
  /\ Dispatching(k)
  /\ command[k] = "QUEUED" /\ k \notin Registered
  /\ Settle(k, "BLOCKED")
  /\ closing' = k
  /\ OpStep
  /\ UNCHANGED <<command, entering, stranded>>

\* submit_task of the child, idempotent under its key
Dispatch(k) ==
  /\ Dispatching(k) /\ run[k] = "claimed"
  /\ command[k] = "QUEUED" /\ k \in Registered
  /\ Submit(ChildOf[k])
  /\ run' = [run EXCEPT ![k] = "dispatched"]
  /\ OpStep
  /\ UNCHANGED <<own, opVars>>

\* Mutant of CompleteCommand: the task is completed before its child is submitted.
CompleteCommandFirst(k) ==
  /\ Dispatching(k) /\ k \in Registered /\ command[k] = "QUEUED"
  /\ Settle(k, "COMPLETED")
  /\ closing' = k
  /\ OpStep
  /\ UNCHANGED <<command, entering, stranded>>

CompleteCommand(k) ==
  /\ Dispatching(k) /\ run[k] = "dispatched"
  /\ Settle(k, "COMPLETED")
  /\ closing' = k
  /\ OpStep
  /\ UNCHANGED <<command, entering, stranded>>

\* Mutant of CloseCommand: the row is only updated for a dispatched command.
CloseCommandDispatched(k) ==
  /\ closing = k
  /\ closing' = NULL
  /\ command' = IF status[k] = "COMPLETED" THEN [command EXCEPT ![k] = "DISPATCHED"] ELSE command
  /\ OpStep
  /\ UNCHANGED <<absVars, run, own, entering, stranded>>

\* The UPDATE of the row that follows complete_task and block_task
CloseCommand(k) ==
  /\ closing = k
  /\ closing' = NULL
  /\ command' = [command EXCEPT ![k] =
                   IF status[k] = "COMPLETED" THEN "DISPATCHED" ELSE "BLOCKED"]
  /\ OpStep
  /\ UNCHANGED <<absVars, run, own, entering, stranded>>

\* The dispatcher dies before that UPDATE.
CloseLost(k) ==
  /\ closing = k
  /\ closing' = NULL
  /\ Strand(k, "crash")
  /\ OpStep
  /\ UNCHANGED <<absVars, run, own, command, entering>>
-----------------------------------------------------------------------------
\* An executor that claimed a command: its kind is outside the manifest.
RefuseCommand(k) ==
  /\ run[k] = "claimed" /\ holder[k] \in Executor
  /\ Settle(k, "BLOCKED")
  /\ Strand(k, "foreign")
  /\ OpStep
  /\ UNCHANGED <<command, entering, closing>>

\* An executor ends the run of a child.
RunChild(t, s) ==
  /\ run[t] = "claimed" /\ holder[t] \in Executor
  /\ Settle(t, s)
  /\ OpStep
  /\ UNCHANGED opVars

CtlNext ==
  \/ RemNext /\ UNCHANGED opVars
  \/ \E k \in Command :
       \/ EnterTask(k) \/ EnterRow(k) \/ EnterLost(k)
       \/ Mismatch(k) \/ Unknown(k) \/ Dispatch(k) \/ CompleteCommand(k)
       \/ CloseCommand(k) \/ CloseLost(k) \/ RefuseCommand(k)
  \/ \E t \in Task : DispatcherClaim(t) \/ Reject(t)
  \/ \E t \in Child, s \in Settled : RunChild(t, s)

CtlSpec == CtlInit /\ [][CtlNext]_ctlVars
-----------------------------------------------------------------------------
(* Properties *)

\* Type invariant of the control plane.
CtlTypeOK ==
  /\ RemTypeOK
  /\ run \in [Task -> {"none", "claimed", "ready", "wrote", "undone", "dispatched"}]
  /\ command \in [Command -> {"NONE", "QUEUED", "DISPATCHED", "BLOCKED"}]
  /\ entering \subseteq Command
  /\ closing \in Command \cup {NULL}
  /\ stranded \in [Command -> SUBSET {"early", "crash", "foreign"}]

\* What op_commands says is so: a DISPATCHED command's task is completed and its child
\* submitted, a BLOCKED one's task is blocked, and no completed command is without its
\* child, however often the dispatcher died on the way.
CommandsAgree ==
  \A k \in Command :
    /\ command[k] = "DISPATCHED" => status[k] = "COMPLETED"
    /\ command[k] = "BLOCKED" => status[k] = "BLOCKED" /\ k \notin Registered
    /\ status[k] = "COMPLETED" => status[ChildOf[k]] # "ABSENT"
    /\ status[ChildOf[k]] # "ABSENT" => k \in Registered

\* A command that is QUEUED forever: its task is settled and no one will look at it
\* again.  There are three ways into it and no other: the dispatcher was faster than
\* the INSERT of the row, it died before the UPDATE, or an executor claimed the task.
StrandedOnlySo ==
  \A k \in Command : command[k] = "QUEUED" /\ status[k] \in Settled /\ closing # k =>
    stranded[k] # {}
=============================================================================
