--------------------------- MODULE ExecutionProofs ---------------------------
(***************************************************************************)
(* The steps of Execution are steps of DurableTasks, so what is proved of  *)
(* the queue holds of the queue with executors.                            *)
(*                                                                         *)
(* Without any assumption on time: the types, the mission gate (a run reads*)
(* its mission's state twice before it starts a process) and the original  *)
(* content, which is in the workspace or in a checkpoint at every step.    *)
(*                                                                         *)
(* For executors that end within their lease: they work under it from the  *)
(* first byte to the last, so a rollback is exact and completed work       *)
(* stays.                                                                  *)
(***************************************************************************)
EXTENDS Execution, LeaseQueueRefinement

LEMMA ExecStep == ExecNext => [Next]_vars
  <1> SUFFICES ASSUME ExecNext PROVE Next \/ UNCHANGED vars
    OBVIOUS
  <1> USE BoundAssumption
  <1>1. ASSUME NEW p \in Proc, QueueStep(p) PROVE Next
    BY <1>1 DEF QueueStep, Next, Call
  <1>2. ASSUME NEW p \in Proc, ReportOutcome(p) PROVE Next
    <2>1. 0 \in 0..RetryDelay
      OBVIOUS
    <2>2. QED
      BY <1>2, <2>1 DEF ReportOutcome, Next, Call
  <1>3. ASSUME NEW p \in Proc, BeginRun(p) PROVE Next
    BY <1>3 DEF BeginRun, Next, Call
  <1>4. ASSUME NEW p \in Proc, RunStep(p) PROVE Next \/ UNCHANGED vars
    BY <1>2, <1>3, <1>4
       DEF RunStep, Refuse, SavePrivileged, SaveCheckpoint, Bind, SaveMaterial, Policy,
           Launch, Write, ExitZero, ExitNonzero, ClearWorkspace, CopyBack
  <1>5. ASSUME NEW p \in Proc, CrashWorker(p) PROVE Next
    BY <1>5 DEF CrashWorker, Next
  <1>6. ASSUME NEW m \in Mission, NEW s \in MISSION_TRANSITIONS[mission[m]],
               TransitionMission(m, s)
        PROVE  UNCHANGED vars
    BY <1>6 DEF TransitionMission
  <1>7. QED
    BY <1>1, <1>4, <1>5, <1>6 DEF ExecNext, Next

LEMMA ExecStutter == UNCHANGED allVars => UNCHANGED vars
  BY DEF allVars

\* A run of the executors is a run of the queue.
LEMMA ExecutionRunsQueue == ExecSpec => Spec
  <1>1. ExecInit => Init
    BY DEF ExecInit
  <1>2. [ExecNext]_allVars => [Next]_vars
    BY ExecStep, ExecStutter
  <1>3. QED
    BY <1>1, <1>2, PTL DEF ExecSpec, Spec

\* So what the store promises its callers stays true under run_once, crashes of
\* executors and changes of mission: one holder per lease, reports fenced by it, the
\* retry budget, one task per idempotency key, a true ledger, and the lease queue.
THEOREM QueueWithExecutors ==
  ExecSpec => /\ [](LeaseExclusive /\ RetryBudget /\ IdempotentSubmit /\ LedgerAgrees)
              /\ FencedReport
              /\ ImplementsLeaseQueue
  BY ExecutionRunsQueue, LeaseExclusivity, RetryAccounting, IdempotentSubmission,
     LedgerAgreement, ReportsAreFenced, Refinement, PTL
-----------------------------------------------------------------------------
(* Executors that finish within their lease *)

\* run_once only runs with a lease in hand.
InRun ==
  /\ step \in [Proc -> Steps]
  /\ \A p \in Proc : step[p] # "none" => pc[p] = "leased"

\* A worker that still has its lease is inside it; a claim is not older than allowed.
InTimeAt(p) ==
  /\ pc[p] = "claim" => age[p] <= MaxClaimDelay
  /\ lease[p].task \in Task => lease[p].left > 0

InTime == \A p \in Proc : InTimeAt(p)

LEMMA NextInTime ==
  ASSUME Timely, MaxClaimDelay < LeaseTime, TypeInv, InTime, [Next]_vars
  PROVE  InTime'
  <1> SUFFICES ASSUME NEW q \in Proc PROVE InTimeAt(q)'
    BY DEF InTime
  <1> USE ProcAssumption, BoundAssumption DEF InTimeAt
  <1>0. /\ pc \in [Proc -> {"idle", "claim", "audit", "leased"}]
        /\ age \in [Proc -> Nat] /\ lease \in [Proc -> LeaseCopy]
        /\ InTimeAt(q)
    BY DEF TypeInv, TypeOK, LeaseCopy, InTime
  <1>1. ASSUME NEW p \in Proc, NEW k \in Key, NEW m \in Mission, NEW prio \in Priority,
               NEW max \in 1..MaxAttempts, SubmitTask(p, k, m, prio, max)
        PROVE  InTimeAt(q)'
    BY <1>0, <1>1 DEF SubmitTask, ThenAudit
  <1>2. ASSUME NEW p \in Proc, Resume(p) PROVE InTimeAt(q)'
    BY <1>0, <1>2 DEF Resume, ThenAudit
  <1>3. ASSUME NEW p \in Proc, ClaimRecover(p) PROVE InTimeAt(q)'
    BY <1>0, <1>3 DEF ClaimRecover
  <1>4. ASSUME NEW p \in Proc, NEW m \in Mission \cup {NULL}, ClaimTake(p, m)
        PROVE  InTimeAt(q)'
    <2>1. PICK t \in First(Due(age[p], m)) :
            lease' = [lease EXCEPT ![p] = [task |-> t, attempt |-> tasks[t].attempts + 1,
                                           left |-> LeaseTime - age[p]]]
      BY <1>4 DEF ClaimTake
    <2>2. pc[p] = "claim" /\ pc' = [pc EXCEPT ![p] = "audit"]
      BY <1>4 DEF ClaimTake, ThenAudit
    <2>3. CASE q = p
      <3>1. LeaseTime - age[p] > 0
        BY <1>0, <2>2, <2>3
      <3>2. lease'[q].left = LeaseTime - age[p]
        BY <1>0, <2>1, <2>3
      <3>3. QED
        BY <1>0, <2>2, <2>3, <3>1, <3>2
    <2>4. CASE q # p
      BY <1>0, <1>4, <2>1, <2>2, <2>4 DEF ClaimTake
    <2>5. QED
      BY <2>3, <2>4
  <1>5. ASSUME NEW p \in Proc, NEW m \in Mission \cup {NULL}, ClaimNone(p, m)
        PROVE  InTimeAt(q)'
    BY <1>0, <1>5 DEF ClaimNone
  <1>6. ASSUME NEW p \in Proc, NEW s \in Settled, NEW a \in OutcomeActions, Finish(p, s, a)
        PROVE  InTimeAt(q)'
    BY <1>0, <1>6 DEF Finish, Drop, NoLease, ThenAudit
  <1>7. ASSUME NEW p \in Proc, NEW d \in 0..RetryDelay, FailTask(p, d)
        PROVE  InTimeAt(q)'
    BY <1>0, <1>7 DEF FailTask, Drop, NoLease, ThenAudit
  <1>8. ASSUME NEW p \in Proc, ReportRefused(p) PROVE InTimeAt(q)'
    BY <1>0, <1>8 DEF ReportRefused, Drop, NoLease
  <1>9. ASSUME NEW p \in Proc, AuditAppend(p) PROVE InTimeAt(q)'
    BY <1>0, <1>9 DEF AuditAppend
  <1>10. ASSUME NEW p \in Proc, Crash(p) PROVE InTimeAt(q)'
    BY <1>0, <1>10 DEF Crash, NoLease
  <1>11. ASSUME Tick PROVE InTimeAt(q)'
    <2>1. pc'[q] = "claim" => age'[q] <= MaxClaimDelay
      BY <1>0, <1>11 DEF Tick
    <2>2. CASE lease[q] = NoLease
      BY <1>0, <1>11, <2>1, <2>2 DEF Tick, NoLease
    <2>3. CASE lease[q] # NoLease
      <3>1. lease[q].left \in Int /\ lease[q].left > 1
        BY <1>0, <1>11, <2>3 DEF Tick, WorkersInTime, LeaseCopy
      <3>2. lease'[q].left = Older(lease[q].left)
        BY <1>0, <1>11, <2>3 DEF Tick, LeaseCopy
      <3>3. Older(lease[q].left) > 0
        BY <3>1 DEF Older
      <3>4. QED
        BY <2>1, <3>2, <3>3
    <2>4. QED
      BY <2>2, <2>3
  <1>12. CASE UNCHANGED vars
    BY <1>0, <1>12 DEF vars
  <1>13. QED
    BY <1>1, <1>2, <1>3, <1>4, <1>5, <1>6, <1>7, <1>8, <1>9, <1>10, <1>11, <1>12
       DEF Next, Call, CompleteTask, BlockTask, Settled, OutcomeActions

LEMMA NextInRun == TypeInv /\ InRun /\ [ExecNext]_allVars => InRun'
  <1> SUFFICES ASSUME TypeInv, InRun, [ExecNext]_allVars PROVE InRun'
    OBVIOUS
  <1> USE DEF InRun
  <1>0. /\ pc \in [Proc -> {"idle", "claim", "audit", "leased"}]
        /\ step \in [Proc -> Steps]
    BY DEF TypeInv, TypeOK
  <1>1. ASSUME NEW p \in Proc, QueueStep(p) PROVE InRun'
    <2>1. pc[p] # "leased" /\ UNCHANGED step /\ \E s \in {"idle", "claim", "audit", "leased"} :
                                pc' = [pc EXCEPT ![p] = s]
      BY <1>1, <1>0 DEF QueueStep, SubmitTask, Resume, ClaimRecover, ClaimTake, ClaimNone,
                        AuditAppend, ThenAudit, execVars
    <2>2. QED
      BY <2>1, <1>0
  <1>2. ASSUME NEW p \in Proc, Leave(p), pc' = [pc EXCEPT ![p] = "idle"]
                                         \/ pc' = [pc EXCEPT ![p] = "audit"]
        PROVE  InRun'
    BY <1>0, <1>2 DEF Leave, Steps
  <1>3. ASSUME NEW p \in Proc, ReportOutcome(p) PROVE InRun'
    <2>1. Leave(p) /\ (pc' = [pc EXCEPT ![p] = "idle"] \/ pc' = [pc EXCEPT ![p] = "audit"])
      BY <1>3 DEF ReportOutcome, CompleteTask, BlockTask, Finish, FailTask, ReportRefused,
                  ThenAudit
    <2>2. QED
      BY <1>2, <2>1
  <1>4. ASSUME NEW p \in Proc, CrashWorker(p) PROVE InRun'
    BY <1>2, <1>4 DEF CrashWorker, Crash
  <1>5. ASSUME NEW p \in Proc, BeginRun(p) PROVE InRun'
    <2>1. pc' = [pc EXCEPT ![p] = "leased"] /\ step' = [step EXCEPT ![p] = "begin"]
      BY <1>5 DEF BeginRun, AuditAppend, Goto
    <2>2. QED
      BY <1>0, <2>1 DEF Steps
  <1>6. ASSUME NEW p \in Proc, NEW s \in Steps, pc[p] = "leased", Goto(p, s), UNCHANGED pc
        PROVE  InRun'
    BY <1>0, <1>6 DEF Goto
  <1>7. ASSUME NEW p \in Proc, RunStep(p) PROVE InRun'
    <2>1. CASE \E s \in {"block", "fail"} : Refuse(p, s)
      BY <1>6, <2>1 DEF Refuse, vars, Steps, Decided
    <2>2. CASE SavePrivileged(p) \/ SaveMaterial(p)
      BY <1>6, <2>2 DEF SavePrivileged, SaveMaterial, SaveCheckpoint, At, vars, Steps
    <2>3. CASE Bind(p) \/ Policy(p) \/ Launch(p)
      BY <1>6, <2>3 DEF Bind, Policy, Launch, At, vars, Steps, Executing, Decided
    <2>4. CASE Write(p) \/ ExitZero(p) \/ ExitNonzero(p)
      BY <1>6, <2>4 DEF Write, ExitZero, ExitNonzero, At, vars, Steps, Executing, Decided
    <2>5. CASE ClearWorkspace(p) \/ CopyBack(p)
      BY <1>6, <2>5 DEF ClearWorkspace, CopyBack, At, vars, Steps, Executing, Decided
    <2>6. QED
      BY <1>3, <1>5, <1>7, <2>1, <2>2, <2>3, <2>4, <2>5 DEF RunStep
  <1>8. CASE UNCHANGED <<pc, step>>
    BY <1>8
  <1>9. QED
    BY <1>1, <1>4, <1>7, <1>8 DEF ExecNext, TransitionMission, Tick, execVars, allVars, vars

\* Workers that finish within the lease they were told, and claims written before
\* the lease they grant is over, execute under that lease: no other worker's process
\* or rollback is ever in the same workspace.
THEOREM TimelyExecution ==
  ASSUME Timely, MaxClaimDelay < LeaseTime
  PROVE  ExecSpec => []ExecutesUnderLease
  <1> DEFINE IInv == TypeInv /\ LeaseInv /\ InTime /\ InRun
  <1>1. ExecInit => IInv
    <2> SUFFICES ASSUME ExecInit PROVE InTime /\ InRun
      BY InitLease DEF ExecInit
    <2> QED
      BY ProcAssumption, BoundAssumption
         DEF ExecInit, Init, NoLease, InTime, InTimeAt, InRun, Steps
  <1>2. IInv /\ [ExecNext]_allVars => IInv'
    <2> SUFFICES ASSUME IInv, [ExecNext]_allVars PROVE IInv'
      OBVIOUS
    <2>1. [Next]_vars
      BY ExecStep, ExecStutter
    <2>2. QED
      BY <2>1, NextType, NextLease, NextInTime, NextInRun
  <1>3. IInv => ExecutesUnderLease
    <2> SUFFICES ASSUME IInv, NEW p \in Proc, step[p] \in Executing
                 PROVE  Owns(p) /\ tasks[lease[p].task].attempts = lease[p].attempt
      BY DEF ExecutesUnderLease
    <2>1. lease[p].task \in Task
      BY DEF InRun, TypeInv, Memory, Executing
    <2>2. QED
      BY <2>1 DEF InTime, InTimeAt, LeaseInv, Held
  <1>4. QED
    BY <1>1, <1>2, <1>3, PTL DEF ExecSpec
-----------------------------------------------------------------------------
(* Types *)

LEMMA MissionStates ==
  \A s \in DOMAIN MISSION_TRANSITIONS :
    MISSION_TRANSITIONS[s] \subseteq DOMAIN MISSION_TRANSITIONS
  BY DEF MISSION_TRANSITIONS

LEMMA InitExec == ExecInit => TypeInv /\ LeaseInv /\ InRun /\ ExecTypeOK
  <1> SUFFICES ASSUME ExecInit PROVE InRun /\ ExecTypeOK
    BY InitLease DEF ExecInit
  <1>1. step \in [Proc -> Steps] /\ \A p \in Proc : step[p] = "none"
    BY DEF ExecInit, Steps
  <1>2. mission \in [Mission -> DOMAIN MISSION_TRANSITIONS]
    BY DEF ExecInit, MISSION_TRANSITIONS
  <1>3. ws \in [Task -> SUBSET Nat]
    <2>1. {0} \in SUBSET Nat
      OBVIOUS
    <2>2. QED
      BY <2>1, Zenon DEF ExecInit
  <1>4. cp \in [Proc -> SUBSET Nat] /\ saved \in [Task -> SUBSET SUBSET Nat]
    BY Zenon DEF ExecInit
  <1>5. seen \in [Proc -> SUBSET Checks]
    BY Zenon DEF ExecInit
  <1>6. QED
    BY <1>1, <1>2, <1>3, <1>4, <1>5 DEF InRun, ExecTypeOK

\* run_once goes on, and a mission active then is seen to be.
LEMMA GotoSeen ==
  ASSUME step \in [Proc -> Steps], seen \in [Proc -> SUBSET Checks], NEW p \in Proc, NEW s,
         Goto(p, s)
  PROVE  /\ seen' \in [Proc -> SUBSET Checks]
         /\ step'[p] = s /\ seen[p] \subseteq seen'[p]
         /\ MayExecute(p) /\ s \in Checks => s \in seen'[p]
         /\ \A q \in Proc \ {p} : step'[q] = step[q] /\ seen'[q] = seen[q]
  <1> DEFINE S == IF MayExecute(p) THEN seen[p] \cup ({s} \cap Checks) ELSE seen[p]
  <1>1. S \in SUBSET Checks /\ seen[p] \subseteq S /\ (MayExecute(p) /\ s \in Checks => s \in S)
    OBVIOUS
  <1>2. seen' = [seen EXCEPT ![p] = S] /\ step' = [step EXCEPT ![p] = s]
    BY DEF Goto
  <1> HIDE DEF S
  <1>3. QED
    BY <1>1, <1>2

LEMMA NextExecType ==
  ASSUME TypeInv, InRun, ExecTypeOK, [ExecNext]_allVars
  PROVE  ExecTypeOK'
  <1> USE DEF ExecTypeOK
  <1>0. step' \in [Proc -> Steps]
    BY NextInRun DEF InRun
  <1>1. ASSUME NEW p \in Proc, Leave(p) PROVE ExecTypeOK'
    <2>1. cp' \in [Proc -> SUBSET Nat]
      BY <1>1, Zenon DEF Leave
    <2>2. seen' \in [Proc -> SUBSET Checks]
      BY <1>1, Zenon DEF Leave
    <2>3. QED
      BY <1>0, <1>1, <2>1, <2>2 DEF Leave
  <1>2. ASSUME NEW p \in Proc, BeginRun(p) PROVE ExecTypeOK'
    BY <1>0, <1>2, GotoSeen DEF BeginRun
  <1>3. ASSUME NEW p \in Proc, NEW s, pc[p] = "leased", SaveCheckpoint(p), Goto(p, s)
        PROVE  ExecTypeOK'
    <2>1. lease[p].task \in Task
      BY <1>3 DEF TypeInv, Memory
    <2>2. ws[lease[p].task] \in SUBSET Nat /\ saved[lease[p].task] \in SUBSET SUBSET Nat
      <3>1. ws[lease[p].task] \in SUBSET Nat
        BY <2>1
      <3>2. saved[lease[p].task] \in SUBSET SUBSET Nat
        BY <2>1
      <3>3. QED
        BY <3>1, <3>2
    <2>3. cp' \in [Proc -> SUBSET Nat]
      BY <1>3, <2>2, Zenon DEF SaveCheckpoint
    <2>4. saved[lease[p].task] \cup {ws[lease[p].task]} \in SUBSET SUBSET Nat
      BY <2>2, Zenon
    <2>5. saved' \in [Task -> SUBSET SUBSET Nat]
      BY <1>3, <2>1, <2>4, Zenon DEF SaveCheckpoint
    <2>6. seen' \in [Proc -> SUBSET Checks]
      BY <1>3, GotoSeen
    <2>7. QED
      BY <1>0, <1>3, <2>3, <2>5, <2>6 DEF SaveCheckpoint
  <1>4. ASSUME NEW p \in Proc, NEW s, NEW S \in SUBSET Nat, Goto(p, s),
               ws' = [ws EXCEPT ![lease[p].task] = S], UNCHANGED <<mission, cp, saved>>
        PROVE  ExecTypeOK'
    <2>1. ws' \in [Task -> SUBSET Nat]
      BY <1>4, Zenon
    <2>2. seen' \in [Proc -> SUBSET Checks]
      BY <1>4, GotoSeen
    <2>3. QED
      BY <1>0, <1>4, <2>1, <2>2
  <1>5. ASSUME NEW p \in Proc, Write(p) PROVE ExecTypeOK'
    <2>1. PICK keep \in SUBSET ws[lease[p].task] :
            ws' = [ws EXCEPT ![lease[p].task] = keep \cup {lease[p].attempt}]
      BY <1>5 DEF Write
    <2>2. pc[p] = "leased" /\ UNCHANGED <<mission, cp, saved>> /\ Goto(p, "wrote")
      BY <1>5 DEF Write, At
    <2>3. lease[p].task \in Task /\ lease[p].attempt \in Nat
      BY <2>2 DEF TypeInv, TypeOK, Memory
    <2>4. keep \cup {lease[p].attempt} \in SUBSET Nat
      <3>1. ws[lease[p].task] \in SUBSET Nat
        BY <2>3
      <3>2. QED
        BY <2>3, <3>1
    <2>5. QED
      BY <1>4, <2>1, <2>2, <2>4
  <1>6. ASSUME NEW p \in Proc, ClearWorkspace(p) PROVE ExecTypeOK'
    <2>1. {} \in SUBSET Nat
      OBVIOUS
    <2>2. QED
      BY <1>4, <1>6, <2>1, Zenon DEF ClearWorkspace, At
  <1>7. ASSUME NEW p \in Proc, CopyBack(p) PROVE ExecTypeOK'
    <2>1. lease[p].task \in Task /\ pc[p] = "leased"
      BY <1>7 DEF CopyBack, At, TypeInv, Memory
    <2>2. ws[lease[p].task] \cup cp[p] \in SUBSET Nat
      <3>1. ws[lease[p].task] \in SUBSET Nat
        BY <2>1
      <3>2. cp[p] \in SUBSET Nat
        OBVIOUS
      <3>3. QED
        BY <3>1, <3>2
    <2>3. ws' = [ws EXCEPT ![lease[p].task] = ws[lease[p].task] \cup cp[p]]
      BY <1>7, Zenon DEF CopyBack
    <2>4. QED
      BY <1>4, <1>7, <2>1, <2>2, <2>3 DEF CopyBack
  <1>8. ASSUME NEW m \in Mission, NEW s \in MISSION_TRANSITIONS[mission[m]],
               TransitionMission(m, s)
        PROVE  ExecTypeOK'
    <2>1. mission' \in [Mission -> DOMAIN MISSION_TRANSITIONS]
      <3> DEFINE D == DOMAIN MISSION_TRANSITIONS
      <3>1. mission[m] \in D /\ MISSION_TRANSITIONS[mission[m]] \subseteq D
        BY MissionStates
      <3>2. s \in D /\ mission \in [Mission -> D] /\ mission' = [mission EXCEPT ![m] = s]
        BY <1>8, <3>1 DEF TransitionMission
      <3> HIDE DEF D
      <3>3. mission' \in [Mission -> D]
        BY <3>2
      <3>4. QED
        BY <3>3 DEF D
    <2>2. seen' \in [Proc -> SUBSET Checks]
      <3>1. ASSUME NEW p \in Proc
            PROVE  /\ seen[p] \in SUBSET Checks
                   /\ step[p] \in Checks => seen[p] \cup {step[p]} \in SUBSET Checks
        OBVIOUS
      <3>2. QED
        BY <1>8, <3>1, Zenon DEF TransitionMission
    <2>3. QED
      BY <1>0, <1>8, <2>1, <2>2 DEF TransitionMission
  <1>9. CASE UNCHANGED <<mission, ws, cp, saved, seen>>
    BY <1>0, <1>9
  <1>12. ASSUME NEW p \in Proc, NEW s, Goto(p, s), UNCHANGED <<mission, ws, cp, saved>>
         PROVE  ExecTypeOK'
    BY <1>0, <1>12, GotoSeen
  <1>10. ASSUME NEW p \in Proc, RunStep(p) PROVE ExecTypeOK'
    <2>1. CASE SavePrivileged(p) \/ SaveMaterial(p)
      BY <1>3, <2>1 DEF SavePrivileged, SaveMaterial, At
    <2>2. CASE (\E s \in {"block", "fail"} : Refuse(p, s)) \/ Policy(p) \/ Launch(p)
      BY <1>12, <2>2 DEF Refuse, Policy, Launch
    <2>3. CASE Bind(p) \/ ExitZero(p) \/ ExitNonzero(p)
      BY <1>12, <2>3 DEF Bind, ExitZero, ExitNonzero
    <2>4. QED
      BY <1>1, <1>2, <1>5, <1>6, <1>7, <1>10, <2>1, <2>2, <2>3 DEF RunStep, ReportOutcome
  <1>11. QED
    BY <1>1, <1>8, <1>9, <1>10 DEF ExecNext, QueueStep, CrashWorker, execVars, allVars

\* The state of the missions, of run_once and of the workspaces keeps its types: a
\* mission never leaves the table of its transitions, run_once never its steps.
THEOREM ExecTypeCorrect == ExecSpec => []ExecTypeOK
  <1> DEFINE IInv == TypeInv /\ InRun /\ ExecTypeOK
  <1>1. ExecInit => IInv
    BY InitExec
  <1>2. IInv /\ [ExecNext]_allVars => IInv'
    BY ExecStep, ExecStutter, NextType, NextInRun, NextExecType
  <1>3. QED
    BY <1>1, <1>2, PTL DEF ExecSpec
-----------------------------------------------------------------------------
(* What a run keeps *)

\* A submitted task has a key and a mission, and a lease is of a submitted task.
Filed == \A t \in Task : tasks[t].state # "ABSENT" =>
           tasks[t].key \in Key /\ tasks[t].mission \in Mission
LiveLeases == \A p \in Proc : lease[p].task \in Task => tasks[lease[p].task].state # "ABSENT"

LEMMA RowKept ==
  ASSUME TypeInv, [Next]_vars, NEW t \in Task, tasks[t].state # "ABSENT"
  PROVE  /\ tasks'[t].state # "ABSENT"
         /\ tasks'[t].key = tasks[t].key
         /\ tasks'[t].mission = tasks[t].mission
  <1>1. RowStep
    BY EveryRowStep
  <1>2. QED
    BY <1>1 DEF RowStep, OnlyRow, Same, Born, TakenBack, HandedOut, Reported, Settled

LEMMA NextFiled ==
  ASSUME TypeInv, Filed, [Next]_vars PROVE Filed'
  <1>1. RowStep
    BY EveryRowStep
  <1>2. QED
    BY <1>1 DEF Filed, RowStep, OnlyRow, Same, Born, TakenBack, HandedOut, Reported

LEMMA NextLive ==
  ASSUME TypeInv, LiveLeases, [Next]_vars PROVE LiveLeases'
  <1> SUFFICES ASSUME NEW q \in Proc, lease'[q].task \in Task
               PROVE  tasks'[lease'[q].task].state # "ABSENT"
    BY DEF LiveLeases
  <1> USE ProcAssumption
  <1>0. tasks \in [Task -> TaskRow] /\ lease \in [Proc -> LeaseCopy]
    BY DEF TypeInv, TypeOK, TaskRow, LeaseCopy
  <1>1. CASE lease'[q].task = lease[q].task
    BY <1>1, RowKept DEF LiveLeases
  <1>2. ASSUME NEW p \in Proc, NEW m \in Mission \cup {NULL}, ClaimTake(p, m), q = p
        PROVE  tasks'[lease'[q].task].state # "ABSENT"
    <2>1. PICK t \in First(Due(age[p], m)) :
            lease' = [lease EXCEPT ![p] = [task |-> t, attempt |-> tasks[t].attempts + 1,
                                           left |-> LeaseTime - age[p]]]
      BY <1>2 DEF ClaimTake
    <2>2. t \in Task /\ tasks[t].state = "QUEUED"
      BY DEF First, Due
    <2>3. lease'[q].task = t
      BY <1>0, <1>2, <2>1
    <2>4. QED
      BY <2>2, <2>3, RowKept
  <1>3. CASE Tick
    <2>1. lease'[q].task = lease[q].task
      BY <1>0, <1>3 DEF Tick, LeaseCopy
    <2>2. QED
      BY <1>1, <2>1
  <1>4. ASSUME NEW p \in Proc, lease' = lease \/ lease' = [lease EXCEPT ![p] = NoLease]
        PROVE  tasks'[lease'[q].task].state # "ABSENT"
    BY <1>0, <1>1, <1>4 DEF NoLease
  <1>5. ASSUME NEW p \in Proc, NEW m \in Mission \cup {NULL}, ClaimTake(p, m), q # p
        PROVE  tasks'[lease'[q].task].state # "ABSENT"
    BY <1>0, <1>1, <1>5 DEF ClaimTake
  <1>6. ASSUME NEW p \in Proc, Call(p) \/ Crash(p)
        PROVE  tasks'[lease'[q].task].state # "ABSENT"
    <2>1. CASE \E m \in Mission \cup {NULL} : ClaimTake(p, m)
      BY <1>2, <1>5, <2>1
    <2>2. CASE ~(\E m \in Mission \cup {NULL} : ClaimTake(p, m))
      <3>1. lease' = lease \/ lease' = [lease EXCEPT ![p] = NoLease]
        BY <1>6, <2>2
           DEF Call, SubmitTask, Resume, ClaimRecover, ClaimNone, CompleteTask, BlockTask,
               Finish, FailTask, ReportRefused, AuditAppend, Crash, Drop
      <3>2. QED
        BY <1>4, <3>1
    <2>3. QED
      BY <2>1, <2>2
  <1>7. CASE UNCHANGED vars
    BY <1>1, <1>7 DEF vars
  <1>8. QED
    BY <1>3, <1>6, <1>7 DEF Next

\* From its first step to its last a run has one lease, of one row whose payload and
\* mission do not change.
LEMMA RunKeeps ==
  ASSUME TypeInv, InRun, LiveLeases, [ExecNext]_allVars, NEW q \in Proc, step'[q] # "none"
  PROVE  /\ lease[q].task \in Task
         /\ lease'[q].task = lease[q].task
         /\ lease'[q].attempt = lease[q].attempt
         /\ tasks'[lease[q].task].key = tasks[lease[q].task].key
         /\ tasks'[lease[q].task].mission = tasks[lease[q].task].mission
         /\ Mode(q)' = Mode(q)
  <1>0. [Next]_vars
    BY ExecStep, ExecStutter
  <1>1. lease \in [Proc -> LeaseCopy] /\ step \in [Proc -> Steps]
    BY DEF TypeInv, TypeOK, LeaseCopy, InRun
  <1>2. lease'[q].task = lease[q].task /\ lease'[q].attempt = lease[q].attempt
    <2>1. ASSUME NEW p \in Proc, QueueStep(p)
          PROVE  lease'[q].task = lease[q].task /\ lease'[q].attempt = lease[q].attempt
      <3>1. pc[p] # "leased" /\ UNCHANGED step
        BY <2>1 DEF QueueStep, SubmitTask, Resume, ClaimRecover, ClaimTake, ClaimNone,
                    AuditAppend, execVars
      <3>2. q # p
        BY <3>1 DEF InRun
      <3>3. lease'[q] = lease[q]
        BY <1>1, <2>1, <3>2 DEF QueueStep, SubmitTask, Resume, ClaimRecover, ClaimTake,
                                ClaimNone, AuditAppend
      <3>4. QED
        BY <3>3
    <2>2. ASSUME NEW p \in Proc, Leave(p), Drop(p) \/ lease' = [lease EXCEPT ![p] = NoLease]
          PROVE  lease'[q].task = lease[q].task /\ lease'[q].attempt = lease[q].attempt
      BY <1>1, <2>2 DEF Leave, Drop
    <2>3. ASSUME NEW p \in Proc, ReportOutcome(p) \/ CrashWorker(p)
          PROVE  lease'[q].task = lease[q].task /\ lease'[q].attempt = lease[q].attempt
      BY <2>2, <2>3 DEF ReportOutcome, CompleteTask, BlockTask, Finish, FailTask,
                        ReportRefused, CrashWorker, Crash
    <2>4. CASE UNCHANGED lease
      BY <2>4
    <2>5. ASSUME NEW p \in Proc, RunStep(p)
          PROVE  lease'[q].task = lease[q].task /\ lease'[q].attempt = lease[q].attempt
      BY <2>3, <2>4, <2>5
         DEF RunStep, BeginRun, AuditAppend, Refuse, SavePrivileged, SaveCheckpoint, Bind,
             SaveMaterial, Policy, Launch, Write, ExitZero, ExitNonzero, ClearWorkspace,
             CopyBack, vars
    <2>6. CASE Tick
      BY <1>1, <2>6 DEF Tick, LeaseCopy
    <2>7. QED
      BY <2>1, <2>3, <2>4, <2>5, <2>6 DEF ExecNext, TransitionMission, allVars, vars
  <1>3. lease[q].task \in Task
    BY <1>0, <1>2, NextType, NextInRun DEF InRun, TypeInv, Memory
  <1>4. QED
    BY <1>0, <1>2, <1>3, RowKept DEF LiveLeases, Mode

\* A step of p leaves the other runs where they are, writes to no workspace but that
\* of its own lease, and deletes no checkpoint.
LEMMA Bystander ==
  ASSUME TypeInv, ExecTypeOK, NEW p \in Proc, QueueStep(p) \/ RunStep(p) \/ CrashWorker(p)
  PROVE  /\ \A q \in Proc \ {p} : step'[q] = step[q] /\ seen'[q] = seen[q] /\ cp'[q] = cp[q]
         /\ \A t \in Task \ {lease[p].task} : ws'[t] = ws[t]
         /\ \A t \in Task : saved[t] \subseteq saved'[t]
         /\ mission' = mission
  <1>0. /\ step \in [Proc -> Steps] /\ seen \in [Proc -> SUBSET Checks]
        /\ cp \in [Proc -> SUBSET Nat] /\ ws \in [Task -> SUBSET Nat]
        /\ saved \in [Task -> SUBSET SUBSET Nat]
    BY DEF ExecTypeOK
  <1> DEFINE Goal == /\ \A q \in Proc \ {p} : step'[q] = step[q] /\ seen'[q] = seen[q]
                                             /\ cp'[q] = cp[q]
                     /\ \A t \in Task \ {lease[p].task} : ws'[t] = ws[t]
                     /\ \A t \in Task : saved[t] \subseteq saved'[t]
                     /\ mission' = mission
  <1>1. CASE QueueStep(p)
    BY <1>1 DEF QueueStep, execVars
  <1>2. CASE Leave(p)
    BY <1>0, <1>2 DEF Leave
  <1>3. CASE BeginRun(p)
    BY <1>0, <1>3, GotoSeen DEF BeginRun
  <1>4. ASSUME NEW s, SaveCheckpoint(p), Goto(p, s) PROVE Goal
    <2>1. \A t \in Task : saved[t] \subseteq saved'[t]
      BY <1>0, <1>4, Zenon DEF SaveCheckpoint
    <2>2. QED
      BY <1>0, <1>4, <2>1, GotoSeen DEF SaveCheckpoint
  <1>5. ASSUME NEW s, Goto(p, s), UNCHANGED <<mission, ws, cp, saved>> PROVE Goal
    BY <1>0, <1>5, GotoSeen
  <1>6. ASSUME NEW s, NEW S, Goto(p, s), ws' = [ws EXCEPT ![lease[p].task] = S],
               UNCHANGED <<mission, cp, saved>>
        PROVE  Goal
    BY <1>0, <1>6, GotoSeen
  <1>7. CASE Write(p) \/ ClearWorkspace(p) \/ CopyBack(p)
    BY <1>6, <1>7 DEF Write, ClearWorkspace, CopyBack
  <1>8. CASE RunStep(p)
    BY <1>2, <1>3, <1>4, <1>5, <1>7, <1>8
       DEF RunStep, Refuse, SavePrivileged, Bind, SaveMaterial, Policy, Launch, ExitZero,
           ExitNonzero, ReportOutcome
  <1>9. QED
    BY <1>1, <1>2, <1>8 DEF CrashWorker
-----------------------------------------------------------------------------
(* The mission gate *)

\* Steps only taken after the first reading of the mission, and after the second.
Permitted == {"permitted"} \cup Executing
Bound == {"bound", "ready"} \cup Permitted

\* An active mission is seen at once, and what a reading let pass was seen.
GateAt(p) ==
  /\ step[p] \in Checks /\ MayExecute(p) => step[p] \in seen[p]
  /\ step[p] \in Bound => Binding(p) \in seen[p]
  /\ step[p] \in Permitted => "ready" \in seen[p]
Gate == \A p \in Proc : GateAt(p)

RunInv == TypeInv /\ InRun /\ ExecTypeOK /\ Filed /\ LiveLeases

LEMMA InitRunInv == ExecInit => RunInv
  BY InitExec, ProcAssumption DEF ExecInit, Init, NoTask, NoLease, RunInv, Filed, LiveLeases

LEMMA NextRunInv == RunInv /\ [ExecNext]_allVars => RunInv'
  BY ExecStep, ExecStutter, NextType, NextInRun, NextExecType, NextFiled, NextLive DEF RunInv

LEMMA NextGate == RunInv /\ Gate /\ [ExecNext]_allVars => Gate'
  <1> SUFFICES ASSUME RunInv, Gate, [ExecNext]_allVars, NEW q \in Proc PROVE GateAt(q)'
    BY DEF Gate
  <1>0. /\ step \in [Proc -> Steps] /\ seen \in [Proc -> SUBSET Checks]
        /\ mission \in [Mission -> DOMAIN MISSION_TRANSITIONS]
        /\ GateAt(q)
    BY DEF RunInv, ExecTypeOK, Gate
  <1>1. CASE step'[q] = "none"
    BY <1>1 DEF GateAt, Checks, Bound, Permitted, Executing
  <1>2. ASSUME step'[q] # "none"
        PROVE  /\ lease[q].task \in Task /\ lease'[q].task = lease[q].task
               /\ tasks'[lease[q].task].mission = tasks[lease[q].task].mission
               /\ tasks[lease[q].task].mission \in Mission
               /\ Binding(q)' = Binding(q)
    BY <1>2, RunKeeps DEF RunInv, Filed, LiveLeases, Binding
  <1>3. ASSUME step'[q] # "none", mission' = mission PROVE MayExecute(q)' <=> MayExecute(q)
    BY <1>2, <1>3 DEF MayExecute, MissionOf
  <1>4. CASE step'[q] # "none" /\ mission' = mission /\ step'[q] = step[q] /\ seen'[q] = seen[q]
    BY <1>0, <1>2, <1>3, <1>4 DEF GateAt
  <1>5. ASSUME NEW p \in Proc, RunStep(p), q = p, step'[q] # "none" PROVE GateAt(q)'
    <2>0. mission' = mission
      BY <1>5, Bystander DEF RunInv
    <2>1. ASSUME NEW s, Goto(p, s),
                 s \in Bound => step[p] \in Bound \/ (step[p] = Binding(p) /\ MayExecute(p)),
                 s \in Permitted => step[p] \in Permitted \/ (step[p] = "ready" /\ MayExecute(p))
          PROVE  GateAt(q)'
      <3>1. /\ step'[p] = s /\ seen[p] \subseteq seen'[p]
            /\ MayExecute(p) /\ s \in Checks => s \in seen'[p]
        BY <1>0, <2>1, GotoSeen
      <3>2. s \in Bound => Binding(p) \in seen[p]
        BY <1>0, <1>5, <2>1 DEF GateAt, Binding, Checks
      <3>3. s \in Permitted => "ready" \in seen[p]
        BY <1>0, <1>5, <2>1 DEF GateAt, Checks
      <3>4. Binding(q)' = Binding(q) /\ (MayExecute(q)' <=> MayExecute(q))
        BY <1>2, <1>3, <1>5, <2>0
      <3>5. QED
        BY <1>5, <3>1, <3>2, <3>3, <3>4 DEF GateAt
    <2>2. CASE BeginRun(p)
      BY <2>1, <2>2 DEF BeginRun, Bound, Permitted, Executing
    <2>3. CASE ReportOutcome(p)
      BY <1>0, <1>5, <2>3 DEF ReportOutcome, Leave
    <2>4. CASE \E s \in {"block", "fail"} : Refuse(p, s)
      BY <2>1, <2>4 DEF Refuse, Bound, Permitted, Executing
    <2>5. CASE SavePrivileged(p) \/ SaveMaterial(p)
      BY <2>1, <2>5 DEF SavePrivileged, SaveMaterial, At, Bound, Permitted, Executing
    <2>6. CASE Bind(p)
      BY <2>1, <2>6 DEF Bind, At, Bound, Permitted, Executing
    <2>7. CASE Policy(p) \/ Launch(p) \/ Write(p)
      BY <2>1, <2>7 DEF Policy, Launch, Write, At, Bound, Permitted, Executing
    <2>8. CASE ExitZero(p) \/ ExitNonzero(p) \/ ClearWorkspace(p) \/ CopyBack(p)
      BY <2>1, <2>8 DEF ExitZero, ExitNonzero, ClearWorkspace, CopyBack, At, Bound, Permitted,
                        Executing
    <2>9. QED
      BY <1>5, <2>2, <2>3, <2>4, <2>5, <2>6, <2>7, <2>8 DEF RunStep
  <1>6. ASSUME NEW p \in Proc, QueueStep(p) \/ CrashWorker(p), q = p, step'[q] # "none"
        PROVE  GateAt(q)'
    <2>1. CASE QueueStep(p)
      BY <1>4, <1>6, <2>1 DEF QueueStep, execVars
    <2>2. CASE CrashWorker(p)
      BY <1>0, <1>6, <2>2 DEF CrashWorker, Leave
    <2>3. QED
      BY <1>6, <2>1, <2>2
  <1>7. ASSUME NEW p \in Proc, QueueStep(p) \/ RunStep(p) \/ CrashWorker(p), q # p,
               step'[q] # "none"
        PROVE  GateAt(q)'
    BY <1>4, <1>7, Bystander DEF RunInv
  <1>8. ASSUME NEW m \in Mission, NEW s \in MISSION_TRANSITIONS[mission[m]],
               TransitionMission(m, s), step'[q] # "none"
        PROVE  GateAt(q)'
    <2> DEFINE n == tasks[lease[q].task].mission
    <2>1. /\ step'[q] = step[q] /\ seen[q] \subseteq seen'[q]
          /\ n = m /\ s \in ACTIVE_EXECUTION_STATES /\ step[q] \in Checks => step[q] \in seen'[q]
      BY <1>0, <1>8 DEF TransitionMission
    <2>2. n = m => mission'[n] = s
      BY <1>0, <1>8 DEF TransitionMission
    <2>3. n # m => mission'[n] = mission[n]
      BY <1>0, <1>2, <1>8 DEF TransitionMission
    <2>4. MayExecute(q)' => \/ MayExecute(q)
                            \/ n = m /\ s \in ACTIVE_EXECUTION_STATES
      BY <1>2, <1>8, <2>2, <2>3 DEF MayExecute, MissionOf
    <2>5. Binding(q)' = Binding(q)
      BY <1>2, <1>8
    <2>6. QED
      BY <1>0, <2>1, <2>4, <2>5 DEF GateAt
  <1>9. CASE UNCHANGED execVars /\ step'[q] # "none"
    BY <1>4, <1>9 DEF execVars
  <1>10. QED
    BY <1>1, <1>5, <1>6, <1>7, <1>8, <1>9 DEF ExecNext, allVars

\* However mission transitions fall between the executor's two readings of the mission, a
\* process runs only if the mission was active at each of them.
THEOREM MissionGated == ExecSpec => []MissionGate
  <1>1. ExecInit => RunInv /\ Gate
    BY InitRunInv DEF ExecInit, Gate, GateAt, Checks, Bound, Permitted, Executing
  <1>2. RunInv /\ Gate => MissionGate
    BY DEF Gate, GateAt, MissionGate, Bound, Permitted
  <1>3. QED
    BY <1>1, <1>2, NextRunInv, NextGate, PTL DEF ExecSpec
-----------------------------------------------------------------------------
(* What was in the workspace first *)

Backed(t) == \E c \in saved[t] : 0 \in c

\* Steps that a run which may write only reaches with a checkpoint made.
Guarded == {"saved", "ready", "permitted"} \cup Executing

OriginalAt(p) ==
  /\ step[p] \in {"saved", "bound", "wrote", "failed", "cleared"} => Mode(p) # "readonly"
  /\ step[p] \in Guarded /\ Mode(p) # "readonly" => Backed(lease[p].task)

OriginalInv == OriginalRecoverable /\ \A p \in Proc : OriginalAt(p)

LEMMA BackedStays ==
  ASSUME NEW t \in Task, Backed(t), saved[t] \subseteq saved'[t] PROVE Backed(t)'
  BY DEF Backed

LEMMA SavedBacks ==
  ASSUME RunInv, OriginalRecoverable, NEW p \in Proc, pc[p] = "leased", SaveCheckpoint(p)
  PROVE  Backed(lease[p].task)'
  <1> DEFINE t == lease[p].task
  <1>1. t \in Task
    BY DEF RunInv, TypeInv, Memory
  <1>2. saved'[t] = saved[t] \cup {ws[t]}
    BY <1>1, Zenon DEF SaveCheckpoint, RunInv, ExecTypeOK
  <1>3. lease'[p].task = lease[p].task
    BY DEF SaveCheckpoint, vars
  <1>4. 0 \in ws[t] \/ \E c \in saved[t] : 0 \in c
    BY <1>1 DEF OriginalRecoverable
  <1> HIDE DEF t
  <1>5. \E c \in saved'[t] : 0 \in c
    BY <1>2, <1>4, Zenon
  <1>6. QED
    BY <1>3, <1>5 DEF t, Backed

LEMMA NextOriginalAt ==
  ASSUME RunInv, OriginalInv, [ExecNext]_allVars, NEW q \in Proc PROVE OriginalAt(q)'
  <1> SUFFICES ASSUME step'[q] # "none" PROVE OriginalAt(q)'
    BY DEF OriginalAt, Guarded, Executing
  <1>0. step \in [Proc -> Steps] /\ OriginalAt(q)
    BY DEF RunInv, ExecTypeOK, OriginalInv
  <1>1. /\ lease[q].task \in Task /\ lease'[q].task = lease[q].task /\ Mode(q)' = Mode(q)
    BY RunKeeps DEF RunInv
  <1>2. Mode(q) \in Modes
    BY <1>1, ModeAssumption DEF Mode, RunInv, Filed, LiveLeases
  <1>3. CASE step'[q] = step[q] /\ saved[lease[q].task] \subseteq saved'[lease[q].task]
    <2>1. Backed(lease[q].task) => Backed(lease[q].task)'
      BY <1>1, <1>3, BackedStays DEF Backed
    <2>2. QED
      BY <1>0, <1>1, <1>3, <2>1 DEF OriginalAt
  <1>4. ASSUME NEW p \in Proc, RunStep(p), q = p PROVE OriginalAt(q)'
    <2>1. Backed(lease[q].task) => Backed(lease[q].task)'
      BY <1>1, <1>4, Bystander, BackedStays DEF RunInv, Backed
    <2>2. CASE BeginRun(p)
      <3>1. step'[p] = "begin"
        BY <1>0, <2>2 DEF BeginRun, Goto
      <3>2. QED
        BY <1>4, <3>1 DEF OriginalAt, Guarded, Executing
    <2>3. CASE ReportOutcome(p)
      BY <1>0, <1>4, <2>3 DEF ReportOutcome, Leave
    <2>4. CASE SavePrivileged(p) \/ SaveMaterial(p)
      <3>1. Backed(lease[q].task)'
        BY <1>4, <2>4, SavedBacks DEF OriginalInv, SavePrivileged, SaveMaterial, At
      <3>2. Mode(q) # "readonly"
        BY <1>0, <1>4, <2>4 DEF OriginalAt, SavePrivileged, SaveMaterial, At
      <3>3. QED
        BY <1>1, <3>1, <3>2 DEF OriginalAt
    <2>5. ASSUME NEW s, Goto(p, s),
                 s \in {"saved", "bound", "wrote", "failed", "cleared"} => Mode(p) # "readonly",
                 s \in Guarded /\ Mode(p) # "readonly" => step[p] \in Guarded
          PROVE  OriginalAt(q)'
      <3>1. step'[p] = s
        BY <1>0, <2>5 DEF Goto
      <3>2. QED
        BY <1>0, <1>1, <1>4, <2>1, <2>5, <3>1 DEF OriginalAt
    <2>6. CASE \E s \in {"block", "fail"} : Refuse(p, s)
      BY <2>5, <2>6 DEF Refuse, Guarded, Executing
    <2>7. CASE Bind(p)
      <3>1. CASE ~MayExecute(p)
        BY <2>5, <2>7, <3>1 DEF Bind, Guarded, Executing
      <3>2. CASE MayExecute(p) /\ Mode(p) = "material"
        BY <2>5, <2>7, <3>2 DEF Bind, Guarded, Executing
      <3>3. CASE MayExecute(p) /\ Mode(p) = "readonly"
        BY <2>5, <2>7, <3>3 DEF Bind, Guarded, Executing
      <3>4. CASE MayExecute(p) /\ Mode(p) = "privileged"
        BY <2>5, <2>7, <3>4 DEF Bind, Binding, At, Guarded, Executing
      <3>5. QED
        BY <1>2, <1>4, <3>1, <3>2, <3>3, <3>4 DEF Modes
    <2>8. CASE Policy(p) \/ Launch(p) \/ Write(p)
      BY <2>5, <2>8 DEF Policy, Launch, Write, At, Guarded, Executing
    <2>9. CASE ExitZero(p) \/ ExitNonzero(p)
      BY <2>5, <2>9 DEF ExitZero, ExitNonzero, At, Guarded, Executing
    <2>10. CASE ClearWorkspace(p) \/ CopyBack(p)
      BY <1>0, <1>4, <2>5, <2>10 DEF ClearWorkspace, CopyBack, At, OriginalAt, Guarded, Executing
    <2>11. QED
      BY <1>4, <2>2, <2>3, <2>4, <2>6, <2>7, <2>8, <2>9, <2>10 DEF RunStep
  <1>5. ASSUME NEW p \in Proc, QueueStep(p) \/ RunStep(p) \/ CrashWorker(p), q # p
        PROVE  OriginalAt(q)'
    BY <1>1, <1>3, <1>5, Bystander DEF RunInv
  <1>6. ASSUME NEW p \in Proc, CrashWorker(p), q = p PROVE OriginalAt(q)'
    BY <1>0, <1>6 DEF CrashWorker, Leave
  <1>7. ASSUME NEW p \in Proc, QueueStep(p) PROVE UNCHANGED <<step, saved>>
    BY <1>7 DEF QueueStep, execVars
  <1>8. CASE UNCHANGED <<step, saved>>
    BY <1>3, <1>8
  <1>9. QED
    BY <1>4, <1>5, <1>6, <1>7, <1>8 DEF ExecNext, TransitionMission, execVars, allVars

LEMMA NextOriginal == RunInv /\ OriginalInv /\ [ExecNext]_allVars => OriginalInv'
  <1> SUFFICES ASSUME RunInv, OriginalInv, [ExecNext]_allVars, NEW t \in Task
               PROVE  (0 \in ws[t] \/ Backed(t))'
    BY NextOriginalAt DEF OriginalInv, OriginalRecoverable, Backed
  <1>0. ws \in [Task -> SUBSET Nat] /\ (0 \in ws[t] \/ Backed(t))
    BY DEF RunInv, ExecTypeOK, OriginalInv, OriginalRecoverable, Backed
  <1>1. CASE (0 \in ws[t] => 0 \in ws'[t]) /\ saved[t] \subseteq saved'[t]
    BY <1>0, <1>1, BackedStays DEF Backed
  <1>2. ASSUME NEW p \in Proc, QueueStep(p) \/ RunStep(p) \/ CrashWorker(p)
        PROVE  (0 \in ws[t] \/ Backed(t))'
    <2>0. saved[t] \subseteq saved'[t]
      BY <1>2, Bystander DEF RunInv
    <2>1. CASE ws'[t] = ws[t]
      BY <1>1, <2>0, <2>1
    <2>2. CASE t = lease[p].task /\ (Write(p) \/ ClearWorkspace(p))
      <3>1. Backed(t)
        BY <2>2 DEF OriginalInv, OriginalAt, Write, ClearWorkspace, At, Guarded, Executing
      <3>2. QED
        BY <2>0, <3>1, BackedStays DEF Backed
    <2>3. CASE t = lease[p].task /\ CopyBack(p)
      <3>1. ws'[t] = ws[t] \cup cp[p]
        BY <1>0, <2>3, Zenon DEF CopyBack
      <3>2. QED
        BY <1>1, <2>0, <3>1
    <2>4. CASE t # lease[p].task
      BY <1>2, <2>1, <2>4, Bystander DEF RunInv
    <2>5. CASE UNCHANGED ws
      BY <2>1, <2>5
    <2>6. QED
      BY <1>2, <2>2, <2>3, <2>4, <2>5
         DEF QueueStep, execVars, CrashWorker, Leave, RunStep, BeginRun, Refuse, SavePrivileged,
             SaveCheckpoint, Bind, SaveMaterial, Policy, Launch, ExitZero, ExitNonzero,
             ReportOutcome
  <1>3. CASE UNCHANGED <<ws, saved>>
    BY <1>1, <1>3
  <1>4. QED
    BY <1>2, <1>3 DEF ExecNext, TransitionMission, execVars, allVars

\* What was in a workspace before the first run is in it or in a checkpoint of its
\* task, however slow the workers are and wherever a run or its rollback is cut short.
THEOREM OriginalIsRecoverable == ExecSpec => []OriginalRecoverable
  <1>1. ExecInit => RunInv /\ OriginalInv
    BY InitRunInv DEF ExecInit, OriginalInv, OriginalAt, OriginalRecoverable, Guarded, Executing
  <1>2. OriginalInv => OriginalRecoverable
    BY DEF OriginalInv
  <1>3. QED
    BY <1>1, <1>2, NextRunInv, NextOriginal, PTL DEF ExecSpec
-----------------------------------------------------------------------------
(* Rollback and completed work, with executors that finish within their lease *)

TimelyInv == RunInv /\ LeaseInv /\ InTime

LEMMA InitTimely == ExecInit => TimelyInv
  <1> SUFFICES ASSUME ExecInit PROVE InTime
    BY InitExec, InitRunInv DEF TimelyInv
  <1> QED
    BY ProcAssumption, BoundAssumption DEF ExecInit, Init, NoLease, InTime, InTimeAt

LEMMA NextTimely ==
  ASSUME Timely, MaxClaimDelay < LeaseTime, TimelyInv, [ExecNext]_allVars
  PROVE  TimelyInv'
  BY ExecStep, ExecStutter, NextRunInv, NextLease, NextInTime DEF TimelyInv, RunInv

LEMMA RunOwns ==
  ASSUME TimelyInv, NEW p \in Proc, step[p] # "none"
  PROVE  /\ lease[p].task \in Task
         /\ Owns(p)
         /\ tasks[lease[p].task].attempts = lease[p].attempt
  <1>1. lease[p].task \in Task
    BY DEF TimelyInv, RunInv, InRun, TypeInv, Memory
  <1>2. QED
    BY <1>1 DEF TimelyInv, InTime, InTimeAt, LeaseInv, Held

\* No two runs are of one task.
LEMMA SoleRun ==
  ASSUME TimelyInv, NEW p \in Proc, NEW q \in Proc, step[p] # "none", step[q] # "none",
         lease[p].task = lease[q].task
  PROVE  p = q
  <1>1. Owns(p) /\ Owns(q)
    BY RunOwns
  <1>2. QED
    BY <1>1, DistinctWorkers DEF Owns

\* Only a run writes to a workspace.
LEMMA OnlyRunsWrite ==
  ASSUME RunInv, NEW p \in Proc, QueueStep(p) \/ RunStep(p) \/ CrashWorker(p),
         NEW t \in Task, ws'[t] # ws[t]
  PROVE  t = lease[p].task /\ step[p] # "none"
  <1>1. t = lease[p].task
    BY Bystander DEF RunInv
  <1>2. Write(p) \/ ClearWorkspace(p) \/ CopyBack(p)
    BY DEF QueueStep, execVars, CrashWorker, Leave, RunStep, BeginRun, Refuse, SavePrivileged,
           SaveCheckpoint, Bind, SaveMaterial, Policy, Launch, ExitZero, ExitNonzero,
           ReportOutcome
  <1>3. QED
    BY <1>1, <1>2 DEF Write, ClearWorkspace, CopyBack, At

WorkAt(p) ==
  /\ step[p] = "cleared" => ws[lease[p].task] = {}
  /\ step[p] = "undone" => ws[lease[p].task] = cp[p]
  /\ step[p] \in {"wrote", "complete"} /\ Mode(p) # "readonly" =>
       lease[p].attempt \in ws[lease[p].task]
Work == \A p \in Proc : WorkAt(p)

LEMMA NextWork ==
  TimelyInv /\ Work /\ [ExecNext]_allVars => Work'
  <1> SUFFICES ASSUME TimelyInv, Work, [ExecNext]_allVars, NEW q \in Proc, step'[q] # "none"
               PROVE  WorkAt(q)'
    BY DEF Work, WorkAt
  <1> DEFINE t == lease[q].task
  <1>0. /\ step \in [Proc -> Steps] /\ ws \in [Task -> SUBSET Nat]
        /\ cp \in [Proc -> SUBSET Nat] /\ WorkAt(q)
    BY DEF TimelyInv, RunInv, ExecTypeOK, Work
  <1>1. /\ t \in Task /\ lease'[q].task = t
        /\ lease'[q].attempt = lease[q].attempt /\ Mode(q)' = Mode(q)
    BY RunKeeps DEF TimelyInv, RunInv
  <1>2. CASE step'[q] = step[q] /\ ws'[t] = ws[t] /\ cp'[q] = cp[q]
    BY <1>0, <1>1, <1>2 DEF WorkAt
  <1>3. ASSUME NEW p \in Proc, QueueStep(p) \/ RunStep(p) \/ CrashWorker(p), q # p
        PROVE  WorkAt(q)'
    <2>1. step'[q] = step[q] /\ cp'[q] = cp[q]
      BY <1>3, Bystander DEF TimelyInv, RunInv
    <2>2. ws'[t] = ws[t]
      <3> SUFFICES ASSUME ws'[t] # ws[t] PROVE FALSE
        OBVIOUS
      <3>1. t = lease[p].task /\ step[p] # "none"
        BY <1>1, <1>3, OnlyRunsWrite DEF TimelyInv
      <3>2. QED
        BY <1>3, <2>1, <3>1, SoleRun
    <2>3. QED
      BY <1>2, <2>1, <2>2
  <1>4. ASSUME NEW p \in Proc, RunStep(p), q = p PROVE WorkAt(q)'
    <2>1. CASE BeginRun(p)
      <3>1. step'[p] = "begin"
        BY <1>0, <2>1 DEF BeginRun, Goto
      <3>2. QED
        BY <1>4, <3>1 DEF WorkAt
    <2>2. CASE ReportOutcome(p)
      BY <1>0, <1>4, <2>2 DEF ReportOutcome, Leave
    <2>3. ASSUME NEW s, Goto(p, s),
                 s \notin {"wrote", "complete", "cleared", "undone"}
          PROVE  WorkAt(q)'
      <3>1. step'[p] = s
        BY <1>0, <2>3 DEF Goto
      <3>2. QED
        BY <1>4, <2>3, <3>1 DEF WorkAt
    <2>4. CASE \/ \E s \in {"block", "fail"} : Refuse(p, s)
               \/ SavePrivileged(p) \/ SaveMaterial(p) \/ Bind(p)
               \/ Policy(p) \/ Launch(p) \/ ExitNonzero(p)
      BY <2>3, <2>4 DEF Refuse, SavePrivileged, SaveMaterial, Bind, Policy, Launch, ExitNonzero
    <2>5. CASE Write(p)
      <3>1. PICK keep \in SUBSET ws[t] : ws' = [ws EXCEPT ![t] = keep \cup {lease[p].attempt}]
        BY <1>4, <2>5 DEF Write
      <3>2. ws'[t] = keep \cup {lease[p].attempt}
        BY <1>0, <1>1, <3>1
      <3>3. step'[p] = "wrote"
        BY <1>0, <2>5 DEF Write, Goto
      <3>4. QED
        BY <1>1, <1>4, <3>2, <3>3 DEF WorkAt
    <2>6. CASE ExitZero(p)
      <3>1. step'[p] = "complete" /\ ws' = ws
        BY <1>0, <2>6 DEF ExitZero, Goto
      <3>2. QED
        BY <1>0, <1>1, <1>4, <2>6, <3>1 DEF ExitZero, At, WorkAt
    <2>7. CASE ClearWorkspace(p)
      <3>1. step'[p] = "cleared" /\ ws'[t] = {}
        BY <1>0, <1>1, <1>4, <2>7 DEF ClearWorkspace, Goto
      <3>2. QED
        BY <1>1, <1>4, <3>1 DEF WorkAt
    <2>8. CASE CopyBack(p)
      <3>1. step'[p] = "undone" /\ cp' = cp /\ step[p] = "cleared"
        BY <1>0, <2>8 DEF CopyBack, Goto, At
      <3>2. ws'[t] = ws[t] \cup cp[p] /\ ws[t] = {}
        BY <1>0, <1>1, <1>4, <2>8, <3>1 DEF CopyBack, WorkAt
      <3>3. QED
        BY <1>1, <1>4, <3>1, <3>2 DEF WorkAt
    <2>9. QED
      BY <1>4, <2>1, <2>2, <2>4, <2>5, <2>6, <2>7, <2>8 DEF RunStep
  <1>5. ASSUME NEW p \in Proc, CrashWorker(p), q = p PROVE WorkAt(q)'
    BY <1>0, <1>5 DEF CrashWorker, Leave
  <1>6. ASSUME NEW p \in Proc, QueueStep(p) PROVE UNCHANGED <<step, ws, cp>>
    BY <1>6 DEF QueueStep, execVars
  <1>7. CASE UNCHANGED <<step, ws, cp>>
    BY <1>2, <1>7
  <1>8. QED
    BY <1>3, <1>4, <1>5, <1>6, <1>7 DEF ExecNext, TransitionMission, execVars, allVars

\* With executors that finish within their lease, a rollback leaves the workspace as
\* the checkpoint of its own run has it: nobody wrote while it was under way.
THEOREM RollbackIsExact ==
  ASSUME Timely, MaxClaimDelay < LeaseTime
  PROVE  ExecSpec => []RollbackExact
  <1>1. ExecInit => TimelyInv /\ Work
    BY InitTimely DEF ExecInit, Work, WorkAt
  <1>2. TimelyInv /\ Work /\ [ExecNext]_allVars => (TimelyInv /\ Work)'
    BY NextTimely, NextWork
  <1>3. Work => RollbackExact
    BY DEF Work, WorkAt, RollbackExact
  <1>4. QED
    BY <1>1, <1>2, <1>3, PTL DEF ExecSpec

LEMMA ReportsAreRuns ==
  ASSUME TypeInv, [ExecNext]_allVars, NEW p \in Proc, pc[p] = "leased", pc'[p] = "audit"
  PROVE  ReportOutcome(p)
  <1>0. pc \in [Proc -> {"idle", "claim", "audit", "leased"}]
    BY DEF TypeInv, TypeOK
  <1>1. ASSUME NEW q \in Proc, QueueStep(q) PROVE FALSE
    <2>1. pc[q] # "leased" /\ \E s : pc' = [pc EXCEPT ![q] = s]
      BY <1>1 DEF QueueStep, SubmitTask, Resume, ClaimRecover, ClaimTake, ClaimNone,
                  AuditAppend, ThenAudit
    <2>2. QED
      BY <1>0, <2>1
  <1>2. ASSUME NEW q \in Proc, CrashWorker(q) PROVE FALSE
    BY <1>0, <1>2 DEF CrashWorker, Crash
  <1>3. ASSUME NEW q \in Proc, BeginRun(q) PROVE FALSE
    BY <1>0, <1>3 DEF BeginRun, AuditAppend
  <1>4. ASSUME NEW q \in Proc, ReportOutcome(q) PROVE q = p
    <2>1. \E s : pc' = [pc EXCEPT ![q] = s]
      BY <1>4 DEF ReportOutcome, CompleteTask, BlockTask, Finish, FailTask, ReportRefused,
                  ThenAudit
    <2>2. QED
      BY <1>0, <2>1
  <1>5. CASE UNCHANGED pc
    BY <1>5
  <1>6. ASSUME NEW q \in Proc, RunStep(q), ~ReportOutcome(q), ~BeginRun(q) PROVE UNCHANGED pc
    BY <1>6
       DEF RunStep, Refuse, SavePrivileged, SaveCheckpoint, Bind, SaveMaterial, Policy, Launch,
           Write, ExitZero, ExitNonzero, ClearWorkspace, CopyBack, vars
  <1>7. QED
    BY <1>1, <1>2, <1>3, <1>4, <1>5, <1>6 DEF ExecNext, TransitionMission, Tick, allVars, vars

LEMMA NextCompleted ==
  ASSUME TimelyInv, Work, CompletedWorkStays, [ExecNext]_allVars
  PROVE  CompletedWorkStays'
  <1> SUFFICES ASSUME NEW t \in Task, tasks'[t].state = "COMPLETED",
                      ModeOf[tasks'[t].key] # "readonly"
               PROVE  tasks'[t].attempts \in ws'[t]
    BY DEF CompletedWorkStays
  <1>0. /\ [Next]_vars /\ TypeInv /\ LeaseInv /\ RunInv
        /\ tasks \in [Task -> TaskRow]
    BY ExecStep, ExecStutter DEF TimelyInv, RunInv, TypeInv, TypeOK, TaskRow
  <1>1. RowStep
    BY <1>0, EveryRowStep
  <1>2. CASE tasks[t].state = "COMPLETED"
    <2>1. Same(t)
      BY <1>1, <1>2 DEF RowStep, OnlyRow, Born, TakenBack, HandedOut, Reported
    <2>2. ws'[t] = ws[t]
      <3>1. ASSUME NEW p \in Proc, QueueStep(p) \/ RunStep(p) \/ CrashWorker(p)
            PROVE  ws'[t] = ws[t]
        <4> SUFFICES ASSUME ws'[t] # ws[t] PROVE FALSE
          OBVIOUS
        <4>1. t = lease[p].task /\ step[p] # "none"
          BY <1>0, <3>1, OnlyRunsWrite
        <4>2. QED
          BY <1>2, <4>1, RunOwns DEF Owns
      <3>2. CASE UNCHANGED ws
        BY <3>2
      <3>3. QED
        BY <3>1, <3>2 DEF ExecNext, TransitionMission, execVars, allVars
    <2>3. QED
      BY <1>2, <2>1, <2>2 DEF Same, CompletedWorkStays
  <1>3. CASE tasks[t].state # "COMPLETED"
    <2>1. Reported(t, "COMPLETED")
      BY <1>1, <1>3 DEF RowStep, OnlyRow, Same, Born, TakenBack, HandedOut, Reported
    <2>2. PICK p \in Proc : /\ pc[p] = "leased" /\ pc'[p] = "audit"
                            /\ lease[p].task = t
                            /\ lease[p].attempt = tasks[t].attempts
      BY <1>0, <2>1, NextFenced DEF FencedEnd, Reported
    <2>3. ReportOutcome(p)
      BY <1>0, <2>2, ReportsAreRuns
    <2>4. tasks[t] \in TaskRow /\ tasks[t].next_left \in Int
      BY <1>0 DEF TaskRow
    <2>5. ~BlockTask(p)
      <3>1. "BLOCKED" \in TaskState
        BY DEF TaskState, Settled
      <3>2. Released(tasks[t], "BLOCKED", tasks[t].next_left).state = "BLOCKED"
        BY <2>4, <3>1, ReleasedRow
      <3>3. BlockTask(p) => tasks'[t] = Released(tasks[t], "BLOCKED", tasks[t].next_left)
        BY <1>0, <2>2 DEF BlockTask, Finish
      <3>4. QED
        BY <3>2, <3>3
    <2>6. ~FailTask(p, 0)
      <3>1. "QUEUED" \in TaskState /\ "FAILED" \in TaskState /\ 0 \in Int
        BY DEF TaskState, Settled
      <3>2. /\ Released(tasks[t], "QUEUED", 0).state = "QUEUED"
            /\ Released(tasks[t], "FAILED", 0).state = "FAILED"
        BY <2>4, <3>1, ReleasedRow
      <3>3. FailTask(p, 0) => \/ tasks'[t] = Released(tasks[t], "QUEUED", 0)
                              \/ tasks'[t] = Released(tasks[t], "FAILED", 0)
        BY <1>0, <2>2 DEF FailTask
      <3>4. QED
        BY <3>2, <3>3
    <2>7. step[p] = "complete" /\ UNCHANGED ws
      BY <1>3, <2>3, <2>5, <2>6 DEF ReportOutcome, ReportRefused, Leave
    <2>8. QED
      BY <2>1, <2>2, <2>7 DEF Reported, Work, WorkAt, Mode
  <1>4. QED
    BY <1>2, <1>3

\* With executors that finish within their lease, the work of the attempt that
\* completed a task stays in its workspace for good.
THEOREM CompletedWorkIsKept ==
  ASSUME Timely, MaxClaimDelay < LeaseTime
  PROVE  ExecSpec => []CompletedWorkStays
  <1> DEFINE IInv == TimelyInv /\ Work /\ CompletedWorkStays
  <1>1. ExecInit => IInv
    BY InitTimely DEF ExecInit, Init, NoTask, Work, WorkAt, CompletedWorkStays
  <1>2. IInv /\ [ExecNext]_allVars => IInv'
    BY NextTimely, NextWork, NextCompleted
  <1>3. QED
    BY <1>1, <1>2, PTL DEF ExecSpec
=============================================================================
