---------------------------- MODULE ControlProofs ----------------------------
(***************************************************************************)
(* Proofs about corrections and operator commands on one task table, for   *)
(* any number of corrections, commands, executors and pieces of evidence.  *)
(***************************************************************************)
EXTENDS OperatorDispatch, TLAPS

USE CorrectionAssumption, CommandAssumption

\* A task is run exactly while it is RUNNING, and held only then.
Running ==
  \A t \in Task :
    /\ status[t] = "RUNNING" <=> run[t] # "none"
    /\ holder[t] # NULL => status[t] = "RUNNING"

Linked(c) == correction[c] \notin {"NONE", "PLANNED"}

\* What the controller and the executors know of the correction they are at.
Placed ==
  /\ ctl # "idle" => cur \in Correction
  /\ ctl \in {"submitted", "saved"} => correction[cur] = "PLANNED"
  /\ ctl \in {"passed", "failed", "restored"} => Linked(cur)
  /\ ctl = "saved" => saved[cur] \in Contents
  /\ \A c \in Correction :
       /\ c \in held => Linked(c)
       /\ Linked(c) => saved[c] \in Contents
       /\ run[c] \in {"ready", "wrote"} => own[c] \in Contents

TypeInv == CtlTypeOK /\ Running /\ Placed

InPlace(c) == status[c] = "COMPLETED" /\ (content[c] = "fixed" \/ c \in undone)

\* A passing result stands until a rollback takes note of it.
Effective ==
  /\ ctl = "passed" => status[cur] = "COMPLETED" /\ content[cur] = "fixed"
  /\ \A c \in Correction : c \in held \/ correction[c] = "ACCEPTED" => InPlace(c)

Back(c) == c \in hasty \/ (status[c] \in Settled /\ content[c] = saved[c])

\* Before the row is linked no executor has been at an untimely claimed workspace.
Original ==
  \A c \in Correction :
    /\ correction[c] = "NONE" => status[c] = "ABSENT"
    /\ c \notin early /\ ~Linked(c) => status[c] \in {"ABSENT", "QUEUED"} /\ content[c] = "found"
    /\ c \notin early => saved[c] \in {"none", "found"}

RolledBack ==
  /\ ctl = "restored" => Back(cur)
  /\ \A c \in Correction : correction[c] = "ROLLED_BACK" => Back(c)

\* The dispatcher's part, row by row.
Row(k) ==
  /\ k \in entering => command[k] = "NONE"
  /\ run[k] = "dispatched" =>
       k \in Registered /\ status[ChildOf[k]] # "ABSENT" /\ command[k] = "QUEUED"
  /\ closing = k => /\ command[k] = "QUEUED"
                    /\ \/ status[k] = "COMPLETED"
                       \/ status[k] = "BLOCKED" /\ k \notin Registered
  /\ status[k] \in Settled /\ closing # k /\ command[k] \in {"NONE", "QUEUED"} => stranded[k] # {}

Rows == \A k \in Command : Row(k)

Inv == /\ TypeInv /\ Effective /\ Original /\ RolledBack /\ ResolvedBacked
       /\ Rows /\ CommandsAgree
-----------------------------------------------------------------------------

LEMMA DiagTypeStep ==
  ASSUME DiagTypeOK, DiagNext PROVE DiagTypeOK'
<1> USE DEF DiagTypeOK, ACTIVE_INCIDENT_STATES
<1>1. ASSUME NEW cut \in BOOLEAN, AttachSignal(cut) PROVE DiagTypeOK'
  BY <1>1 DEF AttachSignal, evidenceVars
<1>2. ASSUME NEW h \in Hypothesis, NEW cut \in BOOLEAN, ConfirmRootCause(h, cut)
      PROVE  DiagTypeOK'
  BY <1>2 DEF ConfirmRootCause
<1>3. ASSUME NEW h \in Hypothesis, AddHypothesis(h) PROVE DiagTypeOK'
  BY <1>3 DEF AddHypothesis
<1>4. ASSUME NEW h \in Hypothesis, NEW e \in Evidence, NEW p \in Polarity,
             NEW w \in Weights[p], NEW cut \in BOOLEAN, LinkEvidence(h, e, p, w, cut)
      PROVE  DiagTypeOK'
  <2>0. w \in Nat
    OBVIOUS
  <2>1. weight' \in [Hypothesis -> [Polarity -> [Evidence -> Nat]]]
    BY <1>4, <2>0 DEF LinkEvidence
  <2>2. \A x, y : Standing(x, y) \in {"ACTIVE", "SUPPORTED", "REFUTED"}
    BY DEF Standing
  <2>3. hyp' \in [Hypothesis -> {"NONE", "ACTIVE", "SUPPORTED", "REFUTED", "ROOT_CAUSE"}]
    <3>1. Balance(h)' \in {"ACTIVE", "SUPPORTED", "REFUTED"}
      BY <2>2 DEF Balance
    <3>2. CASE hyp' = [hyp EXCEPT ![h] = Balance(h)']
      BY <3>1, <3>2
    <3> QED BY <1>4, <3>2 DEF LinkEvidence
  <2>4. torn' \subseteq Hypothesis
    BY <1>4 DEF LinkEvidence
  <2>5. /\ revised' = revised \cup {h} /\ findings' = findings + 1
        /\ UNCHANGED <<incident, root, tests>>
    BY <1>4 DEF LinkEvidence
  <2> QED
    BY <2>1, <2>3, <2>4, <2>5
<1>5. ASSUME NEW h \in Hypothesis, NEW outcome \in {"positive", "refuted"},
             RecordAttempt(h, outcome)
      PROVE  DiagTypeOK'
  BY <1>5 DEF RecordAttempt
<1> QED
  BY <1>1, <1>2, <1>3, <1>4, <1>5 DEF DiagNext

LEMMA TypeStep == TypeInv /\ CtlNext => CtlTypeOK'
<1> SUFFICES ASSUME TypeInv, CtlNext PROVE CtlTypeOK'
  OBVIOUS
<1> USE DEF TypeInv, CtlTypeOK, RemTypeOK, Contents, Status, Settled, Placed, Child,
   Linked, OpStep, opVars, absVars, remVars, diagVars, evidenceVars
<1>1. CASE Diagnose /\ UNCHANGED opVars
  <2>1. DiagTypeOK'
    BY <1>1, DiagTypeStep DEF Diagnose
  <2> QED
    BY <1>1, <2>1 DEF Diagnose
<1>2. ASSUME NEW c \in Correction, Plan(c), UNCHANGED opVars PROVE CtlTypeOK'
  <2>1. DiagTypeOK'
    BY <1>2 DEF Plan, SetState, DiagTypeOK, ACTIVE_INCIDENT_STATES
  <2> QED
    BY <1>2, <2>1 DEF Plan, SetState
<1>3. ASSUME NEW c \in Correction, LabSubmit(c), UNCHANGED opVars PROVE CtlTypeOK'
  <2>1. DiagTypeOK'
    BY <1>3 DEF LabSubmit, Submit, Enqueue, absVars, DiagTypeOK,
       ACTIVE_INCIDENT_STATES
  <2> QED
    BY <1>3, <2>1 DEF LabSubmit, Submit, Enqueue, absVars
<1>4. CASE LabSave /\ UNCHANGED opVars
  <2>1. DiagTypeOK'
    BY <1>4 DEF LabSave, DiagTypeOK, ACTIVE_INCIDENT_STATES
  <2> QED
    BY <1>4, <2>1 DEF LabSave
<1>5. ASSUME NEW cut \in BOOLEAN, LabLink(cut), UNCHANGED opVars PROVE CtlTypeOK'
  <2>1. DiagTypeOK'
    BY <1>5 DEF LabLink, SetState, Return, DiagTypeOK, ACTIVE_INCIDENT_STATES
  <2> QED
    BY <1>5, <2>1 DEF LabLink, SetState, Return
<1>6. ASSUME NEW c \in Correction, Judge(c), UNCHANGED opVars PROVE CtlTypeOK'
  <2>1. DiagTypeOK'
    BY <1>6 DEF Judge, Passes, DiagTypeOK, ACTIVE_INCIDENT_STATES
  <2> QED
    BY <1>6, <2>1 DEF Judge, Passes
<1>7. CASE Restore /\ UNCHANGED opVars
  <2>1. DiagTypeOK'
    BY <1>7 DEF Restore, DiagTypeOK, ACTIVE_INCIDENT_STATES
  <2> QED
    BY <1>7, <2>1 DEF Restore
<1>8. ASSUME NEW cut \in BOOLEAN, Conclude(cut), UNCHANGED opVars PROVE CtlTypeOK'
  <2>1. DiagTypeOK'
    BY <1>8 DEF Conclude, SetState, Return, DiagTypeOK, ACTIVE_INCIDENT_STATES
  <2> QED
    BY <1>8, <2>1 DEF Conclude, SetState, Return
<1>9. ASSUME NEW c \in Correction, NEW cut \in BOOLEAN, FinalizeIncident(c, cut),
   UNCHANGED opVars
      PROVE  CtlTypeOK'
  <2>1. DiagTypeOK'
    BY <1>9 DEF FinalizeIncident, SetState, DiagTypeOK, ACTIVE_INCIDENT_STATES
  <2> QED
    BY <1>9, <2>1 DEF FinalizeIncident, SetState
<1>10. CASE CrashController /\ UNCHANGED opVars
  <2>1. DiagTypeOK'
    BY <1>10 DEF CrashController, Return, DiagTypeOK, ACTIVE_INCIDENT_STATES
  <2> QED
    BY <1>10, <2>1 DEF CrashController, Return
<1>11. ASSUME NEW w \in Worker, NEW t \in Task, Claim(w, t), UNCHANGED opVars
      PROVE  CtlTypeOK'
  <2>1. DiagTypeOK'
    BY <1>11 DEF Claim, Hand, DiagTypeOK, ACTIVE_INCIDENT_STATES
  <2> QED
    BY <1>11, <2>1 DEF Claim, Hand
<1>12. ASSUME NEW c \in Correction, SaveOwn(c), UNCHANGED opVars PROVE CtlTypeOK'
  <2>1. DiagTypeOK'
    BY <1>12 DEF SaveOwn, DiagTypeOK, ACTIVE_INCIDENT_STATES
  <2> QED
    BY <1>12, <2>1 DEF SaveOwn
<1>13. ASSUME NEW c \in Correction, Write(c), UNCHANGED opVars PROVE CtlTypeOK'
  <2>1. DiagTypeOK'
    BY <1>13 DEF Write, DiagTypeOK, ACTIVE_INCIDENT_STATES
  <2> QED
    BY <1>13, <2>1 DEF Write
<1>14. ASSUME NEW c \in Correction, Complete(c), UNCHANGED opVars PROVE CtlTypeOK'
  <2>1. DiagTypeOK'
    BY <1>14 DEF Complete, Settle, Report, Over, DiagTypeOK, ACTIVE_INCIDENT_STATES
  <2> QED
    BY <1>14, <2>1 DEF Complete, Settle, Report, Over
<1>15. ASSUME NEW c \in Correction, RollBack(c), UNCHANGED opVars PROVE CtlTypeOK'
  <2>1. DiagTypeOK'
    BY <1>15 DEF RollBack, DiagTypeOK, ACTIVE_INCIDENT_STATES
  <2> QED
    BY <1>15, <2>1 DEF RollBack
<1>16. ASSUME NEW c \in Correction, Fail(c), UNCHANGED opVars PROVE CtlTypeOK'
  <2>1. DiagTypeOK'
    BY <1>16 DEF Fail, Settle, Report, Over, DiagTypeOK, ACTIVE_INCIDENT_STATES
  <2> QED
    BY <1>16, <2>1 DEF Fail, Settle, Report, Over
<1>17. ASSUME NEW c \in Correction, NEW s \in {"BLOCKED", "FAILED"}, Refuse(c, s),
   UNCHANGED opVars
      PROVE  CtlTypeOK'
  <2>1. DiagTypeOK'
    BY <1>17 DEF Refuse, Settle, Report, Over, DiagTypeOK, ACTIVE_INCIDENT_STATES
  <2> QED
    BY <1>17, <2>1 DEF Refuse, Settle, Report, Over
<1>18. ASSUME NEW t \in Task, LoseWorker(t), UNCHANGED opVars PROVE CtlTypeOK'
  <2>1. DiagTypeOK'
    BY <1>18 DEF LoseWorker, Revoke, Over, DiagTypeOK, ACTIVE_INCIDENT_STATES
  <2> QED
    BY <1>18, <2>1 DEF LoseWorker, Revoke, Over
<1>19. ASSUME NEW k \in Command, EnterTask(k) PROVE CtlTypeOK'
  <2>1. DiagTypeOK'
    BY <1>19 DEF EnterTask, Enqueue, DiagTypeOK, ACTIVE_INCIDENT_STATES
  <2> QED
    BY <1>19, <2>1 DEF EnterTask, Enqueue
<1>20. ASSUME NEW k \in Command, EnterRow(k) PROVE CtlTypeOK'
  <2>1. DiagTypeOK'
    BY <1>20 DEF EnterRow, DiagTypeOK, ACTIVE_INCIDENT_STATES
  <2> QED
    BY <1>20, <2>1 DEF EnterRow
<1>21. ASSUME NEW k \in Command, EnterLost(k) PROVE CtlTypeOK'
  <2>1. DiagTypeOK'
    BY <1>21 DEF EnterLost, DiagTypeOK, ACTIVE_INCIDENT_STATES
  <2> QED
    BY <1>21, <2>1 DEF EnterLost
<1>22. ASSUME NEW t \in Task, Reject(t) PROVE CtlTypeOK'
  <2>1. DiagTypeOK'
    BY <1>22 DEF Reject, Dispatching, Settle, Report, Over, DiagTypeOK,
       ACTIVE_INCIDENT_STATES
  <2> QED
    BY <1>22, <2>1 DEF Reject, Dispatching, Settle, Report, Over
<1>23. ASSUME NEW k \in Command, Mismatch(k) PROVE CtlTypeOK'
  <2>1. DiagTypeOK'
    BY <1>23 DEF Mismatch, Dispatching, Strand, Settle, Report, Over, DiagTypeOK,
       ACTIVE_INCIDENT_STATES
  <2> QED
    BY <1>23, <2>1 DEF Mismatch, Dispatching, Strand, Settle, Report, Over
<1>24. ASSUME NEW k \in Command, Unknown(k) PROVE CtlTypeOK'
  <2>1. DiagTypeOK'
    BY <1>24 DEF Unknown, Dispatching, Settle, Report, Over, DiagTypeOK,
       ACTIVE_INCIDENT_STATES
  <2> QED
    BY <1>24, <2>1 DEF Unknown, Dispatching, Settle, Report, Over
<1>25. ASSUME NEW k \in Command, Dispatch(k) PROVE CtlTypeOK'
  <2>1. DiagTypeOK'
    BY <1>25 DEF Dispatch, Dispatching, Submit, Enqueue, DiagTypeOK,
       ACTIVE_INCIDENT_STATES
  <2> QED
    BY <1>25, <2>1 DEF Dispatch, Dispatching, Submit, Enqueue
<1>26. ASSUME NEW k \in Command, CompleteCommand(k) PROVE CtlTypeOK'
  <2>1. DiagTypeOK'
    BY <1>26 DEF CompleteCommand, Dispatching, Settle, Report, Over, DiagTypeOK,
       ACTIVE_INCIDENT_STATES
  <2> QED
    BY <1>26, <2>1 DEF CompleteCommand, Dispatching, Settle, Report, Over
<1>27. ASSUME NEW k \in Command, CloseCommand(k) PROVE CtlTypeOK'
  <2>1. DiagTypeOK'
    BY <1>27 DEF CloseCommand, DiagTypeOK, ACTIVE_INCIDENT_STATES
  <2> QED
    BY <1>27, <2>1 DEF CloseCommand
<1>28. ASSUME NEW k \in Command, CloseLost(k) PROVE CtlTypeOK'
  <2>1. DiagTypeOK'
    BY <1>28 DEF CloseLost, Strand, DiagTypeOK, ACTIVE_INCIDENT_STATES
  <2> QED
    BY <1>28, <2>1 DEF CloseLost, Strand
<1>29. ASSUME NEW k \in Command, RefuseCommand(k) PROVE CtlTypeOK'
  <2>1. DiagTypeOK'
    BY <1>29 DEF RefuseCommand, Strand, Settle, Report, Over, DiagTypeOK,
       ACTIVE_INCIDENT_STATES
  <2> QED
    BY <1>29, <2>1 DEF RefuseCommand, Strand, Settle, Report, Over
<1>30. ASSUME NEW t \in Child, NEW s \in Settled, RunChild(t, s) PROVE CtlTypeOK'
  <2>1. DiagTypeOK'
    BY <1>30 DEF RunChild, Settle, Report, Over, DiagTypeOK, ACTIVE_INCIDENT_STATES
  <2> QED
    BY <1>30, <2>1 DEF RunChild, Settle, Report, Over
<1> QED
  BY <1>1, <1>2, <1>3, <1>4, <1>5, <1>6, <1>7, <1>8, <1>9, <1>10, <1>11, <1>12, <1>13,
     <1>14, <1>15, <1>16, <1>17, <1>18, <1>19, <1>20, <1>21, <1>22, <1>23, <1>24,
     <1>25, <1>26, <1>27, <1>28, <1>29, <1>30 DEF CtlNext, RemNext, DispatcherClaim

\* A task is claimed into a run and leaves it when it is settled or taken back.
LEMMA RunningStep == TypeInv /\ CtlNext => Running'
<1> SUFFICES ASSUME TypeInv, CtlNext PROVE Running'
  OBVIOUS
<1> USE DEF TypeInv, Running, Settled, Child, CtlTypeOK, RemTypeOK, OpStep, opVars,
   remVars, diagVars, absVars, evidenceVars
<1>0. CASE UNCHANGED <<status, holder, run>>
  BY <1>0
<1>1. ASSUME NEW c \in Correction, LabSubmit(c), UNCHANGED opVars PROVE Running'
  BY <1>1 DEF LabSubmit, Submit, Enqueue, absVars
<1>2. ASSUME NEW w \in Worker, NEW t \in Task, Claim(w, t), UNCHANGED opVars
      PROVE  Running'
  BY <1>2 DEF Claim, Hand
<1>3. ASSUME NEW c \in Correction, SaveOwn(c), UNCHANGED opVars PROVE Running'
  BY <1>3 DEF SaveOwn
<1>4. ASSUME NEW c \in Correction, Write(c), UNCHANGED opVars PROVE Running'
  BY <1>4 DEF Write
<1>5. ASSUME NEW c \in Correction, Complete(c), UNCHANGED opVars PROVE Running'
  BY <1>5 DEF Complete, Settle, Report, Over
<1>6. ASSUME NEW c \in Correction, RollBack(c), UNCHANGED opVars PROVE Running'
  BY <1>6 DEF RollBack
<1>7. ASSUME NEW c \in Correction, Fail(c), UNCHANGED opVars PROVE Running'
  BY <1>7 DEF Fail, Settle, Report, Over
<1>8. ASSUME NEW c \in Correction, NEW s \in {"BLOCKED", "FAILED"}, Refuse(c, s),
   UNCHANGED opVars
      PROVE  Running'
  BY <1>8 DEF Refuse, Settle, Report, Over
<1>9. ASSUME NEW t \in Task, LoseWorker(t), UNCHANGED opVars PROVE Running'
  BY <1>9 DEF LoseWorker, Revoke, Over
<1>10. ASSUME NEW k \in Command, EnterTask(k) PROVE Running'
  BY <1>10 DEF EnterTask, Enqueue
<1>11. ASSUME NEW t \in Task, Reject(t) PROVE Running'
  BY <1>11 DEF Reject, Dispatching, Settle, Report, Over
<1>12. ASSUME NEW k \in Command, Mismatch(k) PROVE Running'
  BY <1>12 DEF Mismatch, Dispatching, Strand, Settle, Report, Over
<1>13. ASSUME NEW k \in Command, Unknown(k) PROVE Running'
  BY <1>13 DEF Unknown, Dispatching, Settle, Report, Over
<1>14. ASSUME NEW k \in Command, Dispatch(k) PROVE Running'
  BY <1>14 DEF Dispatch, Dispatching, Submit, Enqueue
<1>15. ASSUME NEW k \in Command, CompleteCommand(k) PROVE Running'
  BY <1>15 DEF CompleteCommand, Dispatching, Settle, Report, Over
<1>16. ASSUME NEW k \in Command, RefuseCommand(k) PROVE Running'
  BY <1>16 DEF RefuseCommand, Strand, Settle, Report, Over
<1>17. ASSUME NEW t \in Child, NEW s \in Settled, RunChild(t, s) PROVE Running'
  BY <1>17 DEF RunChild, Settle, Report, Over
<1> HIDE DEF TypeInv, Running, Settled, Child, CtlTypeOK, RemTypeOK
<1> QED
  BY <1>0, <1>1, <1>2, <1>3, <1>4, <1>5, <1>6, <1>7, <1>8, <1>9, <1>10, <1>11, <1>12,
     <1>13, <1>14, <1>15, <1>16, <1>17
  DEF CtlNext, RemNext, DispatcherClaim, Diagnose, Plan, LabSave, LabLink, Judge,
     Restore, Conclude, FinalizeIncident, CrashController, EnterRow, EnterLost,
     CloseCommand, CloseLost

\* The controller knows its correction, and the checkpoints it restores exist.
LEMMA PlacedStep == TypeInv /\ CtlNext => Placed'
<1> SUFFICES ASSUME TypeInv, CtlNext PROVE Placed'
  OBVIOUS
<1> USE DEF TypeInv, Placed, Linked, CtlTypeOK, RemTypeOK, OpStep, opVars, remVars,
   diagVars, absVars, evidenceVars
<1>0. CASE UNCHANGED <<ctl, cur, correction, saved, run, own, held>>
  BY <1>0
<1>1. ASSUME NEW c \in Correction, Plan(c), UNCHANGED opVars PROVE Placed'
  BY <1>1 DEF Plan, SetState
<1>2. ASSUME NEW c \in Correction, LabSubmit(c), UNCHANGED opVars PROVE Placed'
  BY <1>2 DEF LabSubmit, Submit, Enqueue, absVars
<1>3. CASE LabSave /\ UNCHANGED opVars
  BY <1>3 DEF LabSave
<1>4. ASSUME NEW cut \in BOOLEAN, LabLink(cut), UNCHANGED opVars PROVE Placed'
  BY <1>4 DEF LabLink, SetState, Return
<1>5. ASSUME NEW c \in Correction, Judge(c), UNCHANGED opVars PROVE Placed'
  BY <1>5 DEF Judge, Passes
<1>6. CASE Restore /\ UNCHANGED opVars
  BY <1>6 DEF Restore
<1>7. ASSUME NEW cut \in BOOLEAN, Conclude(cut), UNCHANGED opVars PROVE Placed'
  BY <1>7 DEF Conclude, SetState, Return
<1>8. ASSUME NEW c \in Correction, NEW cut \in BOOLEAN, FinalizeIncident(c, cut),
   UNCHANGED opVars
      PROVE  Placed'
  BY <1>8 DEF FinalizeIncident, SetState
<1>9. CASE CrashController /\ UNCHANGED opVars
  BY <1>9 DEF CrashController, Return
<1>10. ASSUME NEW w \in Worker, NEW t \in Task, Claim(w, t), UNCHANGED opVars
      PROVE  Placed'
  BY <1>10 DEF Claim, Hand
<1>11. ASSUME NEW c \in Correction, SaveOwn(c), UNCHANGED opVars PROVE Placed'
  BY <1>11 DEF SaveOwn
<1>12. ASSUME NEW c \in Correction, Write(c), UNCHANGED opVars PROVE Placed'
  BY <1>12 DEF Write
<1>13. ASSUME NEW c \in Correction, Complete(c), UNCHANGED opVars PROVE Placed'
  BY <1>13 DEF Complete, Settle, Report, Over
<1>14. ASSUME NEW c \in Correction, RollBack(c), UNCHANGED opVars PROVE Placed'
  BY <1>14 DEF RollBack
<1>15. ASSUME NEW c \in Correction, Fail(c), UNCHANGED opVars PROVE Placed'
  BY <1>15 DEF Fail, Settle, Report, Over
<1>16. ASSUME NEW c \in Correction, NEW s \in {"BLOCKED", "FAILED"}, Refuse(c, s),
   UNCHANGED opVars
      PROVE  Placed'
  BY <1>16 DEF Refuse, Settle, Report, Over
<1>17. ASSUME NEW t \in Task, LoseWorker(t), UNCHANGED opVars PROVE Placed'
  BY <1>17 DEF LoseWorker, Revoke, Over
<1>18. ASSUME NEW t \in Task, Reject(t) PROVE Placed'
  BY <1>18 DEF Reject, Dispatching, Settle, Report, Over
<1>19. ASSUME NEW k \in Command, Mismatch(k) PROVE Placed'
  BY <1>19 DEF Mismatch, Dispatching, Strand, Settle, Report, Over
<1>20. ASSUME NEW k \in Command, Unknown(k) PROVE Placed'
  BY <1>20 DEF Unknown, Dispatching, Settle, Report, Over
<1>21. ASSUME NEW k \in Command, Dispatch(k) PROVE Placed'
  BY <1>21 DEF Dispatch, Dispatching, Submit, Enqueue
<1>22. ASSUME NEW k \in Command, CompleteCommand(k) PROVE Placed'
  BY <1>22 DEF CompleteCommand, Dispatching, Settle, Report, Over
<1>23. ASSUME NEW k \in Command, RefuseCommand(k) PROVE Placed'
  BY <1>23 DEF RefuseCommand, Strand, Settle, Report, Over
<1>24. ASSUME NEW t \in Child, NEW s \in Settled, RunChild(t, s) PROVE Placed'
  BY <1>24 DEF RunChild, Settle, Report, Over
<1> HIDE DEF TypeInv, Placed, Linked, CtlTypeOK, RemTypeOK
<1> QED
  BY <1>0, <1>1, <1>2, <1>3, <1>4, <1>5, <1>6, <1>7, <1>8, <1>9, <1>10, <1>11, <1>12,
     <1>13, <1>14, <1>15, <1>16, <1>17, <1>18, <1>19, <1>20, <1>21, <1>22, <1>23,
     <1>24
  DEF CtlNext, RemNext, DispatcherClaim, Diagnose, EnterTask, EnterRow, EnterLost,
     CloseCommand, CloseLost

\* A result that passed keeps its effect until a rollback takes note of it.
LEMMA EffectiveStep == Inv /\ CtlNext => Effective'
<1> SUFFICES ASSUME Inv, CtlNext PROVE Effective'
  OBVIOUS
<1> USE DEF Inv, TypeInv, Effective, InPlace, Running, Placed, CtlTypeOK, RemTypeOK,
   OpStep, opVars, remVars, diagVars, absVars, evidenceVars
<1>0. CASE UNCHANGED <<ctl, cur, status, content, held, correction, undone>>
  BY <1>0
<1>1. ASSUME NEW c \in Correction, Plan(c), UNCHANGED opVars PROVE Effective'
  BY <1>1 DEF Plan, SetState
<1>2. ASSUME NEW c \in Correction, LabSubmit(c), UNCHANGED opVars PROVE Effective'
  BY <1>2 DEF LabSubmit, Submit, Enqueue, absVars
<1>3. CASE LabSave /\ UNCHANGED opVars
  BY <1>3 DEF LabSave
<1>4. ASSUME NEW cut \in BOOLEAN, LabLink(cut), UNCHANGED opVars PROVE Effective'
  BY <1>4 DEF LabLink, SetState, Return
<1>5. ASSUME NEW c \in Correction, Judge(c), UNCHANGED opVars PROVE Effective'
  BY <1>5 DEF Judge, Passes
<1>6. CASE Restore /\ UNCHANGED opVars
  BY <1>6 DEF Restore
<1>7. ASSUME NEW cut \in BOOLEAN, Conclude(cut), UNCHANGED opVars PROVE Effective'
  BY <1>7 DEF Conclude, SetState, Return
<1>8. ASSUME NEW c \in Correction, NEW cut \in BOOLEAN, FinalizeIncident(c, cut),
   UNCHANGED opVars
      PROVE  Effective'
  BY <1>8 DEF FinalizeIncident, SetState
<1>9. CASE CrashController /\ UNCHANGED opVars
  BY <1>9 DEF CrashController, Return
<1>10. ASSUME NEW w \in Worker, NEW t \in Task, Claim(w, t), UNCHANGED opVars
      PROVE  Effective'
  BY <1>10 DEF Claim, Hand
<1>11. ASSUME NEW c \in Correction, Write(c), UNCHANGED opVars PROVE Effective'
  BY <1>11 DEF Write
<1>12. ASSUME NEW c \in Correction, Complete(c), UNCHANGED opVars PROVE Effective'
  BY <1>12 DEF Complete, Settle, Report, Over
<1>13. ASSUME NEW c \in Correction, RollBack(c), UNCHANGED opVars PROVE Effective'
  BY <1>13 DEF RollBack
<1>14. ASSUME NEW c \in Correction, Fail(c), UNCHANGED opVars PROVE Effective'
  BY <1>14 DEF Fail, Settle, Report, Over
<1>15. ASSUME NEW c \in Correction, NEW s \in {"BLOCKED", "FAILED"}, Refuse(c, s),
   UNCHANGED opVars
      PROVE  Effective'
  BY <1>15 DEF Refuse, Settle, Report, Over
<1>16. ASSUME NEW t \in Task, LoseWorker(t), UNCHANGED opVars PROVE Effective'
  BY <1>16 DEF LoseWorker, Revoke, Over
<1>17. ASSUME NEW k \in Command, EnterTask(k) PROVE Effective'
  BY <1>17 DEF EnterTask, Enqueue
<1>18. ASSUME NEW t \in Task, Reject(t) PROVE Effective'
  BY <1>18 DEF Reject, Dispatching, Settle, Report, Over
<1>19. ASSUME NEW k \in Command, Mismatch(k) PROVE Effective'
  BY <1>19 DEF Mismatch, Dispatching, Strand, Settle, Report, Over
<1>20. ASSUME NEW k \in Command, Unknown(k) PROVE Effective'
  BY <1>20 DEF Unknown, Dispatching, Settle, Report, Over
<1>21. ASSUME NEW k \in Command, Dispatch(k) PROVE Effective'
  BY <1>21 DEF Dispatch, Dispatching, Submit, Enqueue
<1>22. ASSUME NEW k \in Command, CompleteCommand(k) PROVE Effective'
  BY <1>22 DEF CompleteCommand, Dispatching, Settle, Report, Over
<1>23. ASSUME NEW k \in Command, RefuseCommand(k) PROVE Effective'
  BY <1>23 DEF RefuseCommand, Strand, Settle, Report, Over
<1>24. ASSUME NEW t \in Child, NEW s \in Settled, RunChild(t, s) PROVE Effective'
  BY <1>24 DEF RunChild, Settle, Report, Over
<1> HIDE DEF Inv, TypeInv, Effective, InPlace, Running, Placed, CtlTypeOK, RemTypeOK
<1> QED
  BY <1>0, <1>1, <1>2, <1>3, <1>4, <1>5, <1>6, <1>7, <1>8, <1>9, <1>10, <1>11, <1>12,
     <1>13, <1>14, <1>15, <1>16, <1>17, <1>18, <1>19, <1>20, <1>21, <1>22, <1>23,
     <1>24
  DEF CtlNext, RemNext, DispatcherClaim, Diagnose, SaveOwn, EnterRow, EnterLost,
     CloseCommand, CloseLost

\* Until its row is linked, only an early claim lets anyone into a workspace.
LEMMA OriginalStep == Inv /\ CtlNext => Original'
<1> SUFFICES ASSUME Inv, CtlNext PROVE Original'
  OBVIOUS
<1> USE DEF Inv, TypeInv, Original, Linked, Running, Placed, Child, CtlTypeOK,
   RemTypeOK, OpStep, opVars, remVars, diagVars, absVars, evidenceVars
<1>0. CASE UNCHANGED <<correction, status, content, saved, early>>
  BY <1>0
<1>1. ASSUME NEW c \in Correction, Plan(c), UNCHANGED opVars PROVE Original'
  BY <1>1 DEF Plan, SetState
<1>2. ASSUME NEW c \in Correction, LabSubmit(c), UNCHANGED opVars PROVE Original'
  BY <1>2 DEF LabSubmit, Submit, Enqueue, absVars
<1>3. CASE LabSave /\ UNCHANGED opVars
  BY <1>3 DEF LabSave
<1>4. ASSUME NEW cut \in BOOLEAN, LabLink(cut), UNCHANGED opVars PROVE Original'
  BY <1>4 DEF LabLink, SetState, Return
<1>5. CASE Restore /\ UNCHANGED opVars
  BY <1>5 DEF Restore
<1>6. ASSUME NEW cut \in BOOLEAN, Conclude(cut), UNCHANGED opVars PROVE Original'
  BY <1>6 DEF Conclude, SetState, Return
<1>7. ASSUME NEW c \in Correction, NEW cut \in BOOLEAN, FinalizeIncident(c, cut),
   UNCHANGED opVars
      PROVE  Original'
  BY <1>7 DEF FinalizeIncident, SetState
<1>8. ASSUME NEW w \in Worker, NEW t \in Task, Claim(w, t), UNCHANGED opVars
      PROVE  Original'
  BY <1>8 DEF Claim, Hand
<1>9. ASSUME NEW c \in Correction, Write(c), UNCHANGED opVars PROVE Original'
  BY <1>9 DEF Write
<1>10. ASSUME NEW c \in Correction, Complete(c), UNCHANGED opVars PROVE Original'
  BY <1>10 DEF Complete, Settle, Report, Over
<1>11. ASSUME NEW c \in Correction, RollBack(c), UNCHANGED opVars PROVE Original'
  BY <1>11 DEF RollBack
<1>12. ASSUME NEW c \in Correction, Fail(c), UNCHANGED opVars PROVE Original'
  BY <1>12 DEF Fail, Settle, Report, Over
<1>13. ASSUME NEW c \in Correction, NEW s \in {"BLOCKED", "FAILED"}, Refuse(c, s),
   UNCHANGED opVars
      PROVE  Original'
  BY <1>13 DEF Refuse, Settle, Report, Over
<1>14. ASSUME NEW t \in Task, LoseWorker(t), UNCHANGED opVars PROVE Original'
  BY <1>14 DEF LoseWorker, Revoke, Over
<1>15. ASSUME NEW k \in Command, EnterTask(k) PROVE Original'
  BY <1>15 DEF EnterTask, Enqueue
<1>16. ASSUME NEW t \in Task, Reject(t) PROVE Original'
  BY <1>16 DEF Reject, Dispatching, Settle, Report, Over
<1>17. ASSUME NEW k \in Command, Mismatch(k) PROVE Original'
  BY <1>17 DEF Mismatch, Dispatching, Strand, Settle, Report, Over
<1>18. ASSUME NEW k \in Command, Unknown(k) PROVE Original'
  BY <1>18 DEF Unknown, Dispatching, Settle, Report, Over
<1>19. ASSUME NEW k \in Command, Dispatch(k) PROVE Original'
  BY <1>19 DEF Dispatch, Dispatching, Submit, Enqueue
<1>20. ASSUME NEW k \in Command, CompleteCommand(k) PROVE Original'
  BY <1>20 DEF CompleteCommand, Dispatching, Settle, Report, Over
<1>21. ASSUME NEW k \in Command, RefuseCommand(k) PROVE Original'
  BY <1>21 DEF RefuseCommand, Strand, Settle, Report, Over
<1>22. ASSUME NEW t \in Child, NEW s \in Settled, RunChild(t, s) PROVE Original'
  BY <1>22 DEF RunChild, Settle, Report, Over
<1> HIDE DEF Inv, TypeInv, Original, Linked, Running, Placed, Child, CtlTypeOK,
   RemTypeOK
<1> QED
  BY <1>0, <1>1, <1>2, <1>3, <1>4, <1>5, <1>6, <1>7, <1>8, <1>9, <1>10, <1>11, <1>12,
     <1>13, <1>14, <1>15, <1>16, <1>17, <1>18, <1>19, <1>20, <1>21, <1>22
  DEF CtlNext, RemNext, DispatcherClaim, Diagnose, Judge, CrashController, SaveOwn,
     EnterRow, EnterLost, CloseCommand, CloseLost

\* A rollback of a settled task stays as it is.
LEMMA RolledBackStep == Inv /\ CtlNext => RolledBack'
<1> SUFFICES ASSUME Inv, CtlNext PROVE RolledBack'
  OBVIOUS
<1> USE DEF Inv, TypeInv, RolledBack, Back, Running, Placed, Linked, Settled,
   CtlTypeOK, RemTypeOK, OpStep, opVars, remVars, diagVars, absVars, evidenceVars
<1>0. CASE UNCHANGED <<ctl, cur, correction, hasty, status, content, saved>>
  BY <1>0
<1>1. ASSUME NEW c \in Correction, Plan(c), UNCHANGED opVars PROVE RolledBack'
  BY <1>1 DEF Plan, SetState
<1>2. ASSUME NEW c \in Correction, LabSubmit(c), UNCHANGED opVars PROVE RolledBack'
  BY <1>2 DEF LabSubmit, Submit, Enqueue, absVars
<1>3. CASE LabSave /\ UNCHANGED opVars
  BY <1>3 DEF LabSave
<1>4. ASSUME NEW cut \in BOOLEAN, LabLink(cut), UNCHANGED opVars PROVE RolledBack'
  BY <1>4 DEF LabLink, SetState, Return
<1>5. ASSUME NEW c \in Correction, Judge(c), UNCHANGED opVars PROVE RolledBack'
  BY <1>5 DEF Judge, Passes
<1>6. CASE Restore /\ UNCHANGED opVars
  BY <1>6 DEF Restore
<1>7. ASSUME NEW cut \in BOOLEAN, Conclude(cut), UNCHANGED opVars PROVE RolledBack'
  BY <1>7 DEF Conclude, SetState, Return
<1>8. ASSUME NEW c \in Correction, NEW cut \in BOOLEAN, FinalizeIncident(c, cut),
   UNCHANGED opVars
      PROVE  RolledBack'
  BY <1>8 DEF FinalizeIncident, SetState
<1>9. CASE CrashController /\ UNCHANGED opVars
  BY <1>9 DEF CrashController, Return
<1>10. ASSUME NEW w \in Worker, NEW t \in Task, Claim(w, t), UNCHANGED opVars
      PROVE  RolledBack'
  BY <1>10 DEF Claim, Hand
<1>11. ASSUME NEW c \in Correction, Write(c), UNCHANGED opVars PROVE RolledBack'
  BY <1>11 DEF Write
<1>12. ASSUME NEW c \in Correction, Complete(c), UNCHANGED opVars PROVE RolledBack'
  BY <1>12 DEF Complete, Settle, Report, Over
<1>13. ASSUME NEW c \in Correction, RollBack(c), UNCHANGED opVars PROVE RolledBack'
  BY <1>13 DEF RollBack
<1>14. ASSUME NEW c \in Correction, Fail(c), UNCHANGED opVars PROVE RolledBack'
  BY <1>14 DEF Fail, Settle, Report, Over
<1>15. ASSUME NEW c \in Correction, NEW s \in {"BLOCKED", "FAILED"}, Refuse(c, s),
   UNCHANGED opVars
      PROVE  RolledBack'
  BY <1>15 DEF Refuse, Settle, Report, Over
<1>16. ASSUME NEW t \in Task, LoseWorker(t), UNCHANGED opVars PROVE RolledBack'
  BY <1>16 DEF LoseWorker, Revoke, Over
<1>17. ASSUME NEW k \in Command, EnterTask(k) PROVE RolledBack'
  BY <1>17 DEF EnterTask, Enqueue
<1>18. ASSUME NEW t \in Task, Reject(t) PROVE RolledBack'
  BY <1>18 DEF Reject, Dispatching, Settle, Report, Over
<1>19. ASSUME NEW k \in Command, Mismatch(k) PROVE RolledBack'
  BY <1>19 DEF Mismatch, Dispatching, Strand, Settle, Report, Over
<1>20. ASSUME NEW k \in Command, Unknown(k) PROVE RolledBack'
  BY <1>20 DEF Unknown, Dispatching, Settle, Report, Over
<1>21. ASSUME NEW k \in Command, Dispatch(k) PROVE RolledBack'
  BY <1>21 DEF Dispatch, Dispatching, Submit, Enqueue
<1>22. ASSUME NEW k \in Command, CompleteCommand(k) PROVE RolledBack'
  BY <1>22 DEF CompleteCommand, Dispatching, Settle, Report, Over
<1>23. ASSUME NEW k \in Command, RefuseCommand(k) PROVE RolledBack'
  BY <1>23 DEF RefuseCommand, Strand, Settle, Report, Over
<1>24. ASSUME NEW t \in Child, NEW s \in Settled, RunChild(t, s) PROVE RolledBack'
  BY <1>24 DEF RunChild, Settle, Report, Over
<1> HIDE DEF Inv, TypeInv, RolledBack, Back, Running, Placed, Linked, Settled,
   CtlTypeOK, RemTypeOK
<1> QED
  BY <1>0, <1>1, <1>2, <1>3, <1>4, <1>5, <1>6, <1>7, <1>8, <1>9, <1>10, <1>11, <1>12,
     <1>13, <1>14, <1>15, <1>16, <1>17, <1>18, <1>19, <1>20, <1>21, <1>22, <1>23,
     <1>24
  DEF CtlNext, RemNext, DispatcherClaim, Diagnose, SaveOwn, EnterRow, EnterLost,
     CloseCommand, CloseLost

\* RESOLVED and ACCEPTED are written together but for a cut.
LEMMA ResolvedBackedStep == Inv /\ CtlNext => ResolvedBacked'
<1> SUFFICES ASSUME Inv, CtlNext PROVE ResolvedBacked'
  OBVIOUS
<1> USE DEF Inv, TypeInv, ResolvedBacked, Placed, CtlTypeOK, RemTypeOK, OpStep,
   opVars, remVars, diagVars, absVars, evidenceVars
<1>0. CASE UNCHANGED <<incident, halved, correction>>
  BY <1>0
<1>1. CASE Diagnose /\ UNCHANGED opVars
  BY <1>1 DEF Diagnose, DiagNext, AttachSignal, AddHypothesis, LinkEvidence,
     RecordAttempt, ConfirmRootCause
<1>2. ASSUME NEW c \in Correction, Plan(c), UNCHANGED opVars PROVE ResolvedBacked'
  BY <1>2 DEF Plan, SetState
<1>3. ASSUME NEW cut \in BOOLEAN, LabLink(cut), UNCHANGED opVars PROVE ResolvedBacked'
  BY <1>3 DEF LabLink, SetState, Return
<1>4. ASSUME NEW cut \in BOOLEAN, Conclude(cut), UNCHANGED opVars PROVE ResolvedBacked'
  BY <1>4 DEF Conclude, SetState, Return
<1>5. ASSUME NEW c \in Correction, NEW cut \in BOOLEAN, FinalizeIncident(c, cut),
   UNCHANGED opVars
      PROVE  ResolvedBacked'
  BY <1>5 DEF FinalizeIncident, SetState
<1> HIDE DEF Inv, TypeInv, ResolvedBacked, Placed, CtlTypeOK, RemTypeOK
<1> QED
  BY <1>0, <1>1, <1>2, <1>3, <1>4, <1>5
  DEF CtlNext, RemNext, DispatcherClaim, LabSubmit, LabSave, Judge, Restore,
     CrashController, Claim, SaveOwn, Write, Complete, RollBack, Fail, Refuse,
     LoseWorker, EnterTask, EnterRow, EnterLost, Reject, Mismatch, Unknown, Dispatch,
     CompleteCommand, CloseCommand, CloseLost, RefuseCommand, RunChild

\* Each command is settled by its dispatcher, or is noted as stranded.
LEMMA RowsStep == Inv /\ CtlNext => Rows'
<1> SUFFICES ASSUME Inv, CtlNext PROVE Rows'
  OBVIOUS
<1> USE DEF Inv, TypeInv, Rows, Row, Running, Settled, Child, CtlTypeOK, RemTypeOK,
   OpStep, opVars, remVars, diagVars, absVars, evidenceVars
<1>0. CASE UNCHANGED <<command, entering, run, status, closing, stranded>>
  BY <1>0
<1>1. ASSUME NEW c \in Correction, LabSubmit(c), UNCHANGED opVars PROVE Rows'
  BY <1>1 DEF LabSubmit, Submit, Enqueue, absVars
<1>2. ASSUME NEW w \in Worker, NEW t \in Task, Claim(w, t), UNCHANGED opVars PROVE Rows'
  BY <1>2 DEF Claim, Hand
<1>3. ASSUME NEW c \in Correction, SaveOwn(c), UNCHANGED opVars PROVE Rows'
  BY <1>3 DEF SaveOwn
<1>4. ASSUME NEW c \in Correction, Write(c), UNCHANGED opVars PROVE Rows'
  BY <1>4 DEF Write
<1>5. ASSUME NEW c \in Correction, Complete(c), UNCHANGED opVars PROVE Rows'
  BY <1>5 DEF Complete, Settle, Report, Over
<1>6. ASSUME NEW c \in Correction, RollBack(c), UNCHANGED opVars PROVE Rows'
  BY <1>6 DEF RollBack
<1>7. ASSUME NEW c \in Correction, Fail(c), UNCHANGED opVars PROVE Rows'
  BY <1>7 DEF Fail, Settle, Report, Over
<1>8. ASSUME NEW c \in Correction, NEW s \in {"BLOCKED", "FAILED"}, Refuse(c, s),
   UNCHANGED opVars
      PROVE  Rows'
  BY <1>8 DEF Refuse, Settle, Report, Over
<1>9. ASSUME NEW t \in Task, LoseWorker(t), UNCHANGED opVars PROVE Rows'
  BY <1>9 DEF LoseWorker, Revoke, Over
<1>10. ASSUME NEW k \in Command, EnterTask(k) PROVE Rows'
  BY <1>10 DEF EnterTask, Enqueue
<1>11. ASSUME NEW k \in Command, EnterRow(k) PROVE Rows'
  BY <1>11 DEF EnterRow
<1>12. ASSUME NEW k \in Command, EnterLost(k) PROVE Rows'
  BY <1>12 DEF EnterLost
<1>13. ASSUME NEW t \in Task, Reject(t) PROVE Rows'
  BY <1>13 DEF Reject, Dispatching, Settle, Report, Over
<1>14. ASSUME NEW k \in Command, Mismatch(k) PROVE Rows'
  <2>1. /\ stranded'[k] # {}
        /\ \A j \in Command : j # k => stranded'[j] = stranded[j]
    BY <1>14 DEF Mismatch, Strand
  <2>2. /\ status' = [status EXCEPT ![k] = "BLOCKED"] /\ run' = [run EXCEPT ![k] = "none"]
        /\ closing = NULL /\ UNCHANGED <<command, entering, closing>>
    BY <1>14 DEF Mismatch, Dispatching, Settle, Report, Over
  <2> SUFFICES ASSUME NEW j \in Command PROVE Row(j)'
    OBVIOUS
  <2>3. Row(j) /\ ChildOf[j] # k /\ ChildOf[j] \in Task
    OBVIOUS
  <2>4. CASE j = k
    BY <2>1, <2>2, <2>3, <2>4
  <2>5. CASE j # k
    BY <2>1, <2>2, <2>3, <2>5
  <2> QED
    BY <2>4, <2>5
<1>15. ASSUME NEW k \in Command, Unknown(k) PROVE Rows'
  BY <1>15 DEF Unknown, Dispatching, Settle, Report, Over
<1>16. ASSUME NEW k \in Command, Dispatch(k) PROVE Rows'
  BY <1>16 DEF Dispatch, Dispatching, Submit, Enqueue
<1>17. ASSUME NEW k \in Command, CompleteCommand(k) PROVE Rows'
  BY <1>17 DEF CompleteCommand, Dispatching, Settle, Report, Over
<1>18. ASSUME NEW k \in Command, CloseCommand(k) PROVE Rows'
  BY <1>18 DEF CloseCommand
<1>19. ASSUME NEW k \in Command, CloseLost(k) PROVE Rows'
  <2>1. /\ stranded'[k] # {}
        /\ \A j \in Command : stranded[j] # {} => stranded'[j] # {}
    BY <1>19 DEF CloseLost, Strand, CtlTypeOK
  <2>2. UNCHANGED <<command, entering, run, status>> /\ closing = k /\ closing' = NULL
    BY <1>19 DEF CloseLost, absVars
  <2> SUFFICES ASSUME NEW j \in Command PROVE Row(j)'
    OBVIOUS
  <2>3. Row(j)
    OBVIOUS
  <2> QED
    BY <2>1, <2>2, <2>3
<1>20. ASSUME NEW k \in Command, RefuseCommand(k) PROVE Rows'
  BY <1>20 DEF RefuseCommand, Strand, Settle, Report, Over
<1>21. ASSUME NEW t \in Child, NEW s \in Settled, RunChild(t, s) PROVE Rows'
  BY <1>21 DEF RunChild, Settle, Report, Over
<1> HIDE DEF Inv, TypeInv, Rows, Row, Running, Settled, Child, CtlTypeOK, RemTypeOK
<1> QED
  BY <1>0, <1>1, <1>2, <1>3, <1>4, <1>5, <1>6, <1>7, <1>8, <1>9, <1>10, <1>11, <1>12,
     <1>13, <1>14, <1>15, <1>16, <1>17, <1>18, <1>19, <1>20, <1>21
  DEF CtlNext, RemNext, DispatcherClaim, Diagnose, Plan, LabSave, LabLink, Judge,
     Restore, Conclude, FinalizeIncident, CrashController

\* The rows agree with the tasks.
LEMMA CommandsAgreeStep == Inv /\ CtlNext => CommandsAgree'
<1> SUFFICES ASSUME Inv, CtlNext PROVE CommandsAgree'
  OBVIOUS
<1> USE DEF Inv, TypeInv, CommandsAgree, Rows, Row, Running, Settled, Child,
   CtlTypeOK, RemTypeOK, OpStep, opVars, remVars, diagVars, absVars, evidenceVars
<1>0. CASE UNCHANGED <<command, status>>
  BY <1>0
<1>1. ASSUME NEW c \in Correction, LabSubmit(c), UNCHANGED opVars PROVE CommandsAgree'
  BY <1>1 DEF LabSubmit, Submit, Enqueue, absVars
<1>2. ASSUME NEW w \in Worker, NEW t \in Task, Claim(w, t), UNCHANGED opVars
      PROVE  CommandsAgree'
  BY <1>2 DEF Claim, Hand
<1>3. ASSUME NEW c \in Correction, Complete(c), UNCHANGED opVars PROVE CommandsAgree'
  BY <1>3 DEF Complete, Settle, Report, Over
<1>4. ASSUME NEW c \in Correction, Fail(c), UNCHANGED opVars PROVE CommandsAgree'
  BY <1>4 DEF Fail, Settle, Report, Over
<1>5. ASSUME NEW c \in Correction, NEW s \in {"BLOCKED", "FAILED"}, Refuse(c, s),
   UNCHANGED opVars
      PROVE  CommandsAgree'
  BY <1>5 DEF Refuse, Settle, Report, Over
<1>6. ASSUME NEW t \in Task, LoseWorker(t), UNCHANGED opVars PROVE CommandsAgree'
  BY <1>6 DEF LoseWorker, Revoke, Over
<1>7. ASSUME NEW k \in Command, EnterTask(k) PROVE CommandsAgree'
  BY <1>7 DEF EnterTask, Enqueue
<1>8. ASSUME NEW k \in Command, EnterRow(k) PROVE CommandsAgree'
  BY <1>8 DEF EnterRow
<1>9. ASSUME NEW t \in Task, Reject(t) PROVE CommandsAgree'
  BY <1>9 DEF Reject, Dispatching, Settle, Report, Over
<1>10. ASSUME NEW k \in Command, Mismatch(k) PROVE CommandsAgree'
  BY <1>10 DEF Mismatch, Dispatching, Strand, Settle, Report, Over
<1>11. ASSUME NEW k \in Command, Unknown(k) PROVE CommandsAgree'
  BY <1>11 DEF Unknown, Dispatching, Settle, Report, Over
<1>12. ASSUME NEW k \in Command, Dispatch(k) PROVE CommandsAgree'
  BY <1>12 DEF Dispatch, Dispatching, Submit, Enqueue
<1>13. ASSUME NEW k \in Command, CompleteCommand(k) PROVE CommandsAgree'
  BY <1>13 DEF CompleteCommand, Dispatching, Settle, Report, Over
<1>14. ASSUME NEW k \in Command, CloseCommand(k) PROVE CommandsAgree'
  BY <1>14 DEF CloseCommand
<1>15. ASSUME NEW k \in Command, RefuseCommand(k) PROVE CommandsAgree'
  BY <1>15 DEF RefuseCommand, Strand, Settle, Report, Over
<1>16. ASSUME NEW t \in Child, NEW s \in Settled, RunChild(t, s) PROVE CommandsAgree'
  BY <1>16 DEF RunChild, Settle, Report, Over
<1> HIDE DEF Inv, TypeInv, CommandsAgree, Rows, Row, Running, Settled, Child,
   CtlTypeOK, RemTypeOK
<1> QED
  BY <1>0, <1>1, <1>2, <1>3, <1>4, <1>5, <1>6, <1>7, <1>8, <1>9, <1>10, <1>11, <1>12,
     <1>13, <1>14, <1>15, <1>16
  DEF CtlNext, RemNext, DispatcherClaim, Diagnose, Plan, LabSave, LabLink, Judge,
     Restore, Conclude, FinalizeIncident, CrashController, SaveOwn, Write, RollBack,
     EnterLost, CloseLost
-----------------------------------------------------------------------------
LEMMA InvInit == CtlInit => Inv
<1> SUFFICES ASSUME CtlInit PROVE Inv
  OBVIOUS
<1> USE DEF CtlInit, RemInit, DiagInit, AbsInit
<1>1. CtlTypeOK
  BY DEF CtlTypeOK, RemTypeOK, DiagTypeOK, Contents, Status
<1>2. Running /\ Placed
  BY DEF Running, Placed, Linked
<1>3. Effective /\ Original /\ RolledBack /\ ResolvedBacked
  BY DEF Effective, Original, RolledBack, ResolvedBacked, Linked
<1>4. Rows /\ CommandsAgree
  BY DEF Rows, Row, CommandsAgree, Settled, Child
<1> QED
  BY <1>1, <1>2, <1>3, <1>4 DEF Inv, TypeInv

LEMMA InvStutter == Inv /\ UNCHANGED ctlVars => Inv'
<1> SUFFICES ASSUME Inv, UNCHANGED ctlVars PROVE Inv'
  OBVIOUS
<1> USE DEF Inv, TypeInv, ctlVars, diagVars, absVars, remVars, opVars
<1>1. CtlTypeOK'
  BY DEF CtlTypeOK, RemTypeOK, DiagTypeOK
<1>2. Running' /\ Placed'
  BY DEF Running, Placed, Linked
<1>3. Effective' /\ Original'
  BY DEF Effective, Original, InPlace, Linked
<1>4. RolledBack' /\ ResolvedBacked'
  BY DEF RolledBack, ResolvedBacked, Back
<1>5. Rows' /\ CommandsAgree'
  BY DEF Rows, Row, CommandsAgree
<1> QED
  BY <1>1, <1>2, <1>3, <1>4, <1>5

LEMMA InvStep == Inv /\ [CtlNext]_ctlVars => Inv'
<1>1. Inv /\ CtlNext => Inv'
  BY TypeStep, RunningStep, PlacedStep, EffectiveStep, OriginalStep, RolledBackStep,
     ResolvedBackedStep, RowsStep, CommandsAgreeStep DEF Inv, TypeInv
<1> QED
  BY <1>1, InvStutter

\* The invariant of the control plane.
THEOREM InvHolds == CtlSpec => []Inv
  BY InvInit, InvStep, PTL DEF CtlSpec
-----------------------------------------------------------------------------
\* Type correctness of the control plane (diagnosis.py, remediation.py, operations.py,
\* operator_dispatch.py).
THEOREM CtlTypeCorrect == CtlSpec => []CtlTypeOK
<1>1. Inv => CtlTypeOK
  BY DEF Inv, TypeInv
<1> QED
  BY InvHolds, <1>1, PTL

\* finalize_incident accepts corrections that are in place, but for rollbacks it does not
\* look for.
THEOREM AcceptedEffectHolds == CtlSpec => []AcceptedEffect
<1>1. Inv => AcceptedEffect
  BY DEF Inv, Effective, InPlace, AcceptedEffect
<1> QED
  BY InvHolds, <1>1, PTL

\* validate's rollback leaves the workspace as it was found, but for a task that could
\* still run and a checkpoint made too late.
THEOREM RollbackRealHolds == CtlSpec => []RollbackReal
<1>1. Inv => RollbackReal
  BY DEF Inv, TypeInv, Placed, Linked, Contents, RolledBack, Back, Original, RollbackReal
<1> QED
  BY InvHolds, <1>1, PTL

\* resolve_incident and the ACCEPTED row go together but for a crash between them.
THEOREM ResolvedBackedHolds == CtlSpec => []ResolvedBacked
<1>1. Inv => ResolvedBacked
  BY DEF Inv
<1> QED
  BY InvHolds, <1>1, PTL

\* op_commands and the task table agree (OperatorCommandDispatcher.run_once).
THEOREM CommandsAgreeHolds == CtlSpec => []CommandsAgree
<1>1. Inv => CommandsAgree
  BY DEF Inv
<1> QED
  BY InvHolds, <1>1, PTL

\* The three ways a command is left QUEUED for good are the only ones.
THEOREM StrandedOnlySoHolds == CtlSpec => []StrandedOnlySo
<1>1. Inv => StrandedOnlySo
  BY DEF Inv, Rows, Row, StrandedOnlySo
<1> QED
  BY InvHolds, <1>1, PTL
-----------------------------------------------------------------------------
(* The root cause *)

\* A ROOT_CAUSE mark outlives tests, but a change of the weights only after a cut.
MarkWeighed == \A g \in Hypothesis : hyp[g] = "ROOT_CAUSE" => Supported(g) \/ g \in torn

Grounded == RootCauseGrounded /\ MarkWeighed

groundVars == <<root, hyp, weight, tests, revised, torn>>

\* The weights do not speak for and against one hypothesis at once.
LEMMA WeighedOneWay ==
  ASSUME NEW g, Supported(g), Refuted(g) PROVE "refuted" \in tests[g]
BY DEF Supported, Refuted

\* Weights and tests that stay leave the judgement.
LEMMA SameJudgement ==
  ASSUME NEW g \in Hypothesis, weight'[g] = weight[g], tests'[g] = tests[g]
  PROVE  (Supported(g)' <=> Supported(g)) /\ (Refuted(g)' <=> Refuted(g))
<1>1. \A p : Weight(g, p)' = Weight(g, p)
  BY DEF Weight
<1> QED BY <1>1 DEF Supported, Refuted, Balance

LEMMA GroundedStep == DiagTypeOK /\ Grounded /\ DiagNext => Grounded'
<1> SUFFICES ASSUME DiagTypeOK, Grounded, DiagNext PROVE Grounded'
  OBVIOUS
<1>0. /\ hyp \in [Hypothesis -> {"NONE", "ACTIVE", "SUPPORTED", "REFUTED", "ROOT_CAUSE"}]
      /\ weight \in [Hypothesis -> [Polarity -> [Evidence -> Nat]]]
      /\ tests \in [Hypothesis -> SUBSET {"positive", "refuted"}]
      /\ root \in Hypothesis \cup {NoHypothesis} /\ NoHypothesis \notin Hypothesis
      /\ RootCauseGrounded /\ MarkWeighed
  BY DEF DiagTypeOK, Grounded
<1>1. ASSUME NEW cut \in BOOLEAN, AttachSignal(cut) PROVE Grounded'
  <2>1. UNCHANGED groundVars
    BY <1>1 DEF AttachSignal, evidenceVars, groundVars
  <2> QED
    BY <1>0, <2>1, SameJudgement DEF groundVars, Grounded, RootCauseGrounded, MarkWeighed
<1>2. ASSUME NEW h \in Hypothesis, AddHypothesis(h) PROVE Grounded'
  <2>1. /\ hyp[h] = "NONE" /\ hyp' = [hyp EXCEPT ![h] = "ACTIVE"]
        /\ revised' = revised \cup {h} /\ UNCHANGED <<root, weight, tests, torn>>
    BY <1>2 DEF AddHypothesis
  <2>2. \A g \in Hypothesis : (Supported(g)' <=> Supported(g)) /\ (Refuted(g)' <=> Refuted(g))
    BY <2>1, SameJudgement
  <2>3. RootCauseGrounded'
    BY <1>0, <2>1, <2>2 DEF RootCauseGrounded
  <2>4. MarkWeighed'
    BY <1>0, <2>1, <2>2 DEF MarkWeighed
  <2> QED BY <2>3, <2>4 DEF Grounded
<1>3. ASSUME NEW h \in Hypothesis, NEW e \in Evidence, NEW p \in Polarity,
             NEW w \in Weights[p], NEW cut \in BOOLEAN, LinkEvidence(h, e, p, w, cut)
      PROVE  Grounded'
  <2>1. /\ hyp[h] # "NONE"
        /\ \A g \in Hypothesis \ {h} : weight'[g] = weight[g]
        /\ revised' = revised \cup {h} /\ UNCHANGED <<root, tests>>
    BY <1>0, <1>3 DEF LinkEvidence
  <2>2. Balance(h)' \notin {"NONE", "ROOT_CAUSE"}
    BY DEF Balance, Standing
  <2>3. /\ hyp'[h] # "NONE" /\ (hyp'[h] = "ROOT_CAUSE" => hyp[h] = "ROOT_CAUSE" /\ h \in torn')
        /\ \A g \in Hypothesis \ {h} : hyp'[g] = hyp[g] /\ (g \in torn' <=> g \in torn)
    <3>1. CASE hyp' = [hyp EXCEPT ![h] = Balance(h)'] /\ torn' = torn \ {h}
      BY <1>0, <2>1, <2>2, <3>1
    <3>2. CASE torn' = (IF hyp[h] = "ROOT_CAUSE" THEN torn \cup {h} ELSE torn) /\ UNCHANGED hyp
      BY <1>0, <2>1, <3>2
    <3> QED BY <1>3, <3>1, <3>2 DEF LinkEvidence
  <2>4. \A g \in Hypothesis \ {h} :
          (Supported(g)' <=> Supported(g)) /\ (Refuted(g)' <=> Refuted(g))
    BY <2>1, SameJudgement
  <2>5. RootCauseGrounded'
    BY <1>0, <2>1, <2>3, <2>4 DEF RootCauseGrounded
  <2>6. MarkWeighed'
    BY <1>0, <2>3, <2>4 DEF MarkWeighed
  <2> QED BY <2>5, <2>6 DEF Grounded
<1>4. ASSUME NEW h \in Hypothesis, NEW outcome \in {"positive", "refuted"},
             RecordAttempt(h, outcome)
      PROVE  Grounded'
  <2>1. /\ hyp[h] # "NONE" /\ tests' = [tests EXCEPT ![h] = @ \cup {outcome}]
        /\ revised' = revised \cup {h} /\ UNCHANGED <<root, hyp, weight, torn>>
    BY <1>4 DEF RecordAttempt
  <2>2. /\ \A g \in Hypothesis : tests[g] \subseteq tests'[g]
        /\ \A g \in Hypothesis \ {h} : tests'[g] = tests[g]
    BY <1>0, <2>1
  <2>3. \A g \in Hypothesis : Supported(g)' <=> Supported(g)
    BY <2>1 DEF Supported, Balance, Weight
  <2>4. \A g \in Hypothesis \ {h} : Refuted(g)' <=> Refuted(g)
    BY <2>1, <2>2, SameJudgement
  <2>5. RootCauseGrounded'
    BY <1>0, <2>1, <2>2, <2>3, <2>4 DEF RootCauseGrounded
  <2>6. MarkWeighed'
    BY <1>0, <2>1, <2>3 DEF MarkWeighed
  <2> QED BY <2>5, <2>6 DEF Grounded
<1>5. ASSUME NEW h \in Hypothesis, NEW cut \in BOOLEAN, ConfirmRootCause(h, cut)
      PROVE  Grounded'
  <2>1. /\ hyp[h] # "NONE" /\ Supported(h) /\ "positive" \in tests[h]
        /\ \A g \in Hypothesis \ {h} : hyp[g] = "NONE" \/ Refuted(g)
        /\ hyp' = [hyp EXCEPT ![h] = "ROOT_CAUSE"] /\ UNCHANGED <<weight, tests>>
    BY <1>5 DEF ConfirmRootCause, Discriminated
  <2>2. \A g \in Hypothesis : (Supported(g)' <=> Supported(g)) /\ (Refuted(g)' <=> Refuted(g))
    BY <2>1, SameJudgement
  <2>3. /\ hyp'[h] = "ROOT_CAUSE" /\ \A g \in Hypothesis \ {h} : hyp'[g] = hyp[g]
    BY <1>0, <2>1
  <2>0. \A g \in Hypothesis \ {h} : g \in torn => g \in torn'
    BY <1>5 DEF ConfirmRootCause
  <2>4. MarkWeighed'
    BY <1>0, <2>0, <2>1, <2>2, <2>3 DEF MarkWeighed
  <2>5. CASE root' = h /\ torn' = torn \ {h}
    <3>1. \A g \in Hypothesis \ {h} :
            hyp[g] = "ROOT_CAUSE" => "refuted" \in tests[g] \/ g \in torn
      BY <1>0, <2>1, WeighedOneWay DEF MarkWeighed
    <3> QED BY <1>0, <2>1, <2>2, <2>3, <2>4, <2>5, <3>1 DEF RootCauseGrounded, Grounded
  <2>6. CASE torn' = torn \cup ({h} \ {root}) /\ UNCHANGED <<root, revised>>
    BY <1>0, <2>1, <2>2, <2>3, <2>4, <2>6 DEF RootCauseGrounded, Grounded
  <2> QED BY <1>5, <2>5, <2>6 DEF ConfirmRootCause
<1> QED BY <1>1, <1>2, <1>3, <1>4, <1>5 DEF DiagNext

\* confirm_root_cause, link_evidence and record_attempt: a confirmed root cause passed a
\* discriminating test and outweighs what speaks against it, its rivals are refuted, and
\* no other mark is left unless a test or a call cut between its two statements explains
\* it, for any number of hypotheses, pieces of evidence and weights.
THEOREM RootCauseIsGrounded == CtlSpec => []RootCauseGrounded
<1>1. CtlInit => Grounded
  BY DEF CtlInit, RemInit, DiagInit, Grounded, RootCauseGrounded, MarkWeighed
<1>2. Inv /\ Grounded /\ [CtlNext]_ctlVars => Grounded'
  <2> SUFFICES ASSUME Inv, Grounded, [CtlNext]_ctlVars PROVE Grounded'
    OBVIOUS
  <2>1. CASE UNCHANGED groundVars
    <3>1. UNCHANGED <<root, hyp, weight, tests, revised, torn>>
      BY <2>1 DEF groundVars
    <3> QED
      BY <3>1 DEF Grounded, RootCauseGrounded, MarkWeighed, Supported, Refuted, Balance, Weight
  <2>2. CASE Diagnose
    BY <2>2, GroundedStep DEF Diagnose, Inv, TypeInv, CtlTypeOK, RemTypeOK
  <2>3. CASE UNCHANGED ctlVars
    BY <2>1, <2>3 DEF ctlVars, diagVars, groundVars
  <2>4. CASE RemNext
    <3>1. ASSUME NEW c \in Correction, Plan(c) \/ LabSubmit(c) \/ Judge(c) PROVE UNCHANGED groundVars
      BY <3>1 DEF Plan, LabSubmit, Judge, groundVars, diagVars
    <3>2. ASSUME NEW c \in Correction, NEW s,
                 \/ SaveOwn(c) \/ Write(c) \/ Complete(c) \/ RollBack(c) \/ Fail(c) \/ Refuse(c, s)
          PROVE  UNCHANGED groundVars
      BY <3>2 DEF SaveOwn, Write, Complete, RollBack, Fail, Refuse, groundVars, diagVars
    <3>3. ASSUME LabSave \/ Restore \/ CrashController PROVE UNCHANGED groundVars
      BY <3>3 DEF LabSave, Restore, CrashController, groundVars, diagVars
    <3>4. ASSUME NEW cut, LabLink(cut) \/ Conclude(cut) PROVE UNCHANGED groundVars
      BY <3>4 DEF LabLink, Conclude, groundVars, evidenceVars
    <3>5. ASSUME NEW c \in Correction, NEW cut, FinalizeIncident(c, cut) PROVE UNCHANGED groundVars
      BY <3>5 DEF FinalizeIncident, groundVars, evidenceVars
    <3>6. ASSUME NEW t \in Task, NEW w, LoseWorker(t) \/ Claim(w, t) PROVE UNCHANGED groundVars
      BY <3>6 DEF LoseWorker, Claim, groundVars, diagVars
    <3> HIDE DEF groundVars
    <3> QED BY <2>1, <2>2, <2>4, <3>1, <3>2, <3>3, <3>4, <3>5, <3>6 DEF RemNext
  <2>5. CASE CtlNext /\ ~RemNext
    <3>1. OpStep => UNCHANGED groundVars
      BY DEF OpStep, groundVars, diagVars
    <3>2. ASSUME NEW t \in Task, DispatcherClaim(t) PROVE UNCHANGED groundVars
      BY <3>2 DEF DispatcherClaim, Claim, groundVars, diagVars
    <3>3. ASSUME NEW k \in Command,
                 \/ EnterTask(k) \/ EnterRow(k) \/ EnterLost(k) \/ Mismatch(k) \/ Unknown(k)
                 \/ Dispatch(k) \/ CompleteCommand(k) \/ CloseCommand(k) \/ CloseLost(k)
                 \/ RefuseCommand(k)
          PROVE  OpStep
      BY <3>3 DEF EnterTask, EnterRow, EnterLost, Mismatch, Unknown, Dispatch, CompleteCommand,
                  CloseCommand, CloseLost, RefuseCommand
    <3>4. ASSUME NEW t \in Task, NEW s, Reject(t) \/ RunChild(t, s) PROVE OpStep
      BY <3>4 DEF Reject, RunChild
    <3>5. Child \subseteq Task
      BY DEF Child
    <3> HIDE DEF groundVars
    <3> QED BY <2>1, <2>5, <3>1, <3>2, <3>3, <3>4, <3>5 DEF CtlNext
  <2> QED BY <2>3, <2>4, <2>5
<1>3. Grounded => RootCauseGrounded
  BY DEF Grounded
<1> QED BY <1>1, <1>2, <1>3, InvHolds, PTL DEF CtlSpec
=============================================================================
