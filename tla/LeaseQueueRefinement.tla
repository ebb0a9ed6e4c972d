------------------------ MODULE LeaseQueueRefinement ------------------------
(***************************************************************************)
(* DurableTasks implements LeaseQueue, keeps its retry budget, never       *)
(* stores two tasks under one idempotency key, and its audit ledger agrees *)
(* with its table.  All four rest on one lemma: whatever a step of the     *)
(* program is, what it does to the table is one of four changes, or        *)
(* nothing these properties look at.                                       *)
(***************************************************************************)
EXTENDS DurableTasksProofs

\* What the properties below look at in t's row is unchanged.
Same(t) ==
  /\ tasks'[t].state = tasks[t].state
  /\ tasks'[t].lease_owner = tasks[t].lease_owner
  /\ tasks'[t].attempts = tasks[t].attempts
  /\ tasks'[t].max_attempts = tasks[t].max_attempts
  /\ tasks'[t].key = tasks[t].key
  /\ tasks'[t].mission = tasks[t].mission
  /\ expiries'[t] = expiries[t]
  /\ retries'[t] = retries[t]

OnlyRow(t) == \A u \in Task \ {t} : Same(u)

Born(t, k, max) ==
  /\ WithKey(k) = {}
  /\ tasks[t].state = "ABSENT"
  /\ tasks'[t].state = "QUEUED"
  /\ tasks'[t].lease_owner = NULL
  /\ tasks'[t].attempts = 0
  /\ tasks'[t].max_attempts = max
  /\ tasks'[t].key = k
  /\ tasks'[t].mission \in Mission
  /\ expiries'[t] = expiries[t]
  /\ retries'[t] = retries[t]

TakenBack(t) ==
  /\ tasks[t].state = "RUNNING"
  /\ tasks'[t].state = "QUEUED"
  /\ tasks'[t].lease_owner = NULL
  /\ tasks'[t].attempts = tasks[t].attempts
  /\ tasks'[t].max_attempts = tasks[t].max_attempts
  /\ tasks'[t].key = tasks[t].key
  /\ tasks'[t].mission = tasks[t].mission
  /\ expiries'[t] = expiries[t] + 1
  /\ retries'[t] = retries[t]

HandedOut(t, w) ==
  /\ tasks[t].state = "QUEUED"
  /\ tasks'[t].state = "RUNNING"
  /\ tasks'[t].lease_owner = w
  /\ tasks'[t].attempts = tasks[t].attempts + 1
  /\ tasks'[t].max_attempts = tasks[t].max_attempts
  /\ tasks'[t].key = tasks[t].key
  /\ tasks'[t].mission = tasks[t].mission
  /\ expiries'[t] = expiries[t]
  /\ retries'[t] = retries[t]

Reported(t, s) ==
  /\ tasks[t].state = "RUNNING"
  /\ tasks'[t].state = s
  /\ tasks'[t].lease_owner = NULL
  /\ tasks'[t].attempts = tasks[t].attempts
  /\ tasks'[t].max_attempts = tasks[t].max_attempts
  /\ tasks'[t].key = tasks[t].key
  /\ tasks'[t].mission = tasks[t].mission
  /\ expiries'[t] = expiries[t]
  /\ IF s = "QUEUED" THEN /\ Retries(t)
                          /\ retries'[t] = retries[t] + 1
                     ELSE retries'[t] = retries[t]
  /\ s = "FAILED" => ~Retries(t)

RowStep ==
  \/ \A t \in Task : Same(t)
  \/ \E t \in Task, k \in Key, max \in 1..MaxAttempts : Born(t, k, max) /\ OnlyRow(t)
  \/ \A t \in Task : IF t \in Expired(0) THEN TakenBack(t) ELSE Same(t)
  \/ \E t \in Task, w \in Worker : HandedOut(t, w) /\ OnlyRow(t)
  \/ \E t \in Task, s \in Settled \cup {"QUEUED"} : Reported(t, s) /\ OnlyRow(t)

\* A step that leaves the table and its counters alone.
LEMMA Untouched ==
  ASSUME UNCHANGED <<tasks, expiries, retries>> PROVE RowStep
  BY DEF RowStep, Same

LEMMA RecoverStep ==
  ASSUME TypeInv, RecoverExpired PROVE RowStep
  <1>1. ASSUME NEW t \in Task, t \in Expired(0) PROVE TakenBack(t)
    <2>1. tasks[t] \in TaskRow /\ tasks[t].state = "RUNNING"
      BY <1>1 DEF TypeInv, TypeOK, TaskRow, Expired
    <2>2. /\ tasks'[t] = Requeued(tasks[t])
          /\ expiries'[t] = expiries[t] + 1
          /\ retries'[t] = retries[t]
      BY <1>1 DEF RecoverExpired
    <2>3. QED
      BY <2>1, <2>2, RequeuedRow DEF TakenBack
  <1>2. ASSUME NEW t \in Task, t \notin Expired(0) PROVE Same(t)
    BY <1>2 DEF RecoverExpired, Same
  <1>3. QED
    BY <1>1, <1>2 DEF RowStep

LEMMA ReportStep ==
  ASSUME TypeInv, NEW p \in Proc, pc[p] = "leased", Owns(p),
         NEW s \in Settled \cup {"QUEUED"}, NEW d \in Int,
         tasks' = [tasks EXCEPT ![lease[p].task] = Released(tasks[lease[p].task], s, d)],
         UNCHANGED expiries,
         IF s = "QUEUED"
         THEN /\ Retries(lease[p].task)
              /\ retries' = [retries EXCEPT ![lease[p].task] = @ + 1]
         ELSE UNCHANGED retries,
         s = "FAILED" => ~Retries(lease[p].task)
  PROVE  RowStep
  <1> DEFINE t == lease[p].task
             r == tasks[t]
  <1>0. tasks \in [Task -> TaskRow]
    BY DEF TypeInv, TypeOK, TaskRow
  <1>1. /\ t \in Task /\ r \in TaskRow /\ r.state = "RUNNING" /\ s \in TaskState
        /\ retries \in [Task -> Nat]
    BY <1>0 DEF TypeInv, TypeOK, Memory, Owns, TaskState, Settled
  <1>2. tasks'[t] = Released(r, s, d) /\ \A u \in Task \ {t} : tasks'[u] = tasks[u]
    BY <1>0, <1>1
  <1>3. Reported(t, s)
    <2>1. /\ tasks'[t].state = s
          /\ tasks'[t].lease_owner = NULL
          /\ tasks'[t].attempts = r.attempts
          /\ tasks'[t].max_attempts = r.max_attempts
          /\ tasks'[t].key = r.key /\ tasks'[t].mission = r.mission
      <3> HIDE DEF r, t
      <3> QED
        BY <1>1, <1>2, ReleasedRow
    <2>2. s = "QUEUED" => Retries(t) /\ retries'[t] = retries[t] + 1
      BY <1>1
    <2>3. s # "QUEUED" => retries'[t] = retries[t]
      OBVIOUS
    <2>4. QED
      BY <1>1, <2>1, <2>2, <2>3 DEF Reported
  <1>4. OnlyRow(t)
    BY <1>1, <1>2 DEF OnlyRow, Same
  <1>5. QED
    BY <1>1, <1>3, <1>4 DEF RowStep

LEMMA EveryRowStep == TypeInv /\ [Next]_vars => RowStep
  <1> SUFFICES ASSUME TypeInv, [Next]_vars PROVE RowStep
    OBVIOUS
  <1> USE ProcAssumption, BoundAssumption
  <1>0. tasks \in [Task -> TaskRow]
    BY DEF TypeInv, TypeOK, TaskRow
  <1>1. ASSUME NEW p \in Proc, NEW k \in Key, NEW m \in Mission, NEW prio \in Priority,
               NEW max \in 1..MaxAttempts, SubmitTask(p, k, m, prio, max)
        PROVE  RowStep
    <2>1. CASE UNCHANGED tasks
      BY <1>1, <2>1, Untouched DEF SubmitTask, counts
    <2>2. ASSUME NEW t \in Task \ Submitted, WithKey(k) = {},
                 tasks' = [tasks EXCEPT ![t] =
                            NewRow(k, m, prio, max, Cardinality(Submitted) + 1)]
          PROVE  RowStep
      <3>1. Born(t, k, max)
        BY <1>1, <2>2, <1>0, NewRowRow, SubmittedCount
           DEF SubmitTask, counts, Submitted, Born
      <3>2. OnlyRow(t)
        BY <1>1, <2>2, <1>0 DEF SubmitTask, counts, OnlyRow, Same
      <3>3. QED
        BY <3>1, <3>2 DEF RowStep
    <2>3. QED
      BY <1>1, <2>1, <2>2 DEF SubmitTask
  <1>2. ASSUME NEW p \in Proc, Resume(p) \/ ClaimRecover(p) PROVE RowStep
    BY <1>2, RecoverStep DEF Resume, ClaimRecover
  <1>3. ASSUME NEW p \in Proc, NEW m \in Mission \cup {NULL}, ClaimTake(p, m)
        PROVE  RowStep
    <2>1. PICK t \in First(Due(age[p], m)) :
            tasks' = [tasks EXCEPT ![t] = Leased(tasks[t], WorkerOf[p], LeaseTime - age[p])]
      BY <1>3 DEF ClaimTake
    <2> DEFINE r == tasks[t]
               w == WorkerOf[p]
               l == LeaseTime - age[p]
    <2>2. /\ t \in Task /\ r.state = "QUEUED" /\ r \in TaskRow
          /\ l \in Int /\ w \in Worker
      BY <1>0 DEF First, Due, TypeInv, TypeOK
    <2>3. tasks'[t] = Leased(r, w, l) /\ \A u \in Task \ {t} : tasks'[u] = tasks[u]
      BY <1>0, <2>1, <2>2
    <2>4. expiries' = expiries /\ retries' = retries
      BY <1>3 DEF ClaimTake, counts
    <2>5. OnlyRow(t)
      BY <2>3, <2>4 DEF OnlyRow, Same
    <2>6. HandedOut(t, w)
      <3> HIDE DEF r, w, l
      <3>1. /\ tasks'[t].state = "RUNNING" /\ tasks'[t].lease_owner = w
            /\ tasks'[t].attempts = r.attempts + 1
            /\ tasks'[t].max_attempts = r.max_attempts
            /\ tasks'[t].key = r.key /\ tasks'[t].mission = r.mission
        BY <2>2, <2>3, LeasedRow
      <3>2. QED
        BY <2>2, <2>4, <3>1 DEF HandedOut, r
    <2>7. QED
      BY <2>2, <2>5, <2>6 DEF RowStep
  <1>4. ASSUME NEW p \in Proc, NEW s \in Settled, NEW a \in OutcomeActions, Finish(p, s, a),
               s # "FAILED"
        PROVE  RowStep
    <2>1. tasks[lease[p].task].next_left \in Int
      BY <1>4, <1>0 DEF Finish, TypeInv, Memory, TaskRow
    <2>2. QED
      BY <1>4, <2>1, ReportStep DEF Finish, counts, Settled
  <1>5. ASSUME NEW p \in Proc, NEW d \in 0..RetryDelay, FailTask(p, d)
        PROVE  RowStep
    <2>1. CASE Retries(lease[p].task)
      BY <1>5, <2>1, ReportStep DEF FailTask, Settled
    <2>2. CASE ~Retries(lease[p].task)
      BY <1>5, <2>2, ReportStep DEF FailTask, Settled
    <2>3. QED
      BY <2>1, <2>2
  <1>6. ASSUME NEW p \in Proc,
               \/ \E m \in Mission \cup {NULL} : ClaimNone(p, m)
               \/ ReportRefused(p)
               \/ AuditAppend(p)
               \/ Crash(p)
        PROVE  RowStep
    BY <1>6, Untouched DEF ClaimNone, ReportRefused, AuditAppend, Crash, counts
  <1>7. ASSUME Tick PROVE RowStep
    <2>1. \A t \in Task : tasks'[t] = Aged(tasks[t])
      BY <1>7 DEF Tick
    <2>2. \A t \in Task : Same(t)
      BY <1>7, <1>0, <2>1, AgedRow DEF Tick, counts, Same
    <2>3. QED
      BY <2>2 DEF RowStep
  <1>8. CASE UNCHANGED vars
    BY <1>8, Untouched DEF vars
  <1>9. QED
    BY <1>1, <1>2, <1>3, <1>4, <1>5, <1>6, <1>7, <1>8
       DEF Next, Call, CompleteTask, BlockTask, Settled, OutcomeActions
-----------------------------------------------------------------------------
(* The retry budget *)

\* A task that was never submitted has no owner and was never claimed.
BlankRows ==
  \A t \in Task : tasks[t].state = "ABSENT" =>
    /\ tasks[t].lease_owner = NULL
    /\ expiries[t] = 0
    /\ retries[t] = 0

BudgetInv == TypeInv /\ BlankRows /\ RetryBudget

LEMMA InitBudget == Init => BudgetInv
  BY InitType DEF Init, NoTask, BudgetInv, BlankRows, RetryBudget, Submitted

LEMMA NextBudget == BudgetInv /\ [Next]_vars => BudgetInv'
  <1> SUFFICES ASSUME BudgetInv, [Next]_vars PROVE BudgetInv'
    OBVIOUS
  <1> USE BoundAssumption DEF BudgetInv
  <1>1. TypeInv' /\ RowStep
    BY NextType, EveryRowStep
  <1> SUFFICES ASSUME NEW t \in Task
               PROVE  /\ (tasks[t].state = "ABSENT" =>
                            tasks[t].lease_owner = NULL /\ expiries[t] = 0 /\ retries[t] = 0)'
                      /\ (tasks[t].state # "ABSENT" =>
                            /\ tasks[t].attempts = expiries[t] + retries[t]
                                 + (IF tasks[t].state = "QUEUED" THEN 0 ELSE 1)
                            /\ retries[t] < tasks[t].max_attempts
                            /\ tasks[t].state = "FAILED" =>
                                 tasks[t].attempts >= tasks[t].max_attempts)'
    BY <1>1 DEF BlankRows, RetryBudget, Submitted
  <1>2. /\ tasks[t].attempts \in Nat /\ tasks[t].max_attempts \in Nat
        /\ expiries[t] \in Nat /\ retries[t] \in Nat
    BY DEF TypeInv, TypeOK
  <1>3. /\ tasks[t].state = "ABSENT" =>
             tasks[t].lease_owner = NULL /\ expiries[t] = 0 /\ retries[t] = 0
        /\ tasks[t].state # "ABSENT" =>
             /\ tasks[t].attempts = expiries[t] + retries[t]
                  + (IF tasks[t].state = "QUEUED" THEN 0 ELSE 1)
             /\ retries[t] < tasks[t].max_attempts
             /\ tasks[t].state = "FAILED" => tasks[t].attempts >= tasks[t].max_attempts
    BY DEF BlankRows, RetryBudget, Submitted
  <1>4. CASE Same(t)
    BY <1>3, <1>4 DEF Same
  <1>5. CASE \E k \in Key, max \in 1..MaxAttempts : Born(t, k, max)
    BY <1>2, <1>3, <1>5 DEF Born
  <1>6. CASE TakenBack(t)
    BY <1>2, <1>3, <1>6 DEF TakenBack
  <1>7. CASE \E w \in Worker : HandedOut(t, w)
    BY <1>2, <1>3, <1>7 DEF HandedOut
  <1>8. CASE \E s \in Settled \cup {"QUEUED"} : Reported(t, s)
    BY <1>2, <1>3, <1>8 DEF Reported, Retries, Settled
  <1>9. QED
    BY <1>1, <1>4, <1>5, <1>6, <1>7, <1>8 DEF RowStep, OnlyRow

\* Every claim is accounted for by a retry, an expiry, the attempt under way or the
\* one that settled the task, and fail_task stays within max_attempts.
THEOREM RetryAccounting == Spec => []RetryBudget
  <1>1. BudgetInv => RetryBudget
    BY DEF BudgetInv
  <1>2. QED
    BY <1>1, InitBudget, NextBudget, PTL DEF Spec
-----------------------------------------------------------------------------
(* Idempotent submission *)

LEMMA NextIdempotent ==
  TypeInv /\ IdempotentSubmit /\ [Next]_vars => (TypeInv /\ IdempotentSubmit)'
  <1> SUFFICES ASSUME TypeInv, IdempotentSubmit, [Next]_vars,
                      NEW t \in Task, NEW u \in Task,
                      tasks'[t].state # "ABSENT", tasks'[u].state # "ABSENT",
                      tasks'[t].key = tasks'[u].key
               PROVE  t = u
    BY NextType DEF IdempotentSubmit, Submitted
  <1>1. RowStep
    BY EveryRowStep
  <1>2. CASE \A v \in Task : tasks'[v].key = tasks[v].key
                            /\ (tasks'[v].state # "ABSENT" => tasks[v].state # "ABSENT")
    BY <1>2 DEF IdempotentSubmit, Submitted
  <1>3. ASSUME NEW v \in Task, NEW k \in Key, NEW max \in 1..MaxAttempts,
               Born(v, k, max), OnlyRow(v)
        PROVE  t = u
    BY <1>3 DEF Born, OnlyRow, Same, WithKey, IdempotentSubmit, Submitted
  <1>4. QED
    BY <1>1, <1>2, <1>3
       DEF RowStep, OnlyRow, Same, TakenBack, HandedOut, Reported

\* submit_task never stores a second task under an idempotency key.
THEOREM IdempotentSubmission == Spec => []IdempotentSubmit
  <1>1. Init => TypeInv /\ IdempotentSubmit
    BY InitType DEF Init, NoTask, IdempotentSubmit, Submitted
  <1>2. QED
    BY <1>1, NextIdempotent, PTL DEF Spec
-----------------------------------------------------------------------------
(* The audit ledger *)

\* A process that has no event to append holds none.
Quiet == \A p \in Proc : pc[p] # "audit" => pending[p] = NoEvent

\* What a step does to q's event: nothing; q begins to append one that is not about an
\* outcome; q has just reported; q has appended it; q crashed.
EventStep(q) ==
  \/ pending'[q] = pending[q] /\ (pc'[q] = "audit" <=> pc[q] = "audit")
  \/ pending[q] = NoEvent /\ pc'[q] = "audit" /\ pending'[q].action \notin OutcomeActions
  \/ pending[q] = NoEvent /\ pc[q] = "leased" /\ pc'[q] = "audit"
  \/ /\ pc'[q] # "audit" /\ pending'[q] = NoEvent
     /\ pending[q] \in ledger' \/ pending[q].action \notin OutcomeActions
  \/ Crash(q) /\ pc'[q] # "audit" /\ pending'[q] = NoEvent

\* What a step does to the ledger.
LedgerStep ==
  /\ ledger \subseteq ledger'
  /\ \A e \in ledger' \ ledger : \E p \in Proc :
       pc[p] = "audit" /\ e = pending[p] /\ e.action \in OutcomeActions

LEMMA EveryEventStep ==
  ASSUME TypeInv, Quiet, [Next]_vars
  PROVE  LedgerStep /\ \A q \in Proc : EventStep(q)
  <1>0. /\ pc \in [Proc -> {"idle", "claim", "audit", "leased"}]
        /\ pending \in [Proc -> EventRow]
    BY DEF TypeInv, TypeOK, EventRow
  <1> DEFINE Goal == LedgerStep /\ \A q \in Proc : EventStep(q)
  <1>1. ASSUME NEW p \in Proc, pc[p] \in {"idle", "claim"}, NEW e, ThenAudit(p, e),
               e.action \notin OutcomeActions, UNCHANGED ledger
        PROVE  Goal
    BY <1>0, <1>1 DEF ThenAudit, Quiet, EventStep, LedgerStep
  <1>2. ASSUME NEW p \in Proc, pc[p] = "leased", NEW e, ThenAudit(p, e), UNCHANGED ledger
        PROVE  Goal
    BY <1>0, <1>2 DEF ThenAudit, Quiet, EventStep, LedgerStep
  <1>3. ASSUME NEW p \in Proc, NEW s, s # "audit", pc[p] # "audit",
               pc' = [pc EXCEPT ![p] = s], UNCHANGED <<pending, ledger>>
        PROVE  Goal
    BY <1>0, <1>3 DEF EventStep, LedgerStep
  <1>4. CASE UNCHANGED <<pc, pending, ledger>>
    BY <1>4 DEF EventStep, LedgerStep
  <1>5. ASSUME NEW p \in Proc, AuditAppend(p) PROVE Goal
    <2>1. LedgerStep
      BY <1>5 DEF AuditAppend, LedgerStep
    <2>2. pc'[p] # "audit" /\ pending'[p] = NoEvent
      BY <1>0, <1>5 DEF AuditAppend
    <2>3. pending[p] \in ledger' \/ pending[p].action \notin OutcomeActions
      BY <1>5 DEF AuditAppend
    <2>4. \A q \in Proc \ {p} : pc'[q] = pc[q] /\ pending'[q] = pending[q]
      BY <1>0, <1>5 DEF AuditAppend
    <2>5. QED
      BY <2>1, <2>2, <2>3, <2>4 DEF EventStep
  <1>6. ASSUME NEW p \in Proc, Crash(p) PROVE Goal
    <2>1. pc'[p] # "audit" /\ pending'[p] = NoEvent /\ ledger' = ledger
      BY <1>0, <1>6 DEF Crash
    <2>2. \A q \in Proc \ {p} : pc'[q] = pc[q] /\ pending'[q] = pending[q]
      BY <1>0, <1>6 DEF Crash
    <2>3. QED
      BY <1>6, <2>1, <2>2 DEF EventStep, LedgerStep
  <1>7. ASSUME NEW p \in Proc, NEW k \in Key, NEW m \in Mission, NEW prio \in Priority,
               NEW max \in 1..MaxAttempts, SubmitTask(p, k, m, prio, max)
        PROVE  Goal
    <2>1. PICK t : ThenAudit(p, Event("task_submitted", t, 0))
      BY <1>7 DEF SubmitTask
    <2>2. QED
      BY <1>1, <1>7, <2>1 DEF SubmitTask, Event, OutcomeActions
  <1>8. ASSUME NEW p \in Proc, Resume(p) PROVE Goal
    BY <1>1, <1>8 DEF Resume, Event, OutcomeActions
  <1>9. ASSUME NEW p \in Proc, NEW m \in Mission \cup {NULL}, ClaimTake(p, m) PROVE Goal
    <2>1. PICK t, n : ThenAudit(p, Event("task_claimed", t, n))
      BY <1>9 DEF ClaimTake
    <2>2. QED
      BY <1>1, <1>9, <2>1 DEF ClaimTake, Event, OutcomeActions
  <1>10. ASSUME NEW p \in Proc,
                \/ ClaimRecover(p)
                \/ \E m \in Mission \cup {NULL} : ClaimNone(p, m)
                \/ ReportRefused(p)
         PROVE  Goal
    BY <1>3, <1>10 DEF ClaimRecover, ClaimNone, ReportRefused
  <1>11. ASSUME NEW p \in Proc,
                CompleteTask(p) \/ BlockTask(p) \/ \E d \in 0..RetryDelay : FailTask(p, d)
         PROVE  Goal
    BY <1>2, <1>11 DEF CompleteTask, BlockTask, Finish, FailTask
  <1>12. QED
    BY <1>4, <1>5, <1>6, <1>7, <1>8, <1>9, <1>10, <1>11 DEF Next, Call, Tick, vars

\* The event of a report says what the report did to the row.
LEMMA ReportEvent ==
  ASSUME TypeInv, LeaseInv, [Next]_vars, NEW p \in Proc, pc[p] = "leased", pc'[p] = "audit",
         NEW t \in Task, t = lease[p].task
  PROVE  pending'[p] = Outcome(t)'
  <1>0. /\ pc \in [Proc -> {"idle", "claim", "audit", "leased"}]
        /\ pending \in [Proc -> EventRow]
        /\ tasks \in [Task -> TaskRow] /\ tasks[t] \in TaskRow /\ tasks[t].next_left \in Int
    BY DEF TypeInv, TypeOK, EventRow, TaskRow
  <1>1. CompleteTask(p) \/ BlockTask(p) \/ \E d \in 0..RetryDelay : FailTask(p, d)
    <2>1. ASSUME NEW q \in Proc, Call(q) \/ Crash(q)
          PROVE  q = p
      <3>1. pc' = pc \/ \E s : pc' = [pc EXCEPT ![q] = s]
        BY <2>1 DEF Call, SubmitTask, Resume, ClaimRecover, ClaimTake, ClaimNone, CompleteTask,
                    BlockTask, Finish, FailTask, ReportRefused, AuditAppend, Crash, ThenAudit
      <3>2. QED
        BY <1>0, <3>1
    <2>2. ~Crash(p) /\ ~ReportRefused(p)
      BY <1>0 DEF Crash, ReportRefused
    <2>3. QED
      BY <2>1, <2>2 DEF Next, Tick, vars, Call, SubmitTask, Resume, ClaimRecover, ClaimTake,
                        ClaimNone, AuditAppend
  <1>2. Owns(p) => tasks[t].attempts = lease[p].attempt
    BY DEF LeaseInv, Held
  <1>3. ASSUME NEW s \in TaskState, NEW d \in Int, NEW a, Owns(p),
               tasks' = [tasks EXCEPT ![t] = Released(tasks[t], s, d)],
               ThenAudit(p, Event(a, t, lease[p].attempt)),
               a = CASE s = "COMPLETED" -> "task_completed"
                     [] s = "BLOCKED" -> "task_blocked"
                     [] OTHER -> "task_failed"
        PROVE  pending'[p] = Outcome(t)'
    <2>1. tasks'[t] = Released(tasks[t], s, d)
      BY <1>0, <1>3
    <2>2. tasks'[t].state = s /\ tasks'[t].attempts = tasks[t].attempts
      BY <1>0, <2>1, ReleasedRow
    <2>3. pending'[p] = Event(a, t, lease[p].attempt)
      BY <1>0, <1>3 DEF ThenAudit
    <2>4. QED
      BY <1>2, <1>3, <2>2, <2>3 DEF Outcome
  <1>4. /\ "COMPLETED" \in TaskState /\ "BLOCKED" \in TaskState
        /\ "FAILED" \in TaskState /\ "QUEUED" \in TaskState
    BY DEF TaskState, Settled
  <1>5. CASE CompleteTask(p)
    BY <1>0, <1>3, <1>4, <1>5 DEF CompleteTask, Finish
  <1>6. CASE BlockTask(p)
    BY <1>0, <1>3, <1>4, <1>6 DEF BlockTask, Finish
  <1>7. ASSUME NEW d \in 0..RetryDelay, FailTask(p, d)
        PROVE  pending'[p] = Outcome(t)'
    <2>1. d \in Int
      BY BoundAssumption
    <2>2. QED
      BY <1>3, <1>4, <1>7, <2>1 DEF FailTask
  <1>8. QED
    BY <1>1, <1>5, <1>6, <1>7

\* The outcome of a settled task does not change any more.
LEMMA OutcomeKept ==
  ASSUME RowStep, NEW t \in Task, tasks[t].state \in Settled
  PROVE  tasks'[t].state = tasks[t].state /\ Outcome(t)' = Outcome(t)
  <1>1. Same(t)
    BY DEF RowStep, OnlyRow, Born, TakenBack, HandedOut, Reported, Settled
  <1>2. QED
    BY <1>1 DEF Same, Outcome

\* A task becomes settled by a report whose event is then to be appended.
LEMMA SettledByReport ==
  ASSUME TypeInv, LeaseInv, [Next]_vars, NEW t \in Task,
         tasks[t].state \notin Settled, tasks'[t].state \in Settled
  PROVE  \E p \in Proc : pending'[p] = Outcome(t)'
  <1>1. tasks[t].state = "RUNNING"
    BY EveryRowStep DEF RowStep, OnlyRow, Same, Born, TakenBack, HandedOut, Reported, Settled
  <1>2. PICK p \in Proc : pc[p] = "leased" /\ pc'[p] = "audit" /\ lease[p].task = t
    BY <1>1, NextFenced DEF FencedEnd, Settled
  <1>3. QED
    BY <1>2, ReportEvent

Lost == {t \in Task : /\ tasks[t].state \in Settled
                      /\ Outcome(t) \notin ledger
                      /\ \A p \in Proc : pending[p] # Outcome(t)}

\* An event that says a task was completed or blocked says what the table says.
TrueEvent(e) ==
  e.action \in {"task_completed", "task_blocked"} => e.task \in Task /\ e = Outcome(e.task)

LedgerInv ==
  /\ TypeInv /\ LeaseInv /\ Quiet
  /\ \A e \in ledger : TrueEvent(e)
  /\ \A p \in Proc : TrueEvent(pending[p])
  /\ Cardinality(Lost) <= crashes

LEMMA TrueEventStays ==
  ASSUME RowStep, NEW e, TrueEvent(e) PROVE TrueEvent(e)'
  <1> SUFFICES ASSUME e.action \in {"task_completed", "task_blocked"}
               PROVE  e.task \in Task /\ e = Outcome(e.task)'
    BY DEF TrueEvent
  <1>1. e.task \in Task /\ e = Outcome(e.task)
    BY DEF TrueEvent
  <1>2. tasks[e.task].state \in Settled
    <2>1. Outcome(e.task).action = e.action
      BY <1>1
    <2>2. QED
      BY <2>1 DEF Outcome, Event, Settled
  <1>3. QED
    BY <1>1, <1>2, OutcomeKept

LEMMA LostFinite == IsFiniteSet(Lost) /\ Cardinality(Lost) \in Nat
  BY TaskAssumption, FS_Subset, FS_CardinalityType DEF Lost

LEMMA OneMore ==
  ASSUME NEW S, NEW T, NEW x, IsFiniteSet(S), T \subseteq S \cup {x}
  PROVE  Cardinality(T) \in Nat /\ Cardinality(T) <= Cardinality(S) + 1
  <1>1. Cardinality(S) \in Nat
    BY FS_CardinalityType
  <1>2. /\ IsFiniteSet(S \cup {x})
        /\ Cardinality(S \cup {x}) = IF x \in S THEN Cardinality(S) ELSE Cardinality(S) + 1
    BY FS_AddElement
  <1>3. IsFiniteSet(T) /\ Cardinality(T) <= Cardinality(S \cup {x})
    BY <1>2, FS_Subset
  <1>4. Cardinality(T) \in Nat
    BY <1>3, FS_CardinalityType
  <1>5. QED
    BY <1>1, <1>2, <1>3, <1>4

LEMMA OutcomeEvent ==
  ASSUME NEW t PROVE Outcome(t).action \in OutcomeActions /\ Outcome(t).task = t
  BY DEF Outcome, Event, OutcomeActions

\* A step that is no crash loses no event, and a crash at most the one the process
\* had to append.
LEMMA LostGrows ==
  ASSUME LedgerInv, [Next]_vars, NEW t \in Task, t \in Lost'
  PROVE  t \in Lost \/ \E p \in Proc : Crash(p) /\ pending[p].task = t
  <1>0. /\ TypeInv /\ LeaseInv /\ Quiet /\ RowStep
        /\ LedgerStep /\ \A q \in Proc : EventStep(q)
    BY EveryRowStep, EveryEventStep DEF LedgerInv
  <1>1. /\ tasks'[t].state \in Settled /\ Outcome(t)' \notin ledger'
        /\ \A p \in Proc : pending'[p] # Outcome(t)'
    BY DEF Lost
  <1>2. tasks[t].state \in Settled
    BY <1>0, <1>1, SettledByReport
  <1>3. Outcome(t)' = Outcome(t)
    BY <1>0, <1>2, OutcomeKept
  <1>4. Outcome(t) \notin ledger
    BY <1>0, <1>1, <1>3 DEF LedgerStep
  <1>5. SUFFICES ASSUME NEW p \in Proc, pending[p] = Outcome(t)
                 PROVE  Crash(p) /\ pending[p].task = t
    BY <1>2, <1>4 DEF Lost
  <1>6. pending[p].action \in OutcomeActions /\ pending[p].task = t
    BY <1>5, OutcomeEvent
  <1>7. pending[p] # NoEvent
    BY <1>6 DEF NoEvent, OutcomeActions
  <1>8. QED
    BY <1>0, <1>1, <1>3, <1>5, <1>6, <1>7 DEF EventStep

LEMMA NextLedger == LedgerInv /\ [Next]_vars => LedgerInv'
  <1> SUFFICES ASSUME LedgerInv, [Next]_vars PROVE LedgerInv'
    OBVIOUS
  <1>0. /\ TypeInv /\ LeaseInv /\ Quiet /\ RowStep /\ TypeInv' /\ LeaseInv'
        /\ LedgerStep /\ \A q \in Proc : EventStep(q)
    BY EveryRowStep, EveryEventStep, NextType, NextLease DEF LedgerInv
  <1>1. Quiet'
    BY <1>0 DEF Quiet, EventStep
  <1>2. \A e \in ledger' : TrueEvent(e)'
    <2> SUFFICES ASSUME NEW e \in ledger' PROVE TrueEvent(e)'
      OBVIOUS
    <2>1. TrueEvent(e)
      BY <1>0 DEF LedgerStep, LedgerInv
    <2>2. QED
      BY <1>0, <2>1, TrueEventStays
  <1>3. \A p \in Proc : TrueEvent(pending[p])'
    <2> SUFFICES ASSUME NEW p \in Proc PROVE TrueEvent(pending[p])'
      OBVIOUS
    <2>1. CASE pending'[p] = pending[p]
      <3>1. PICK e : e = pending[p]
        OBVIOUS
      <3>2. TrueEvent(e)'
        BY <1>0, <3>1, TrueEventStays DEF LedgerInv
      <3>3. QED
        BY <2>1, <3>1, <3>2 DEF TrueEvent
    <2>2. CASE pending'[p] = NoEvent \/ pending'[p].action \notin OutcomeActions
      BY <2>2 DEF TrueEvent, NoEvent, OutcomeActions
    <2>3. CASE pc[p] = "leased" /\ pc'[p] = "audit"
      <3>1. PICK t \in Task : t = lease[p].task
        BY <1>0, <2>3 DEF TypeInv, Memory
      <3>2. pending'[p] = Outcome(t)'
        BY <1>0, <2>3, <3>1, ReportEvent
      <3>3. pending'[p].task = t
        BY <3>2 DEF Outcome, Event
      <3>4. QED
        BY <3>2, <3>3 DEF TrueEvent
    <2>4. QED
      BY <1>0, <2>1, <2>2, <2>3 DEF EventStep
  <1>4. Cardinality(Lost') <= crashes'
    <2>0. /\ crashes \in Nat /\ Cardinality(Lost) <= crashes /\ Lost' \subseteq Task
          /\ IsFiniteSet(Lost) /\ Cardinality(Lost) \in Nat
      BY LostFinite DEF LedgerInv, TypeInv, TypeOK, Lost
    <2>1. CASE \E p \in Proc : Crash(p)
      <3>1. PICK p \in Proc : Crash(p)
        BY <2>1
      <3>2. crashes' = crashes + 1
        BY <3>1 DEF Crash
      <3>3. \A q \in Proc : Crash(q) => q = p
        <4>1. pc \in [Proc -> {"idle", "claim", "audit", "leased"}]
          BY <1>0 DEF TypeInv, TypeOK
        <4>2. ASSUME NEW q \in Proc, Crash(q), q # p PROVE FALSE
          <5>1. pc'[q] = "idle" /\ pc[q] # "idle"
            BY <4>1, <4>2 DEF Crash
          <5>2. pc'[q] = pc[q]
            BY <3>1, <4>1, <4>2 DEF Crash
          <5>3. QED
            BY <5>1, <5>2
        <4>3. QED
          BY <4>2
      <3>4. Lost' \subseteq Lost \cup {pending[p].task}
        BY <2>0, <3>3, LostGrows
      <3>5. Cardinality(Lost') \in Nat /\ Cardinality(Lost') <= Cardinality(Lost) + 1
        BY <2>0, <3>4, OneMore
      <3>6. QED
        BY <2>0, <3>2, <3>5
    <2>2. CASE \A p \in Proc : ~Crash(p)
      <3>1. crashes' = crashes
        BY <2>2 DEF Next, Tick, vars, Call, SubmitTask, Resume, ClaimRecover, ClaimTake,
                    ClaimNone, CompleteTask, BlockTask, Finish, FailTask, ReportRefused,
                    AuditAppend
      <3>2. Lost' \subseteq Lost
        BY <2>0, <2>2, LostGrows
      <3>3. IsFiniteSet(Lost') /\ Cardinality(Lost') <= Cardinality(Lost)
        BY <2>0, <3>2, FS_Subset
      <3>4. Cardinality(Lost') \in Nat
        BY <3>3, FS_CardinalityType
      <3>5. QED
        BY <2>0, <3>1, <3>3, <3>4
    <2>3. QED
      BY <2>1, <2>2
  <1>5. QED
    BY <1>0, <1>1, <1>2, <1>3, <1>4 DEF LedgerInv

\* The ledger agrees with the task table: no interleaving of reports, appends and
\* crashes makes it name an outcome the table does not have, and a settled task is
\* missing from it for good only where a process crashed before its append.
THEOREM LedgerAgreement == Spec => []LedgerAgrees
  <1>1. Init => LedgerInv
    <2> SUFFICES ASSUME Init PROVE LedgerInv
      OBVIOUS
    <2>1. TypeInv /\ LeaseInv /\ Quiet
      BY InitLease DEF Init, Quiet
    <2>2. /\ \A e \in ledger : TrueEvent(e)
          /\ \A p \in Proc : TrueEvent(pending[p])
      BY DEF Init, NoEvent, TrueEvent
    <2>3. Lost = {} /\ crashes = 0
      BY DEF Init, Lost, NoTask, Settled
    <2>4. QED
      BY <2>1, <2>2, <2>3, FS_EmptySet DEF LedgerInv
  <1>2. LedgerInv => LedgerAgrees
    BY DEF LedgerInv, TrueEvent, Lost, LedgerAgrees
  <1>3. QED
    BY <1>1, <1>2, NextLedger, PTL DEF Spec
-----------------------------------------------------------------------------
(* Refinement *)

\* DurableTasks implements the abstract lease queue: settled tasks stay settled and
\* a task is handed out from the queue only, to one worker at a time.
THEOREM Refinement == Spec => ImplementsLeaseQueue
  <1>1. Init => Abs!AbsInit
    BY DEF Init, NoTask, Abs!AbsInit
  <1>2. BudgetInv /\ [Next]_vars => [Abs!AbsNext]_(Abs!absVars)
    <2> SUFFICES ASSUME BudgetInv, [Next]_vars
                 PROVE  Abs!AbsNext \/ UNCHANGED Abs!absVars
      OBVIOUS
    <2>1. RowStep
      BY EveryRowStep DEF BudgetInv
    <2>2. CASE \A t \in Task : Same(t)
      BY <2>2 DEF Same, Abs!absVars
    <2>3. ASSUME NEW t \in Task, NEW k \in Key, NEW max \in 1..MaxAttempts,
                 Born(t, k, max), OnlyRow(t)
          PROVE  Abs!Enqueue(t)
      BY <2>3 DEF BudgetInv, BlankRows, Born, OnlyRow, Same, Abs!Enqueue
    <2>4. CASE \A t \in Task : IF t \in Expired(0) THEN TakenBack(t) ELSE Same(t)
      <3>1. PICK S \in SUBSET Task : S = Expired(0)
        BY DEF Expired
      <3>2. Abs!Revoke(S)
        BY <2>4, <3>1 DEF TakenBack, Same, Abs!Revoke
      <3>3. QED
        BY <3>2 DEF Abs!AbsNext
    <2>5. ASSUME NEW t \in Task, NEW w \in Worker, HandedOut(t, w), OnlyRow(t)
          PROVE  Abs!Hand(t, w)
      BY <2>5 DEF HandedOut, OnlyRow, Same, Abs!Hand
    <2>6. ASSUME NEW t \in Task, NEW s \in Settled \cup {"QUEUED"}, Reported(t, s), OnlyRow(t)
          PROVE  Abs!Report(t, s)
      BY <2>6 DEF Reported, OnlyRow, Same, Abs!Report, Settled, Abs!Settled
    <2>7. QED
      BY <2>1, <2>2, <2>3, <2>4, <2>5, <2>6 DEF RowStep, Abs!AbsNext, Settled, Abs!Settled
  <1>3. QED
    BY <1>1, <1>2, InitBudget, NextBudget, PTL DEF Spec, ImplementsLeaseQueue, Abs!AbsSpec
=============================================================================
