------------------------- MODULE DurableTasksProofs -------------------------
(***************************************************************************)
(* Proofs about DurableTasks, for every number of tasks, keys, processes,  *)
(* attempts, crashes and every lease time.                                 *)
(***************************************************************************)
EXTENDS DurableTasks, FiniteSetTheorems, TLAPS

TaskRow == [state : TaskState, key : Key \cup {NULL}, mission : Mission \cup {NULL},
            priority : Int, created : Nat, attempts : Nat, max_attempts : Nat,
            next_left : Int, lease_owner : Worker \cup {NULL}, lease_left : Int]
LeaseCopy == [task : Task \cup {NULL}, attempt : Nat, left : Int]
EventRow == [action : Actions \cup {"none"}, task : Task \cup {NULL}, attempt : Nat]

\* What a process has in memory at each point of its call: a lease from the claim
\* to the report, an event to append while pc is "audit".
Memory ==
  \A p \in Proc :
    /\ pc[p] \in {"idle", "claim"} => lease[p] = NoLease
    /\ pc[p] = "leased" => lease[p].task \in Task
    /\ pc[p] = "audit" =>
         /\ pending[p].action \in Actions
         /\ pending[p].action \in OutcomeActions => pending[p].task \in Task
         /\ IF pending[p].action = "task_claimed"
            THEN lease[p].task \in Task ELSE lease[p] = NoLease

TypeInv == TypeOK /\ Memory

\* What each write to a row changes, and that the row keeps its type.
LEMMA RequeuedRow ==
  ASSUME NEW r \in TaskRow
  PROVE  /\ Requeued(r) \in TaskRow
         /\ Requeued(r).state = "QUEUED"
         /\ Requeued(r).lease_owner = NULL
         /\ Requeued(r).attempts = r.attempts
         /\ Requeued(r).max_attempts = r.max_attempts
         /\ Requeued(r).key = r.key
         /\ Requeued(r).mission = r.mission
  <1>1. 0 \in Int
    OBVIOUS
  <1>2. QED
    BY <1>1, Zenon DEF TaskRow, Requeued, TaskState

LEMMA LeasedRow ==
  ASSUME NEW r \in TaskRow, NEW w \in Worker, NEW l \in Int
  PROVE  /\ Leased(r, w, l) \in TaskRow
         /\ Leased(r, w, l).state = "RUNNING"
         /\ Leased(r, w, l).lease_owner = w
         /\ Leased(r, w, l).lease_left = l
         /\ Leased(r, w, l).attempts = r.attempts + 1
         /\ Leased(r, w, l).max_attempts = r.max_attempts
         /\ Leased(r, w, l).key = r.key
         /\ Leased(r, w, l).mission = r.mission
  <1> DEFINE a == r.attempts + 1
  <1>1. a \in Nat
    BY DEF TaskRow
  <1>2. Leased(r, w, l) = [r EXCEPT !.state = "RUNNING", !.attempts = a,
                                    !.lease_owner = w, !.lease_left = l]
    BY Zenon DEF Leased
  <1> HIDE DEF a
  <1>3. /\ Leased(r, w, l) \in TaskRow
        /\ Leased(r, w, l).state = "RUNNING"
        /\ Leased(r, w, l).lease_owner = w
        /\ Leased(r, w, l).lease_left = l
        /\ Leased(r, w, l).attempts = a
        /\ Leased(r, w, l).max_attempts = r.max_attempts
        /\ Leased(r, w, l).key = r.key
        /\ Leased(r, w, l).mission = r.mission
    BY <1>1, <1>2, Zenon DEF TaskRow, TaskState
  <1>4. QED
    BY <1>3 DEF a

LEMMA ReleasedRow ==
  ASSUME NEW r \in TaskRow, NEW s \in TaskState, NEW d \in Int
  PROVE  /\ Released(r, s, d) \in TaskRow
         /\ Released(r, s, d).state = s
         /\ Released(r, s, d).lease_owner = NULL
         /\ Released(r, s, d).attempts = r.attempts
         /\ Released(r, s, d).max_attempts = r.max_attempts
         /\ Released(r, s, d).key = r.key
         /\ Released(r, s, d).mission = r.mission
  <1>1. 0 \in Int
    OBVIOUS
  <1>2. QED
    BY <1>1, Zenon DEF TaskRow, Released

LEMMA NewRowRow ==
  ASSUME NEW k \in Key, NEW m \in Mission, NEW prio \in Int, NEW max \in Nat, NEW n \in Nat
  PROVE  /\ NewRow(k, m, prio, max, n) \in TaskRow
         /\ NewRow(k, m, prio, max, n).state = "QUEUED"
         /\ NewRow(k, m, prio, max, n).lease_owner = NULL
         /\ NewRow(k, m, prio, max, n).attempts = 0
         /\ NewRow(k, m, prio, max, n).max_attempts = max
         /\ NewRow(k, m, prio, max, n).key = k
         /\ NewRow(k, m, prio, max, n).mission = m
  <1>1. /\ NoTask \in TaskRow
        /\ NoTask.lease_owner = NULL
        /\ NoTask.attempts = 0
    BY DEF NoTask, TaskRow, TaskState
  <1>2. QED
    BY <1>1, Zenon DEF NewRow, TaskRow, TaskState

LEMMA OlderType == \A x \in Int : Older(x) \in Int /\ Older(x) <= x
  BY BoundAssumption DEF Older

LEMMA AgedRow ==
  ASSUME NEW r \in TaskRow
  PROVE  /\ Aged(r) \in TaskRow
         /\ Aged(r).state = r.state
         /\ Aged(r).lease_owner = r.lease_owner
         /\ r.state = "RUNNING" => Aged(r).lease_left = Older(r.lease_left)
         /\ Aged(r).attempts = r.attempts
         /\ Aged(r).max_attempts = r.max_attempts
         /\ Aged(r).key = r.key
         /\ Aged(r).mission = r.mission
  <1>1. Older(r.next_left) \in Int /\ Older(r.lease_left) \in Int
    BY OlderType DEF TaskRow
  <1>2. CASE r.state = "QUEUED"
    <2>1. Aged(r) = [r EXCEPT !.next_left = Older(r.next_left)]
      BY <1>2, Zenon DEF Aged
    <2>2. QED
      BY <1>1, <1>2, <2>1, Zenon DEF TaskRow
  <1>3. CASE r.state = "RUNNING"
    <2>1. Aged(r) = [r EXCEPT !.next_left = Older(r.next_left),
                              !.lease_left = Older(r.lease_left)]
      BY <1>3, Zenon DEF Aged
    <2>2. QED
      BY <1>1, <1>3, <2>1, Zenon DEF TaskRow
  <1>4. CASE r.state \notin {"QUEUED", "RUNNING"}
    <2>1. Aged(r) = r
      BY <1>4 DEF Aged
    <2>2. QED
      BY <1>4, <2>1
  <1>5. QED
    BY <1>2, <1>3, <1>4

\* The number of submitted tasks is a number.
LEMMA SubmittedCount == Cardinality(Submitted) + 1 \in Nat
  <1>1. IsFiniteSet(Submitted)
    BY FS_Subset, TaskAssumption DEF Submitted
  <1>2. QED
    BY <1>1, FS_CardinalityType

LEMMA InitType == Init => TypeInv
  <1> SUFFICES ASSUME Init PROVE TypeInv
    OBVIOUS
  <1>1. TypeOK
    BY DEF Init, TypeOK, NoTask, NoLease, NoEvent, TaskState
  <1>2. Memory
    BY DEF Init, Memory, NoLease, NoEvent
  <1>3. QED
    BY <1>1, <1>2 DEF TypeInv

LEMMA NextType == TypeInv /\ [Next]_vars => TypeInv'
  <1> SUFFICES ASSUME TypeInv, [Next]_vars PROVE TypeInv'
    OBVIOUS
  <1> USE ProcAssumption, BoundAssumption DEF TypeInv
  <1>0. /\ tasks \in [Task -> TaskRow] /\ lease \in [Proc -> LeaseCopy]
        /\ pending \in [Proc -> EventRow]
    BY DEF TypeOK, TaskRow, LeaseCopy, EventRow
  <1>1. ASSUME NEW p \in Proc, NEW k \in Key, NEW m \in Mission, NEW prio \in Priority,
               NEW max \in 1..MaxAttempts, SubmitTask(p, k, m, prio, max)
        PROVE  TypeInv'
    <2>1. tasks' \in [Task -> TaskRow]
      <3>1. CASE UNCHANGED tasks
        BY <3>1, <1>0
      <3>2. CASE \E t \in Task \ Submitted :
                   tasks' = [tasks EXCEPT ![t] =
                              NewRow(k, m, prio, max, Cardinality(Submitted) + 1)]
        <4>1. NewRow(k, m, prio, max, Cardinality(Submitted) + 1) \in TaskRow
          BY NewRowRow, SubmittedCount
        <4>2. QED
          BY <3>2, <4>1, <1>0
      <3>3. QED
        BY <1>1, <3>1, <3>2 DEF SubmitTask
    <2>2. PICK t \in Task : ThenAudit(p, Event("task_submitted", t, 0))
      BY <1>1 DEF SubmitTask, WithKey, Submitted
    <2>3. TypeOK'
      BY <1>1, <2>1, <2>2 DEF SubmitTask, counts, ThenAudit, Event, TypeOK, TaskRow, Actions
    <2>4. Memory'
      BY <1>1, <2>2 DEF SubmitTask, counts, ThenAudit, Event, Memory, TypeOK, Actions, OutcomeActions
    <2>5. QED
      BY <2>3, <2>4
  <1>2. ASSUME NEW p \in Proc, Resume(p) PROVE TypeInv'
    <2>1. tasks' \in [Task -> TaskRow]
      BY <1>2, <1>0, RequeuedRow DEF Resume, RecoverExpired
    <2>2. expiries' \in [Task -> Nat] /\ retries' \in [Task -> Nat]
      BY <1>2 DEF Resume, RecoverExpired, TypeOK
    <2>3. TypeOK'
      BY <1>2, <2>1, <2>2 DEF Resume, ThenAudit, Event, TypeOK, TaskRow, Actions
    <2>4. Memory'
      BY <1>2 DEF Resume, ThenAudit, Event, Memory, TypeOK, Actions, OutcomeActions
    <2>5. QED
      BY <2>3, <2>4
  <1>3. ASSUME NEW p \in Proc, ClaimRecover(p) PROVE TypeInv'
    <2>1. tasks' \in [Task -> TaskRow]
      BY <1>3, <1>0, RequeuedRow DEF ClaimRecover, RecoverExpired
    <2>2. expiries' \in [Task -> Nat] /\ retries' \in [Task -> Nat]
      BY <1>3 DEF ClaimRecover, RecoverExpired, TypeOK
    <2>3. TypeOK'
      BY <1>3, <2>1, <2>2 DEF ClaimRecover, TypeOK, TaskRow
    <2>4. Memory'
      BY <1>3 DEF ClaimRecover, Memory, TypeOK
    <2>5. QED
      BY <2>3, <2>4
  <1>4. ASSUME NEW p \in Proc, NEW m \in Mission \cup {NULL}, ClaimTake(p, m)
        PROVE  TypeInv'
    <2> PICK t \in First(Due(age[p], m)) :
            /\ tasks' = [tasks EXCEPT ![t] = Leased(tasks[t], WorkerOf[p], LeaseTime - age[p])]
            /\ lease' = [lease EXCEPT ![p] = [task |-> t, attempt |-> tasks[t].attempts + 1,
                                              left |-> LeaseTime - age[p]]]
            /\ ThenAudit(p, Event("task_claimed", t, tasks[t].attempts + 1))
      BY <1>4 DEF ClaimTake
    <2>0. t \in Task
      BY DEF First, Due
    <2>1. tasks' \in [Task -> TaskRow]
      BY <2>0, <1>0, LeasedRow DEF TypeOK
    <2>3. TypeOK'
      BY <1>4, <2>0, <2>1 DEF ClaimTake, counts, ThenAudit, Event, TypeOK, TaskRow, Actions
    <2>4. Memory'
      BY <1>4, <2>0 DEF ClaimTake, counts, ThenAudit, Event, Memory, TypeOK, Actions, OutcomeActions
    <2>5. QED
      BY <2>3, <2>4
  <1>5. ASSUME NEW p \in Proc, NEW m \in Mission \cup {NULL}, ClaimNone(p, m)
        PROVE  TypeInv'
    BY <1>5 DEF ClaimNone, counts, TypeOK, Memory
  <1>6. ASSUME NEW p \in Proc, NEW s \in Settled, NEW a \in OutcomeActions, Finish(p, s, a)
        PROVE  TypeInv'
    <2>0. lease[p].task \in Task
      BY <1>6 DEF Finish, counts, Memory
    <2>1. tasks' \in [Task -> TaskRow]
      <3>1. tasks[lease[p].task] \in TaskRow /\ tasks[lease[p].task].next_left \in Int
        BY <2>0, <1>0 DEF TaskRow
      <3>2. Released(tasks[lease[p].task], s, tasks[lease[p].task].next_left) \in TaskRow
        BY <3>1, <1>6, ReleasedRow DEF TaskState
      <3>3. QED
        BY <2>0, <3>2, <1>6, <1>0 DEF Finish
    <2>3. TypeOK'
      BY <1>6, <2>0, <2>1 DEF Finish, counts, Drop, NoLease, ThenAudit, Event, TypeOK, TaskRow, Actions
    <2>4. Memory'
      BY <1>6, <2>0 DEF Finish, counts, Drop, NoLease, ThenAudit, Event, Memory, TypeOK, Actions, OutcomeActions
    <2>5. QED
      BY <2>3, <2>4
  <1>7. ASSUME NEW p \in Proc, NEW d \in 0..RetryDelay, FailTask(p, d)
        PROVE  TypeInv'
    <2>0. lease[p].task \in Task
      BY <1>7 DEF FailTask, Memory
    <2>1. tasks' \in [Task -> TaskRow]
      <3>1. /\ tasks[lease[p].task] \in TaskRow /\ d \in Int
            /\ "QUEUED" \in TaskState /\ "FAILED" \in TaskState
        BY <2>0, <1>0 DEF TaskState, Settled
      <3>2. /\ Released(tasks[lease[p].task], "QUEUED", d) \in TaskRow
            /\ Released(tasks[lease[p].task], "FAILED", d) \in TaskRow
        BY <3>1, ReleasedRow
      <3>3. \/ tasks' = [tasks EXCEPT ![lease[p].task] = Released(tasks[lease[p].task], "QUEUED", d)]
            \/ tasks' = [tasks EXCEPT ![lease[p].task] = Released(tasks[lease[p].task], "FAILED", d)]
        BY <1>7 DEF FailTask
      <3>4. QED
        BY <2>0, <3>2, <3>3, <1>0
    <2>2. expiries' \in [Task -> Nat] /\ retries' \in [Task -> Nat]
      BY <2>0, <1>7 DEF FailTask, TypeOK
    <2>3. TypeOK'
      BY <1>7, <2>0, <2>1, <2>2 DEF FailTask, Drop, NoLease, ThenAudit, Event, TypeOK, TaskRow,
                             Actions, OutcomeActions
    <2>4. Memory'
      BY <1>7, <2>0 DEF FailTask, Drop, NoLease, ThenAudit, Event, Memory, TypeOK, Actions, OutcomeActions
    <2>5. QED
      BY <2>3, <2>4
  <1>8. ASSUME NEW p \in Proc, ReportRefused(p) PROVE TypeInv'
    BY <1>8 DEF ReportRefused, counts, Drop, NoLease, TypeOK, Memory
  <1>9. ASSUME NEW p \in Proc, AuditAppend(p) PROVE TypeInv'
    <2>3. TypeOK'
      BY <1>9 DEF AuditAppend, counts, NoEvent, Memory, TypeOK, Actions, OutcomeActions
    <2>4. Memory'
      BY <1>9 DEF AuditAppend, counts, Memory, TypeOK, OutcomeActions
    <2>5. QED
      BY <2>3, <2>4
  <1>10. ASSUME NEW p \in Proc, Crash(p) PROVE TypeInv'
    BY <1>10 DEF Crash, counts, NoLease, NoEvent, TypeOK, Memory
  <1>11. ASSUME Tick PROVE TypeInv'
    <2>1. tasks' \in [Task -> TaskRow]
      BY <1>11, <1>0, AgedRow DEF Tick
    <2>2. lease' \in [Proc -> LeaseCopy]
      BY OlderType, <1>11, <1>0 DEF Tick, counts, LeaseCopy
    <2>3. TypeOK'
      BY <1>11, <2>1, <2>2 DEF Tick, counts, TypeOK, TaskRow, LeaseCopy
    <2>4. Memory'
      BY <1>11, <2>2, <1>0 DEF Tick, counts, TypeOK, Memory, LeaseCopy
    <2>5. QED
      BY <2>3, <2>4
  <1>12. CASE UNCHANGED vars
    BY <1>12 DEF vars, counts, TypeOK, Memory
  <1>13. QED
    BY <1>1, <1>2, <1>3, <1>4, <1>5, <1>6, <1>7, <1>8, <1>9, <1>10, <1>11, <1>12
       DEF Next, Call, CompleteTask, BlockTask, Settled, OutcomeActions

\* Type correctness: whatever interleaving of submissions, claims, reports, crashes
\* and clock ticks, the store and the processes hold values the code can produce.
THEOREM TypeCorrect == Spec => []TypeOK
  <1>1. Spec => []TypeInv
    BY InitType, NextType, PTL DEF Spec
  <1>2. TypeInv => TypeOK
    BY DEF TypeInv
  <1>3. QED
    BY <1>1, <1>2, PTL
-----------------------------------------------------------------------------
(* Exclusive leases *)

\* A row that runs under p's id is the very claim p holds, and until p's deadline
\* it does run under p's id.
Held(p) ==
  lease[p].task \in Task =>
    /\ Owns(p) => /\ tasks[lease[p].task].attempts = lease[p].attempt
                  /\ tasks[lease[p].task].lease_left = lease[p].left
    /\ lease[p].left > 0 => Owns(p)

\* What makes exclusive leases inductive.
LeaseInv == \A p \in Proc : Held(p)

\* A step that leaves q's lease and its row alone.
LEMMA HeldUntouched ==
  ASSUME NEW q \in Proc, Held(q), lease'[q] = lease[q],
         lease[q].task \in Task => tasks'[lease[q].task] = tasks[lease[q].task]
  PROVE  Held(q)'
  BY DEF Held, Owns

\* q's row is not leased to it any more: q's own deadline must be past.
LEMMA HeldLost ==
  ASSUME NEW q \in Proc, lease'[q] = lease[q], lease[q].task \in Task,
         ~Owns(q)', ~(lease[q].left > 0)
  PROVE  Held(q)'
  BY DEF Held

LEMMA HeldNot ==
  ASSUME NEW q \in Proc, lease'[q] = NoLease
  PROVE  Held(q)'
  BY ProcAssumption DEF Held, NoLease

LEMMA RecoverHeld ==
  ASSUME TypeInv, LeaseInv, RecoverExpired, NEW q \in Proc, lease'[q] = lease[q]
  PROVE  Held(q)'
  <1> DEFINE t == lease[q].task
  <1>0. CASE t \notin Task
    BY <1>0 DEF Held
  <1>1. CASE t \in Expired(0)
    <2>1. tasks[t] \in TaskRow /\ t \in Task /\ tasks[t].lease_left <= 0
      BY <1>1 DEF TypeInv, TypeOK, TaskRow, Expired
    <2>2. tasks'[t].state = "QUEUED"
      BY <1>1, <2>1, RequeuedRow DEF RecoverExpired
    <2>3. ~(lease[q].left > 0)
      BY <2>1 DEF LeaseInv, Held, TaskRow, TypeInv, TypeOK
    <2>4. QED
      BY <2>1, <2>2, <2>3, HeldLost DEF Owns
  <1>2. CASE t \in Task \ Expired(0)
    <2>1. tasks'[t] = tasks[t]
      BY <1>2 DEF RecoverExpired
    <2>2. QED
      BY <1>2, <2>1, HeldUntouched DEF LeaseInv
  <1>3. QED
    BY <1>0, <1>1, <1>2

LEMMA NextLease == TypeInv /\ LeaseInv /\ [Next]_vars => LeaseInv'
  <1> SUFFICES ASSUME TypeInv, LeaseInv, [Next]_vars, NEW q \in Proc
               PROVE  Held(q)'
    BY DEF LeaseInv
  <1> USE ProcAssumption, BoundAssumption
  <1>0. /\ tasks \in [Task -> TaskRow] /\ lease \in [Proc -> LeaseCopy]
        /\ Held(q)
    BY DEF TypeInv, TypeOK, TaskRow, LeaseCopy, LeaseInv
  <1>1. ASSUME NEW p \in Proc, NEW k \in Key, NEW m \in Mission, NEW prio \in Priority,
               NEW max \in 1..MaxAttempts, SubmitTask(p, k, m, prio, max)
        PROVE  Held(q)'
    <2>1. lease' = lease
      BY <1>1 DEF SubmitTask
    <2>2. CASE UNCHANGED tasks
      BY <2>1, <2>2, <1>0, HeldUntouched
    <2>3. ASSUME NEW t \in Task \ Submitted,
                 tasks' = [tasks EXCEPT ![t] =
                            NewRow(k, m, prio, max, Cardinality(Submitted) + 1)]
          PROVE  Held(q)'
      <3>1. tasks'[t].state = "QUEUED" /\ tasks[t].state = "ABSENT"
        BY <2>3, <1>0, NewRowRow, SubmittedCount DEF Submitted
      <3>2. CASE lease[q].task = t
        BY <3>1, <3>2, <2>1, <1>0, HeldLost DEF Held, Owns
      <3>3. CASE lease[q].task # t
        BY <3>3, <2>1, <2>3, <1>0, HeldUntouched
      <3>4. QED
        BY <3>2, <3>3
    <2>4. QED
      BY <1>1, <2>2, <2>3 DEF SubmitTask
  <1>2. ASSUME NEW p \in Proc, Resume(p) PROVE Held(q)'
    BY <1>2, RecoverHeld DEF Resume
  <1>3. ASSUME NEW p \in Proc, ClaimRecover(p) PROVE Held(q)'
    BY <1>3, RecoverHeld DEF ClaimRecover
  <1>4. ASSUME NEW p \in Proc, NEW m \in Mission \cup {NULL}, ClaimTake(p, m)
        PROVE  Held(q)'
    <2>a. PICK t \in First(Due(age[p], m)) :
            /\ tasks' = [tasks EXCEPT ![t] = Leased(tasks[t], WorkerOf[p], LeaseTime - age[p])]
            /\ lease' = [lease EXCEPT ![p] = [task |-> t, attempt |-> tasks[t].attempts + 1,
                                              left |-> LeaseTime - age[p]]]
      BY <1>4 DEF ClaimTake
    <2>0. /\ t \in Task /\ tasks[t].state = "QUEUED" /\ tasks[t] \in TaskRow
          /\ LeaseTime - age[p] \in Int /\ WorkerOf[p] \in Worker
      BY <1>0 DEF First, Due, TypeInv, TypeOK
    <2>1. /\ tasks'[t].state = "RUNNING"
          /\ tasks'[t].lease_owner = WorkerOf[p]
          /\ tasks'[t].attempts = tasks[t].attempts + 1
          /\ tasks'[t].lease_left = LeaseTime - age[p]
      <3> DEFINE r == tasks[t]
                 w == WorkerOf[p]
                 l == LeaseTime - age[p]
      <3>1. tasks'[t] = Leased(r, w, l) /\ r \in TaskRow /\ w \in Worker /\ l \in Int
        BY <2>a, <2>0, <1>0
      <3> HIDE DEF r, w, l
      <3>2. /\ Leased(r, w, l).state = "RUNNING"
            /\ Leased(r, w, l).lease_owner = w
            /\ Leased(r, w, l).attempts = r.attempts + 1
            /\ Leased(r, w, l).lease_left = l
        BY <3>1, LeasedRow
      <3>3. QED
        BY <3>1, <3>2 DEF r, w, l
    <2>2. CASE q = p
      <3>1. lease'[q] = [task |-> t, attempt |-> tasks[t].attempts + 1,
                         left |-> LeaseTime - age[p]]
        BY <2>a, <2>2, <1>0
      <3>2. QED
        BY <2>1, <2>2, <3>1 DEF Held, Owns
    <2>3. CASE q # p /\ lease[q].task = t
      <3>1. lease'[q] = lease[q] /\ ~Owns(q) /\ ~Owns(q)'
        BY <2>a, <2>0, <2>1, <2>3, <1>0, DistinctWorkers DEF Owns
      <3>2. QED
        BY <2>0, <2>3, <3>1, <1>0, HeldLost DEF Held
    <2>4. CASE q # p /\ lease[q].task # t
      BY <2>a, <2>4, <1>0, HeldUntouched
    <2>5. QED
      BY <2>2, <2>3, <2>4
  <1>5. ASSUME NEW p \in Proc, NEW m \in Mission \cup {NULL}, ClaimNone(p, m)
        PROVE  Held(q)'
    BY <1>5, <1>0, HeldUntouched DEF ClaimNone
  <1>6. ASSUME NEW p \in Proc, lease[p].task \in Task, Owns(p), Drop(p),
               \A t \in Task : t # lease[p].task => tasks'[t] = tasks[t],
               tasks'[lease[p].task].state # "RUNNING"
        PROVE  Held(q)'
    <2>1. CASE q = p
      BY <2>1, <1>6, <1>0, HeldNot DEF Drop
    <2>2. CASE q # p /\ lease[q].task = lease[p].task
      <3>1. lease'[q] = lease[q] /\ ~Owns(q) /\ ~Owns(q)'
        BY <2>2, <1>6, <1>0, DistinctWorkers DEF Owns, Drop
      <3>2. QED
        BY <1>6, <2>2, <3>1, <1>0, HeldLost DEF Held
    <2>3. CASE q # p /\ lease[q].task # lease[p].task
      BY <2>3, <1>6, <1>0, HeldUntouched DEF Drop
    <2>4. QED
      BY <2>1, <2>2, <2>3
  <1>7. ASSUME NEW p \in Proc, NEW s \in Settled, NEW a \in OutcomeActions, Finish(p, s, a)
        PROVE  Held(q)'
    <2>1. lease[p].task \in Task
      BY <1>7 DEF Finish, TypeInv, Memory
    <2>2. /\ tasks[lease[p].task] \in TaskRow /\ s \in TaskState /\ s # "RUNNING"
          /\ tasks[lease[p].task].next_left \in Int
      BY <2>1, <1>0 DEF TaskRow, TaskState, Settled
    <2>3. tasks'[lease[p].task].state = s
      BY <1>7, <1>0, <2>1, <2>2, ReleasedRow DEF Finish
    <2>4. QED
      BY <1>6, <1>7, <1>0, <2>1, <2>2, <2>3 DEF Finish
  <1>8. ASSUME NEW p \in Proc, NEW d \in 0..RetryDelay, FailTask(p, d)
        PROVE  Held(q)'
    <2>1. lease[p].task \in Task
      BY <1>8 DEF FailTask, TypeInv, Memory
    <2>2. /\ tasks[lease[p].task] \in TaskRow /\ d \in Int
          /\ "QUEUED" \in TaskState /\ "FAILED" \in TaskState
      BY <2>1, <1>0 DEF TaskState, Settled
    <2>3. tasks'[lease[p].task].state \in {"QUEUED", "FAILED"}
      <3>1. /\ Released(tasks[lease[p].task], "QUEUED", d).state = "QUEUED"
            /\ Released(tasks[lease[p].task], "FAILED", d).state = "FAILED"
        BY <2>2, ReleasedRow
      <3>2. \/ tasks'[lease[p].task] = Released(tasks[lease[p].task], "QUEUED", d)
            \/ tasks'[lease[p].task] = Released(tasks[lease[p].task], "FAILED", d)
        BY <1>8, <1>0, <2>1 DEF FailTask
      <3>3. QED
        BY <3>1, <3>2
    <2>4. QED
      BY <1>6, <1>8, <1>0, <2>1, <2>3 DEF FailTask
  <1>9. ASSUME NEW p \in Proc, ReportRefused(p) PROVE Held(q)'
    <2>1. CASE q = p
      BY <2>1, <1>9, <1>0, HeldNot DEF ReportRefused, Drop
    <2>2. CASE q # p
      BY <2>2, <1>9, <1>0, HeldUntouched DEF ReportRefused, Drop
    <2>3. QED
      BY <2>1, <2>2
  <1>10. ASSUME NEW p \in Proc, AuditAppend(p) PROVE Held(q)'
    BY <1>10, <1>0, HeldUntouched DEF AuditAppend
  <1>11. ASSUME NEW p \in Proc, Crash(p) PROVE Held(q)'
    <2>1. CASE q = p
      BY <2>1, <1>11, <1>0, HeldNot DEF Crash
    <2>2. CASE q # p
      BY <2>2, <1>11, <1>0, HeldUntouched DEF Crash
    <2>3. QED
      BY <2>1, <2>2
  <1>12. ASSUME Tick PROVE Held(q)'
    <2>0. CASE lease[q].task \notin Task
      <3>1. lease'[q].task \notin Task
        BY <1>12, <1>0, <2>0 DEF Tick, LeaseCopy
      <3>2. QED
        BY <3>1 DEF Held
    <2>1. CASE lease[q].task \in Task
      <3> DEFINE t == lease[q].task
      <3>1. lease[q] # NoLease /\ lease[q].left \in Int /\ tasks[t] \in TaskRow
        BY <2>1, <1>0 DEF NoLease, LeaseCopy
      <3>2. /\ lease'[q].task = t /\ lease'[q].attempt = lease[q].attempt
            /\ lease'[q].left = Older(lease[q].left)
        BY <1>12, <1>0, <3>1 DEF Tick, LeaseCopy
      <3>3. tasks'[t] = Aged(tasks[t])
        BY <1>12, <2>1 DEF Tick
      <3>4. /\ tasks'[t].state = tasks[t].state
            /\ tasks'[t].lease_owner = tasks[t].lease_owner
            /\ tasks'[t].attempts = tasks[t].attempts
            /\ tasks[t].state = "RUNNING" =>
                 tasks'[t].lease_left = Older(tasks[t].lease_left)
        BY <3>1, <3>3, AgedRow
      <3>5. Owns(q)' <=> Owns(q)
        BY <3>2, <3>4 DEF Owns
      <3>6. lease'[q].left > 0 => lease[q].left > 0
        BY <3>1, <3>2, OlderType
      <3>7. QED
        BY <2>1, <1>0, <3>2, <3>4, <3>5, <3>6 DEF Held, Owns
    <2>2. QED
      BY <2>0, <2>1
  <1>13. CASE UNCHANGED vars
    BY <1>13, <1>0, HeldUntouched DEF vars
  <1>14. QED
    BY <1>1, <1>2, <1>3, <1>4, <1>5, <1>7, <1>8, <1>9, <1>10, <1>11, <1>12, <1>13
       DEF Next, Call, CompleteTask, BlockTask, Settled, OutcomeActions

LEMMA InitLease == Init => TypeInv /\ LeaseInv
  BY InitType, ProcAssumption DEF Init, NoLease, LeaseInv, Held

\* Exclusive leases: until the deadline claim_next told it, no recovery, claim or
\* late report of anybody else touches the task a worker runs.
THEOREM LeaseExclusivity == Spec => []LeaseExclusive
  <1>1. Init => TypeInv /\ LeaseInv
    BY InitLease
  <1>2. TypeInv /\ LeaseInv /\ [Next]_vars => (TypeInv /\ LeaseInv)'
    BY NextType, NextLease
  <1>3. TypeInv /\ LeaseInv => LeaseExclusive
    <2> SUFFICES ASSUME TypeInv, LeaseInv, NEW p \in Proc, lease[p].left > 0
                 PROVE  lease[p].task \in Task
      BY DEF LeaseExclusive, LeaseInv, Held
    <2> QED
      BY DEF TypeInv, TypeOK, Memory, NoLease
  <1>4. QED
    BY <1>1, <1>2, <1>3, PTL DEF Spec
-----------------------------------------------------------------------------
(* Fenced reports *)

LEMMA RecoverFenced ==
  ASSUME TypeInv, RecoverExpired, NEW t \in Task PROVE FencedEnd(t)
  <1>1. CASE t \in Expired(0)
    <2>1. tasks[t] \in TaskRow /\ tasks[t].lease_left <= 0
      BY <1>1 DEF TypeInv, TypeOK, TaskRow, Expired
    <2>2. tasks'[t].state = "QUEUED"
      BY <1>1, <2>1, RequeuedRow DEF RecoverExpired
    <2>3. QED
      BY <2>1, <2>2 DEF FencedEnd
  <1>2. CASE t \notin Expired(0)
    BY <1>2 DEF RecoverExpired, FencedEnd
  <1>3. QED
    BY <1>1, <1>2

LEMMA ReportFenced ==
  ASSUME TypeInv, LeaseInv, NEW p \in Proc, pc[p] = "leased", Owns(p), pc'[p] = "audit",
         NEW t \in Task, t # lease[p].task => tasks'[t] = tasks[t]
  PROVE  FencedEnd(t)
  <1>1. lease[p].task \in Task
    BY DEF TypeInv, Memory
  <1>2. lease[p].attempt = tasks[lease[p].task].attempts
    BY <1>1 DEF LeaseInv, Held
  <1>3. QED
    BY <1>2 DEF FencedEnd

LEMMA NextFenced ==
  ASSUME TypeInv, LeaseInv, [Next]_vars, NEW t \in Task PROVE FencedEnd(t)
  <1> USE ProcAssumption, BoundAssumption
  <1>0. tasks \in [Task -> TaskRow] /\ pc \in [Proc -> {"idle", "claim", "audit", "leased"}]
    BY DEF TypeInv, TypeOK, TaskRow
  <1>1. ASSUME NEW p \in Proc, NEW k \in Key, NEW m \in Mission, NEW prio \in Priority,
               NEW max \in 1..MaxAttempts, SubmitTask(p, k, m, prio, max)
        PROVE  FencedEnd(t)
    <2>1. tasks[t].state # "ABSENT" => tasks'[t] = tasks[t]
      BY <1>1, <1>0 DEF SubmitTask, Submitted
    <2>2. QED
      BY <2>1 DEF FencedEnd
  <1>2. ASSUME NEW p \in Proc, Resume(p) \/ ClaimRecover(p) PROVE FencedEnd(t)
    BY <1>2, RecoverFenced DEF Resume, ClaimRecover
  <1>3. ASSUME NEW p \in Proc, NEW m \in Mission \cup {NULL}, ClaimTake(p, m)
        PROVE  FencedEnd(t)
    <2>1. tasks[t].state # "QUEUED" => tasks'[t] = tasks[t]
      BY <1>3, <1>0 DEF ClaimTake, First, Due
    <2>2. QED
      BY <2>1 DEF FencedEnd
  <1>4. ASSUME NEW p \in Proc, NEW s \in Settled, NEW a \in OutcomeActions, Finish(p, s, a)
        PROVE  FencedEnd(t)
    BY <1>4, <1>0, ReportFenced DEF Finish, ThenAudit
  <1>5. ASSUME NEW p \in Proc, NEW d \in 0..RetryDelay, FailTask(p, d)
        PROVE  FencedEnd(t)
    BY <1>5, <1>0, ReportFenced DEF FailTask, ThenAudit
  <1>6. ASSUME NEW p \in Proc,
               \/ \E m \in Mission \cup {NULL} : ClaimNone(p, m)
               \/ ReportRefused(p)
               \/ AuditAppend(p)
               \/ Crash(p)
        PROVE  FencedEnd(t)
    BY <1>6 DEF ClaimNone, ReportRefused, AuditAppend, Crash, FencedEnd
  <1>7. ASSUME Tick PROVE FencedEnd(t)
    <2>1. tasks'[t].state = tasks[t].state
      BY <1>7, <1>0, AgedRow DEF Tick
    <2>2. QED
      BY <2>1 DEF FencedEnd
  <1>8. CASE UNCHANGED vars
    BY <1>8 DEF vars, FencedEnd
  <1>9. QED
    BY <1>1, <1>2, <1>3, <1>4, <1>5, <1>6, <1>7, <1>8
       DEF Next, Call, CompleteTask, BlockTask, Settled, OutcomeActions

\* Reports are fenced: only recovery of a lease that ran out, or the report of the
\* very attempt under way, ends an attempt; a late report of an earlier one cannot.
THEOREM ReportsAreFenced == Spec => FencedReport
  <1>1. TypeInv /\ LeaseInv /\ [Next]_vars => \A t \in Task : FencedEnd(t)
    BY NextFenced
  <1>2. QED
    BY <1>1, InitLease, NextType, NextLease, PTL DEF Spec, FencedReport
=============================================================================
