---------------------------- MODULE DurableTasks ----------------------------
(***************************************************************************)
(* The durable task queue: SQLiteStateStore (immune_core/storage.py) driven*)
(* by DurableLoopEngine (immune_core/engine.py), with the audit append that*)
(* follows every call as a transaction of its own (immune_core/audit.py).  *)
(*                                                                         *)
(* One BEGIN IMMEDIATE ... COMMIT of the code is one action.  claim_next   *)
(* reads the clock once and then runs two transactions, so it is two       *)
(* actions.  A process may crash between any two of them.                  *)
(*                                                                         *)
(* Time is kept relative to the clock: next_left and lease_left stand for  *)
(* next_run_at - now and lease_until - now, so no bound on the clock is    *)
(* needed.  They stop falling at -MaxClaimDelay, beyond which no test of   *)
(* the code can tell two values apart.                                     *)
(***************************************************************************)
EXTENDS Integers, FiniteSets

CONSTANTS
  Task,           \* task ids (uuid4 in the code)
  Key,            \* idempotency keys
  Mission,        \* missions a task may belong to
  Proc,           \* processes calling the engine
  Worker,         \* worker ids (manifest.id)
  WorkerOf,       \* the worker id each process claims with
  Priority,       \* priorities a submitter may ask for
  MaxAttempts,    \* largest max_attempts a submitter may ask for
  LeaseTime,      \* lease_seconds, in ticks
  RetryDelay,     \* largest retry_delay of fail_task, in ticks
  MaxClaimDelay,  \* bound: ticks between claim_next's clock reading and its claim
  AttemptCap,     \* bound: a task's AttemptCap-th lease does not run out
  MaxCrashes,     \* bound: crashes and calls ended by an exception
  Timely,         \* TRUE: a live worker reports before its lease runs out
  NULL

ASSUME ProcAssumption ==
  /\ WorkerOf \in [Proc -> Worker]
  /\ NULL \notin Worker /\ NULL \notin Task

ASSUME TaskAssumption == IsFiniteSet(Task)

ASSUME BoundAssumption ==
  /\ Priority \subseteq Int
  /\ MaxAttempts \in Nat \ {0}
  /\ LeaseTime \in Nat \ {0}
  /\ RetryDelay \in Nat
  /\ MaxClaimDelay \in Nat
  /\ AttemptCap \in Nat
  /\ MaxCrashes \in Nat
  /\ Timely \in BOOLEAN

\* Worker ids are not shared: every process claims under an id of its own.
ASSUME DistinctWorkers ==
  \A p, q \in Proc : WorkerOf[p] = WorkerOf[q] => p = q

Settled == {"COMPLETED", "FAILED", "BLOCKED"}
TaskState == {"ABSENT", "QUEUED", "RUNNING"} \cup Settled
OutcomeActions == {"task_completed", "task_failed", "task_blocked"}
Actions == {"task_submitted", "task_claimed", "runtime_resume"} \cup OutcomeActions

VARIABLES
  tasks,    \* tasks[t]: the row of t in table tasks
  expiries, \* expiries[t]: transitions rows of t with reason lease_expired_recovered
  retries,  \* retries[t]: transitions rows of t that put it back after a failure
  pc,       \* pc[p]: where process p is in its call of the engine
  age,      \* age[p]: ticks since p's claim_next read the clock
  lease,    \* lease[p]: the TaskLease p got from claim_next, or NoLease
  pending,  \* pending[p]: the audit event p is about to append, or NoEvent
  ledger,   \* the audit events about a task's end, without the hash chain
  crashes   \* crashes so far

vars == <<tasks, expiries, retries, pc, age, lease, pending, ledger, crashes>>
\* what only reports and recovery write
counts == <<expiries, retries>>

NoLease == [task |-> NULL, attempt |-> 0, left |-> 0]
NoEvent == [action |-> "none", task |-> NULL, attempt |-> 0]
NoTask  == [state |-> "ABSENT", key |-> NULL, mission |-> NULL, priority |-> 0,
            created |-> 0, attempts |-> 0, max_attempts |-> 0, next_left |-> 0,
            lease_owner |-> NULL, lease_left |-> 0]

Submitted == {t \in Task : tasks[t].state # "ABSENT"}
\* The attempt number is in the payload of every event about an attempt but
\* task_blocked, where it is kept for the properties only.
Event(action, t, a) == [action |-> action, task |-> t, attempt |-> a]

\* audit.append, the transaction that follows: p still has event e to append.
ThenAudit(p, e) ==
  /\ pc' = [pc EXCEPT ![p] = "audit"]
  /\ pending' = [pending EXCEPT ![p] = e]

Init ==
  /\ tasks = [t \in Task |-> NoTask]
  /\ expiries = [t \in Task |-> 0]
  /\ retries = [t \in Task |-> 0]
  /\ pc = [p \in Proc |-> "idle"]
  /\ age = [p \in Proc |-> 0]
  /\ lease = [p \in Proc |-> NoLease]
  /\ pending = [p \in Proc |-> NoEvent]
  /\ ledger = {}
  /\ crashes = 0
-----------------------------------------------------------------------------
(* Submission *)

\* Mutant of WithKey: a settled task no longer holds its key.
WithKeyUnsettled(k) == {t \in Submitted : tasks[t].key = k /\ tasks[t].state \notin Settled}

\* Tasks stored under idempotency key k, whatever their state.
WithKey(k) == {t \in Submitted : tasks[t].key = k}

NewRow(k, m, prio, max, n) ==
  [NoTask EXCEPT !.state = "QUEUED", !.key = k, !.mission = m, !.priority = prio,
                 !.max_attempts = max, !.created = n]

\* The key is looked up before the transaction and again in it; only the second
\* lookup decides, so the call is one action.  The task_submitted event is
\* appended even when the key was already there.
SubmitTask(p, k, m, prio, max) ==
  /\ pc[p] = "idle"
  /\ \/ /\ WithKey(k) # {}
        /\ \E t \in WithKey(k) : ThenAudit(p, Event("task_submitted", t, 0))
        /\ UNCHANGED tasks
     \/ /\ WithKey(k) = {}
        /\ \E t \in Task \ Submitted :
             /\ tasks' = [tasks EXCEPT ![t] =
                            NewRow(k, m, prio, max, Cardinality(Submitted) + 1)]
             /\ ThenAudit(p, Event("task_submitted", t, 0))
  /\ UNCHANGED <<counts, age, lease, ledger, crashes>>
-----------------------------------------------------------------------------
(* Leases *)

\* Mutant of Expired: a lease about to run out counts as expired.
ExpiredEarly(a) ==
  {t \in Task : tasks[t].state = "RUNNING" /\ tasks[t].lease_left <= 1 - a}

\* Mutant of Expired: a lease of the last allowed attempt is not recovered.
ExpiredWithinBudget(a) ==
  {t \in Task : /\ tasks[t].state = "RUNNING" /\ tasks[t].lease_left <= -a
                /\ tasks[t].attempts < tasks[t].max_attempts}

\* Leases that have run out at a clock reading a ticks old.
Expired(a) == {t \in Task : tasks[t].state = "RUNNING" /\ tasks[t].lease_left <= -a}

\* Mutant of Requeued: a state no claim looks for.
RequeuedElsewhere(row) == [row EXCEPT !.state = "EXPIRED", !.lease_owner = NULL, !.lease_left = 0]

Requeued(row) == [row EXCEPT !.state = "QUEUED", !.lease_owner = NULL, !.lease_left = 0]

\* recover_expired_leases: every expired lease goes back to the queue, whatever
\* its attempt count.
RecoverExpired ==
  /\ tasks' = [t \in Task |->
       IF t \in Expired(0) THEN Requeued(tasks[t]) ELSE tasks[t]]
  /\ expiries' = [t \in Task |->
       IF t \in Expired(0) THEN expiries[t] + 1 ELSE expiries[t]]
  /\ UNCHANGED retries

\* DurableLoopEngine.resume, also the first thing a supervisor's boot and tick do.
Resume(p) ==
  /\ pc[p] = "idle"
  /\ RecoverExpired
  /\ ThenAudit(p, Event("runtime_resume", NULL, 0))
  /\ UNCHANGED <<age, lease, ledger, crashes>>

\* claim_next reads the clock and recovers expired leases in one transaction...
ClaimRecover(p) ==
  /\ pc[p] = "idle"
  /\ RecoverExpired
  /\ pc' = [pc EXCEPT ![p] = "claim"]
  /\ age' = [age EXCEPT ![p] = 0]
  /\ UNCHANGED <<lease, pending, ledger, crashes>>

\* QUEUED tasks (of mission m, if one is given) due at a reading a ticks old.
Due(a, m) == {t \in Task : /\ tasks[t].state = "QUEUED"
                           /\ tasks[t].next_left <= -a
                           /\ m \in {NULL, tasks[t].mission}}

\* ORDER BY priority DESC, created_at ASC LIMIT 1
First(S) == {t \in S : \A u \in S :
               \/ tasks[t].priority > tasks[u].priority
               \/ /\ tasks[t].priority = tasks[u].priority
                  /\ tasks[t].created <= tasks[u].created}

Leased(row, w, left) ==
  [row EXCEPT !.state = "RUNNING", !.attempts = @ + 1, !.lease_owner = w, !.lease_left = left]

\* ... and takes the first due task in a second one, at the same clock reading:
\* the lease is already age[p] ticks old when it is written.
ClaimTake(p, m) ==
  /\ pc[p] = "claim"
  /\ \E t \in First(Due(age[p], m)) :
       LET n    == tasks[t].attempts + 1
           left == LeaseTime - age[p]
       IN /\ tasks' = [tasks EXCEPT ![t] = Leased(tasks[t], WorkerOf[p], left)]
          /\ lease' = [lease EXCEPT ![p] = [task |-> t, attempt |-> n, left |-> left]]
          /\ ThenAudit(p, Event("task_claimed", t, n))
  /\ age' = [age EXCEPT ![p] = 0]
  /\ UNCHANGED <<counts, ledger, crashes>>

\* Nothing is due: claim_next returns None and the engine appends nothing.
ClaimNone(p, m) ==
  /\ pc[p] = "claim"
  /\ Due(age[p], m) = {}
  /\ pc' = [pc EXCEPT ![p] = "idle"]
  /\ age' = [age EXCEPT ![p] = 0]
  /\ UNCHANGED <<tasks, counts, lease, pending, ledger, crashes>>
-----------------------------------------------------------------------------
(* Reports *)

\* Mutant of Owns: RUNNING is enough, whoever has the lease.
OwnsAny(p) == tasks[lease[p].task].state = "RUNNING"

\* The test of _finish_running and fail_task: RUNNING and leased to this worker
\* id.  Neither the lease's age nor its attempt number is looked at.
Owns(p) ==
  /\ tasks[lease[p].task].state = "RUNNING"
  /\ tasks[lease[p].task].lease_owner = WorkerOf[p]

\* Mutant of Released: the finished row keeps its lease_owner.
ReleasedOwned(row, s, d) ==
  [row EXCEPT !.state = s, !.lease_left = 0, !.next_left = d]

\* The row after its lease ends in state s, to run again in d ticks.
Released(row, s, d) ==
  [row EXCEPT !.state = s, !.lease_owner = NULL, !.lease_left = 0, !.next_left = d]

Drop(p) == lease' = [lease EXCEPT ![p] = NoLease]

\* complete_task and block_task, both _finish_running
Finish(p, s, action) ==
  LET t == lease[p].task IN
  /\ pc[p] = "leased"
  /\ Owns(p)
  /\ tasks' = [tasks EXCEPT ![t] = Released(tasks[t], s, tasks[t].next_left)]
  /\ Drop(p)
  /\ ThenAudit(p, Event(action, t, lease[p].attempt))
  /\ UNCHANGED <<counts, age, ledger, crashes>>

CompleteTask(p) == Finish(p, "COMPLETED", "task_completed")

\* Mutant of BlockTask: the outcome is stored and no audit event follows.
BlockTaskSilently(p) ==
  LET t == lease[p].task IN
  /\ pc[p] = "leased"
  /\ Owns(p)
  /\ tasks' = [tasks EXCEPT ![t] = Released(tasks[t], "BLOCKED", tasks[t].next_left)]
  /\ Drop(p)
  /\ pc' = [pc EXCEPT ![p] = "idle"]
  /\ UNCHANGED <<counts, age, pending, ledger, crashes>>

BlockTask(p) == Finish(p, "BLOCKED", "task_blocked")

\* Mutant of Retries: one retry too many.
RetriesOneMore(t) == tasks[t].attempts <= tasks[t].max_attempts

Retries(t) == tasks[t].attempts < tasks[t].max_attempts

FailTask(p, d) ==
  LET t == lease[p].task IN
  /\ pc[p] = "leased"
  /\ Owns(p)
  /\ IF Retries(t)
     THEN /\ tasks' = [tasks EXCEPT ![t] = Released(tasks[t], "QUEUED", d)]
          /\ retries' = [retries EXCEPT ![t] = @ + 1]
     ELSE /\ tasks' = [tasks EXCEPT ![t] = Released(tasks[t], "FAILED", d)]
          /\ UNCHANGED retries
  /\ Drop(p)
  /\ ThenAudit(p, Event("task_failed", t, lease[p].attempt))
  /\ UNCHANGED <<expiries, age, ledger, crashes>>

\* StateError: the lease went to somebody else, or nobody; nothing is written.
ReportRefused(p) ==
  /\ pc[p] = "leased"
  /\ ~Owns(p)
  /\ pc' = [pc EXCEPT ![p] = "idle"]
  /\ Drop(p)
  /\ UNCHANGED <<tasks, counts, age, pending, ledger, crashes>>
-----------------------------------------------------------------------------
(* Audit, crashes and time *)

\* audit.append; after task_claimed the worker starts on its lease.  Only events
\* that report how an attempt ended are remembered.
AuditAppend(p) ==
  /\ pc[p] = "audit"
  /\ ledger' = ledger \cup {e \in {pending[p]} : e.action \in OutcomeActions}
  /\ pending' = [pending EXCEPT ![p] = NoEvent]
  /\ pc' = [pc EXCEPT ![p] = IF pending[p].action = "task_claimed" THEN "leased" ELSE "idle"]
  /\ UNCHANGED <<tasks, counts, age, lease, crashes>>

\* A process dies and restarts, or an exception it does not catch ends its call: what
\* it had in memory is gone, the store stays.
Crash(p) ==
  /\ crashes < MaxCrashes
  /\ pc[p] # "idle"
  /\ crashes' = crashes + 1
  /\ pc' = [pc EXCEPT ![p] = "idle"]
  /\ age' = [age EXCEPT ![p] = 0]
  /\ lease' = [lease EXCEPT ![p] = NoLease]
  /\ pending' = [pending EXCEPT ![p] = NoEvent]
  /\ UNCHANGED <<tasks, counts, ledger>>

Older(left) == IF left > -MaxClaimDelay THEN left - 1 ELSE left

Aged(row) ==
  CASE row.state = "QUEUED"  -> [row EXCEPT !.next_left = Older(@)]
    [] row.state = "RUNNING" -> [row EXCEPT !.next_left = Older(@), !.lease_left = Older(@)]
    [] OTHER -> row

\* A live worker is still inside its lease after the next tick.
WorkersInTime == \A p \in Proc : lease[p] # NoLease => lease[p].left > 1

\* Bound: no lease from the AttemptCap-th on runs out.
ExpiryBound == \A t \in Task :
  tasks[t].state = "RUNNING" /\ tasks[t].attempts >= AttemptCap => tasks[t].lease_left > 1

Tick ==
  /\ ExpiryBound
  /\ \A p \in Proc : pc[p] = "claim" => age[p] < MaxClaimDelay
  /\ Timely => WorkersInTime
  /\ tasks' = [t \in Task |-> Aged(tasks[t])]
  /\ age' = [p \in Proc |-> IF pc[p] = "claim" THEN age[p] + 1 ELSE age[p]]
  /\ lease' = [p \in Proc |->
       IF lease[p] # NoLease THEN [lease[p] EXCEPT !.left = Older(@)] ELSE lease[p]]
  /\ UNCHANGED <<counts, pc, pending, ledger, crashes>>
-----------------------------------------------------------------------------
Call(p) ==
  \/ \E k \in Key, m \in Mission, prio \in Priority, max \in 1..MaxAttempts :
       SubmitTask(p, k, m, prio, max)
  \/ Resume(p)
  \/ ClaimRecover(p)
  \/ \E m \in Mission \cup {NULL} : ClaimTake(p, m) \/ ClaimNone(p, m)
  \/ CompleteTask(p)
  \/ BlockTask(p)
  \/ \E d \in 0..RetryDelay : FailTask(p, d)
  \/ ReportRefused(p)
  \/ AuditAppend(p)

Next == Tick \/ \E p \in Proc : Call(p) \/ Crash(p)

Spec == Init /\ [][Next]_vars

\* Workers poll (SF: between two polls a process may do other things), a call that
\* was begun is carried on, a worker reports in the end, and time passes.  Nobody
\* has to submit or to crash.
Report(p) == CompleteTask(p) \/ BlockTask(p) \/ (\E d \in 0..RetryDelay : FailTask(p, d))
Fairness ==
  /\ SF_vars(Tick)
  /\ \A p \in Proc :
       /\ SF_vars(ClaimRecover(p))
       /\ WF_vars(\E m \in Mission \cup {NULL} : ClaimTake(p, m) \/ ClaimNone(p, m))
       /\ WF_vars(Report(p) \/ ReportRefused(p))
       /\ WF_vars(AuditAppend(p))

FairSpec == Spec /\ Fairness
-----------------------------------------------------------------------------
(* Properties *)

\* Type invariant: the rows the schema and the code can produce.
TypeOK ==
  /\ tasks \in [Task -> [state : TaskState, key : Key \cup {NULL},
                        mission : Mission \cup {NULL}, priority : Int,
                        created : Nat, attempts : Nat, max_attempts : Nat,
                        next_left : Int, lease_owner : Worker \cup {NULL},
                        lease_left : Int]]
  /\ expiries \in [Task -> Nat]
  /\ retries \in [Task -> Nat]
  /\ pc \in [Proc -> {"idle", "claim", "audit", "leased"}]
  /\ age \in [Proc -> Nat]
  /\ lease \in [Proc -> [task : Task \cup {NULL}, attempt : Nat, left : Int]]
  /\ pending \in [Proc -> [action : Actions \cup {"none"}, task : Task \cup {NULL},
                           attempt : Nat]]
  /\ ledger \subseteq [action : OutcomeActions, task : Task \cup {NULL}, attempt : Nat]
  /\ crashes \in Nat

\* Until the deadline claim_next told it, a worker's task is its own: recovery,
\* other claimants and late reports of earlier leases leave the row alone.
LeaseExclusive ==
  \A p \in Proc : lease[p].left > 0 =>
    /\ Owns(p)
    /\ tasks[lease[p].task].attempts = lease[p].attempt
    /\ tasks[lease[p].task].lease_left = lease[p].left

\* How the attempt under way on t may end in one step.
FencedEnd(t) ==
  tasks[t].state = "RUNNING" /\ tasks'[t].state # "RUNNING" =>
    \/ tasks[t].lease_left <= 0 /\ tasks'[t].state = "QUEUED"
    \/ \E p \in Proc : /\ pc[p] = "leased" /\ pc'[p] = "audit"
                       /\ lease[p].task = t
                       /\ lease[p].attempt = tasks[t].attempts

\* complete_task, block_task and fail_task only ever act on the claim they report
\* on: a process whose lease was lost and given away cannot end the new attempt.
FencedReport == [][\A t \in Task : FencedEnd(t)]_vars

\* Every claim of a task is accounted for: it is the current or the settling one,
\* or ended in a retry or in an expired lease; fail_task grants fewer than
\* max_attempts retries and gives up no earlier than attempt max_attempts.
RetryBudget ==
  \A t \in Submitted :
    /\ tasks[t].attempts = expiries[t] + retries[t]
                             + (IF tasks[t].state = "QUEUED" THEN 0 ELSE 1)
    /\ retries[t] < tasks[t].max_attempts
    /\ tasks[t].state = "FAILED" => tasks[t].attempts >= tasks[t].max_attempts

\* One idempotency key, one task, for as long as the store lives: resubmitting
\* after the task settled creates no second one.
IdempotentSubmit ==
  \A t, u \in Submitted : tasks[t].key = tasks[u].key => t = u

Outcome(t) ==
  Event(CASE tasks[t].state = "COMPLETED" -> "task_completed"
          [] tasks[t].state = "BLOCKED" -> "task_blocked"
          [] OTHER -> "task_failed", t, tasks[t].attempts)

\* The ledger and the task table agree: an outcome event names the attempt that
\* settled the task (as far as its payload says), and a settled task without its
\* event is one whose reporter is about to append it or crashed before it could.
LedgerAgrees ==
  /\ \A e \in ledger : e.action \in {"task_completed", "task_blocked"} => e = Outcome(e.task)
  /\ Cardinality({t \in Task : /\ tasks[t].state \in Settled
                               /\ Outcome(t) \notin ledger
                               /\ \A p \in Proc : pending[p] # Outcome(t)}) <= crashes

Abs == INSTANCE LeaseQueue WITH status <- [t \in Task |-> tasks[t].state],
                                holder <- [t \in Task |-> tasks[t].lease_owner]

\* The store implements the abstract lease queue: settled tasks stay settled, a
\* task is handed out from the queue only, and a task nobody runs has no owner.
ImplementsLeaseQueue == Abs!AbsSpec

\* With workers that report in time and finitely many crashes, every submitted
\* task settles: an orphaned lease is recovered and its task is claimed again.
EveryTaskSettles ==
  \A t \in Task : tasks[t].state # "ABSENT" ~> tasks[t].state \in Settled

\* "retry limitado": no task is ever claimed more than max_attempts times.
RetryLimit ==
  \A t \in Submitted : tasks[t].attempts <= tasks[t].max_attempts
=============================================================================
