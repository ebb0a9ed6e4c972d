----------------------------- MODULE LeaseQueue -----------------------------
(***************************************************************************)
(* What the durable task store promises its callers, without leases, clocks*)
(* or attempt counters: a task is handed to one worker at a time, only the *)
(* worker that has it may settle it or give it back, the store may take it *)
(* back, and a settled task stays settled.  DurableTasks implements it.    *)
(***************************************************************************)
CONSTANTS
  Task,    \* task ids
  Worker,  \* worker ids
  NULL     \* no worker

Settled == {"COMPLETED", "FAILED", "BLOCKED"}
Status  == {"ABSENT", "QUEUED", "RUNNING"} \cup Settled

VARIABLES
  status,  \* status[t]: where task t stands
  holder   \* holder[t]: the worker it was handed to, or NULL

absVars == <<status, holder>>

AbsInit ==
  /\ status = [t \in Task |-> "ABSENT"]
  /\ holder = [t \in Task |-> NULL]

Enqueue(t) ==
  /\ status[t] = "ABSENT"
  /\ status' = [status EXCEPT ![t] = "QUEUED"]
  /\ UNCHANGED holder

Hand(t, w) ==
  /\ status[t] = "QUEUED"
  /\ status' = [status EXCEPT ![t] = "RUNNING"]
  /\ holder' = [holder EXCEPT ![t] = w]

\* The worker that holds t settles it or hands it back for a retry.
Report(t, s) ==
  /\ status[t] = "RUNNING"
  /\ s \in Settled \cup {"QUEUED"}
  /\ status' = [status EXCEPT ![t] = s]
  /\ holder' = [holder EXCEPT ![t] = NULL]

\* The store takes back every task of S at once.
Revoke(S) ==
  /\ \A t \in S : status[t] = "RUNNING"
  /\ status' = [t \in Task |-> IF t \in S THEN "QUEUED" ELSE status[t]]
  /\ holder' = [t \in Task |-> IF t \in S THEN NULL ELSE holder[t]]

AbsNext ==
  \/ \E t \in Task : Enqueue(t)
  \/ \E t \in Task, w \in Worker : Hand(t, w)
  \/ \E t \in Task, s \in Settled \cup {"QUEUED"} : Report(t, s)
  \/ \E S \in SUBSET Task : Revoke(S)

AbsSpec == AbsInit /\ [][AbsNext]_absVars
=============================================================================
