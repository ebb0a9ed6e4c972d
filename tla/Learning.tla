------------------------------ MODULE Learning ------------------------------
(***************************************************************************)
(* ControlledLearningEngine (immune_core/learning.py): one lineage of      *)
(* knowledge records, promoted on the outcomes of validations and taken    *)
(* back when a validation fails.                                           *)
(*                                                                         *)
(* A call reads the record, decides, and writes in one or two further      *)
(* transactions; none of them asks whether the record is still as it was   *)
(* read.  Every call is therefore a read step and one or two write steps of*)
(* a process that may die in between, and processes overlap.  A validation *)
(* stands for itself, its correction and its system; what                  *)
(* _correction_snapshot asks of a correction, signatures, skills and the   *)
(* content are left out, and so is the stored confidence (see Promote).  A *)
(* process acts under one identity.                                        *)
(***************************************************************************)
EXTENDS Integers, FiniteSets

CONSTANTS
  Knowledge,   \* record ids
  Global,      \* records whose target_scope is GLOBAL
  Validation,  \* rows of diag_validations for the lineage's remediation
  Passed,      \* those that passed and were not rolled back
  SystemOf,    \* SystemOf[v]: the system v was made on
  Proc,        \* callers
  MaxWrites,   \* bound: number of writing steps, but those of a promote that supersedes
  MaxOverlaps, \* bound: number of calls begun while another is open
  NULL

ASSUME LearningAssumption ==
  /\ Global \subseteq Knowledge /\ Passed \subseteq Validation
  /\ NULL \notin Knowledge /\ NULL \notin Validation /\ NULL \notin Proc
  /\ MaxWrites \in Nat /\ MaxOverlaps \in Nat

VARIABLES
  state,     \* state[k]: state of k's row in learning_knowledge, NONE without one
  version,   \* version[k]
  outcomes,  \* outcomes[k]: validations of k's rows in learning_outcomes
  review,    \* review[k]: the verdict and the reviewer of k's latest review
  op,        \* op[p]: the call p is in, and how far
  kid,       \* kid[p]: its record
  arg,       \* arg[p]: its validation
  read,      \* read[p]: the record's state as read
  num,       \* num[p]: the version create read
  old,       \* old[p]: the promoted record promote read, to be superseded
  bad,       \* bad[p]: review found invalid evidence
  fails,     \* fails[p]: the record's failures when review, or a regression, first
             \* can have counted them
  writes,    \* number of writing steps so far
  overlaps,  \* number of calls begun while another was open
  stale,     \* history: stale[p]: something was written since p's read
  suspect    \* history: records written, or promoted, by a call overtaken or cut short

recordVars == <<state, version, outcomes, review>>
callVars == <<op, kid, arg, read, num, old, bad, fails>>
lnVars == <<recordVars, callVars, writes, overlaps, stale, suspect>>

LnInit ==
  /\ state = [k \in Knowledge |-> "NONE"]
  /\ version = [k \in Knowledge |-> 0]
  /\ outcomes = [k \in Knowledge |-> {}]
  /\ review = [k \in Knowledge |-> <<"NONE", NULL>>]
  /\ op = [p \in Proc |-> "idle"]
  /\ kid = [p \in Proc |-> NULL]
  /\ arg = [p \in Proc |-> NULL]
  /\ read = [p \in Proc |-> "NONE"]
  /\ num = [p \in Proc |-> 0]
  /\ old = [p \in Proc |-> NULL]
  /\ bad = [p \in Proc |-> FALSE]
  /\ fails = [p \in Proc |-> {}]
  /\ writes = 0
  /\ overlaps = 0
  /\ stale = [p \in Proc |-> FALSE]
  /\ suspect = {}

Successes(k) == outcomes[k] \cap Passed
Failures(k) == outcomes[k] \ Passed
Promoted == {k \in Knowledge : state[k] = "PROMOTED"}

\* failures >= 2
Twice(failures) == \E v, w \in failures : v # w
-----------------------------------------------------------------------------
(* Calls *)

Open == {p \in Proc : op[p] # "idle"}
Alone == Open = {}

\* p reads record k for call o.
Begin(p, o, k, v, n, j, b) ==
  /\ op[p] = "idle"
  /\ writes + Cardinality({q \in Open : old[q] = NULL}) < MaxWrites
  /\ \/ Alone /\ UNCHANGED overlaps
     \/ ~Alone /\ overlaps < MaxOverlaps /\ overlaps' = overlaps + 1
  /\ op' = [op EXCEPT ![p] = o]
  /\ kid' = [kid EXCEPT ![p] = k]
  /\ arg' = [arg EXCEPT ![p] = v]
  /\ read' = [read EXCEPT ![p] = state[k]]
  /\ num' = [num EXCEPT ![p] = n]
  /\ old' = [old EXCEPT ![p] = j]
  /\ bad' = [bad EXCEPT ![p] = b]
  /\ fails' = [fails EXCEPT ![p] = IF o = "review" THEN Failures(k) ELSE {}]
  /\ stale' = [stale EXCEPT ![p] = FALSE]
  /\ UNCHANGED <<recordVars, writes, suspect>>

\* p's call is over.
Return(p) ==
  /\ op' = [op EXCEPT ![p] = "idle"]
  /\ kid' = [kid EXCEPT ![p] = NULL]
  /\ arg' = [arg EXCEPT ![p] = NULL]
  /\ read' = [read EXCEPT ![p] = "NONE"]
  /\ num' = [num EXCEPT ![p] = 0]
  /\ old' = [old EXCEPT ![p] = NULL]
  /\ bad' = [bad EXCEPT ![p] = FALSE]
  /\ fails' = [fails EXCEPT ![p] = {}]
  /\ UNCHANGED overlaps

\* The record of call p and the promoted ones are in doubt.
Doubt(p) == suspect' = suspect \cup {kid[p]} \cup Promoted

\* The record p should have superseded is.
DoubtPrior(p) == suspect' = suspect \cup {old[p]}

\* The record that call p writes next
Target(p) == IF op[p] = "superseding" THEN old[p] ELSE kid[p]

\* p writes.  A call that went by what the record was, or was looking for the promoted
\* one, is out of date.
Overtake(p) ==
  stale' = [q \in Proc |->
              IF q = p THEN stale[p] /\ op'[p] # "idle"
              ELSE stale[q] \/ Target(q) = Target(p) \/ op[q] = "promote"]

Wrote(p) ==
  /\ \/ old[p] = NULL /\ writes < MaxWrites /\ writes' = writes + 1
     \/ old[p] # NULL /\ UNCHANGED writes
  /\ Overtake(p)

\* p writes the state of its record, from a reading that may be out of date.
WroteState(p) ==
  /\ Wrote(p)
  /\ IF stale[p] THEN Doubt(p) ELSE UNCHANGED suspect

\* The process dies, or the call raises, before it has written all.
Abandon(p) ==
  /\ op[p] # "idle"
  /\ CASE op[p] = "regressed" -> Doubt(p)
       [] op[p] = "superseding" -> DoubtPrior(p)
       [] OTHER -> UNCHANGED suspect
  /\ Return(p)
  /\ stale' = [stale EXCEPT ![p] = FALSE]
  /\ UNCHANGED <<recordVars, writes>>
-----------------------------------------------------------------------------
(* create_candidate_from_correction *)

\* _next_version
Newest(n) ==
  \A k \in Knowledge :
    version[k] < n /\ (n = 1 \/ \E j \in Knowledge : version[j] = n - 1)

Create(p, k, v) ==
  /\ state[k] = "NONE" /\ \A q \in Proc : kid[q] # k
  /\ v \in Passed
  /\ \E n \in 1..MaxWrites : Newest(n) /\ Begin(p, "create", k, v, n, NULL, FALSE)

\* The INSERT, refused if the version is taken, and the first outcome.
Insert(p, cut) ==
  LET k == kid[p] IN
  /\ op[p] = "create"
  /\ \A j \in Knowledge : version[j] # num[p]
  /\ state' = [state EXCEPT ![k] = "QUARANTINED"]
  /\ version' = [version EXCEPT ![k] = num[p]]
  /\ outcomes' = [outcomes EXCEPT ![k] = IF cut THEN {} ELSE {arg[p]}]
  /\ Return(p)
  /\ Wrote(p)
  /\ UNCHANGED <<suspect, review>>
-----------------------------------------------------------------------------
(* add_reproduction_from_correction, record_regression_from_validation *)

Reproduce(p, k, v) ==
  /\ state[k] \in {"QUARANTINED", "PROMOTED"}
  /\ v \in Passed
  /\ Begin(p, "reproduce", k, v, 0, NULL, FALSE)

\* _append_outcome, refused if the outcome is there; then the confidence.
AppendSuccess(p) ==
  /\ op[p] = "reproduce"
  /\ arg[p] \notin outcomes[kid[p]]
  /\ outcomes' = [outcomes EXCEPT ![kid[p]] = @ \cup {arg[p]}]
  /\ Return(p)
  /\ Wrote(p)
  /\ UNCHANGED <<suspect, state, version, review>>

Regress(p, k, v) ==
  /\ state[k] \notin {"NONE", "RETIRED", "SUPERSEDED"}
  /\ v \in Validation \ Passed
  /\ Begin(p, "regress", k, v, 0, NULL, FALSE)

AppendFailure(p) ==
  /\ op[p] = "regress"
  /\ arg[p] \notin outcomes[kid[p]]
  /\ outcomes' = [outcomes EXCEPT ![kid[p]] = @ \cup {arg[p]}]
  /\ op' = [op EXCEPT ![p] = "regressed"]
  /\ fails' = [fails EXCEPT ![p] = outcomes'[kid[p]] \ Passed]
  /\ Wrote(p)
  /\ UNCHANGED <<suspect, overlaps, state, version, review, kid, arg, read, num, old, bad>>

\* Mutant of AfterRegression: only a second failure has an effect.
AfterRegressionLate(failures, s) == IF Twice(failures) THEN "RETIRED" ELSE s

AfterRegression(failures, s) ==
  CASE Twice(failures) -> "RETIRED"
    [] ~Twice(failures) /\ s = "PROMOTED" -> "SUSPENDED"
    [] OTHER -> s

\* The state, from the one read and the failures counted by now or before, and the
\* review unless p dies first.
SettleRegression(p, cut) ==
  LET k == kid[p] IN
  /\ op[p] = "regressed"
  /\ \E failures \in {fails[p], Failures(k)} :
       state' = [state EXCEPT ![k] = AfterRegression(failures, read[p])]
  /\ review' = [review EXCEPT ![k] = IF cut THEN @ ELSE <<"REGRESSION", p>>]
  /\ Return(p)
  /\ WroteState(p)
  /\ UNCHANGED <<version, outcomes>>
-----------------------------------------------------------------------------
(* review_integrity, promote, retire *)

Review(p, k, b) ==
  /\ state[k] # "NONE"
  /\ Begin(p, "review", k, NULL, 0, NULL, b)

\* Mutant of AfterReview: a valid review lifts a suspension or retirement.
AfterReviewLifting(failures, s, b) ==
  CASE b /\ Twice(failures) -> "RETIRED"
    [] b /\ ~Twice(failures) /\ s = "PROMOTED" -> "SUSPENDED"
    [] ~b /\ s = "RETIRED" -> "QUARANTINED"
    [] OTHER -> s

AfterReview(failures, s, b) ==
  CASE b /\ Twice(failures) -> "RETIRED"
    [] b /\ ~Twice(failures) /\ s = "PROMOTED" -> "SUSPENDED"
    [] OTHER -> s

\* The state is written back even when the review changes nothing; then the review,
\* unless p dies first.
SettleReview(p, cut) ==
  LET k == kid[p] IN
  /\ op[p] = "review"
  /\ \E failures \in {fails[p], Failures(k)} :
       state' = [state EXCEPT ![k] = AfterReview(failures, read[p], bad[p])]
  /\ review' = [review EXCEPT ![k] =
                  IF cut THEN @ ELSE <<IF bad[p] THEN "INVALID_EVIDENCE" ELSE "VALID", p>>]
  /\ Return(p)
  /\ WroteState(p)
  /\ UNCHANGED <<version, outcomes>>

\* Mutant of Proven: GLOBAL is asked no more than SYSTEM.
ProvenAnywhere(k) ==
  /\ Failures(k) = {}
  /\ Successes(k) # {}

\* No failure, one success, and two systems for GLOBAL.  The confidence thresholds
\* 0.60 and 0.70 follow: without failures it is (s + 1) / (s + 2).
Proven(k) ==
  /\ Failures(k) = {}
  /\ Successes(k) # {}
  /\ k \in Global => \E v, w \in Successes(k) : SystemOf[v] # SystemOf[w]

\* The promoted record of the lineage, the newest if there are several.
Prior(k, j) ==
  \/ j = NULL /\ Promoted \subseteq {k}
  \/ /\ j \in Promoted \ {k}
     /\ \A i \in Promoted \ {k} : version[i] <= version[j]

\* promote up to its writes.  It also compares confidences: the record's, computed anew,
\* and the stored one of the promoted record, which is out of date after a death between
\* an outcome and its UPDATE.  A promotion that this refuses is one abandoned.
Promote(p, k) ==
  /\ state[k] = "QUARANTINED"
  /\ review[k][1] = "VALID" /\ review[k][2] # p
  /\ Proven(k)
  /\ \E j \in Knowledge \cup {NULL} :
       /\ Prior(k, j)
       /\ j # NULL => version[k] > version[j]
       /\ Begin(p, "promote", k, NULL, 0, j, FALSE)

\* Mutant of SettlePromotion: the record promoted before stays promoted.
SettlePromotionBeside(p) ==
  /\ op[p] = "promote"
  /\ state' = [state EXCEPT ![kid[p]] = "PROMOTED"]
  /\ Return(p)
  /\ WroteState(p)
  /\ UNCHANGED <<version, outcomes, review>>

\* The record is promoted ...
SettlePromotion(p) ==
  /\ op[p] = "promote"
  /\ state' = [state EXCEPT ![kid[p]] = "PROMOTED"]
  /\ \/ old[p] = NULL /\ Return(p)
     \/ /\ old[p] # NULL
        /\ op' = [op EXCEPT ![p] = "superseding"]
        /\ UNCHANGED <<overlaps, kid, arg, read, num, old, bad, fails>>
  /\ WroteState(p)
  /\ UNCHANGED <<version, outcomes, review>>

\* ... and then the one promoted before is superseded, whatever became of it.
Supersede(p) ==
  /\ op[p] = "superseding"
  /\ state' = [state EXCEPT ![old[p]] = "SUPERSEDED"]
  /\ Return(p)
  /\ Wrote(p)
  /\ IF stale[p] THEN DoubtPrior(p) ELSE UNCHANGED suspect
  /\ UNCHANGED <<version, outcomes, review>>

Retire(p, k) ==
  /\ state[k] \in {"PROMOTED", "SUSPENDED", "QUARANTINED"}
  /\ Begin(p, "retire", k, NULL, 0, NULL, FALSE)

SettleRetirement(p) ==
  /\ op[p] = "retire"
  /\ state' = [state EXCEPT ![kid[p]] = "RETIRED"]
  /\ Return(p)
  /\ WroteState(p)
  /\ UNCHANGED <<version, outcomes, review>>

LnNext ==
  \E p \in Proc :
    \/ \E k \in Knowledge :
         \/ \E v \in Validation : Create(p, k, v) \/ Reproduce(p, k, v) \/ Regress(p, k, v)
         \/ \E b \in BOOLEAN : Review(p, k, b)
         \/ Promote(p, k)
         \/ Retire(p, k)
    \/ \E cut \in BOOLEAN :
         Insert(p, cut) \/ SettleRegression(p, cut) \/ SettleReview(p, cut)
    \/ AppendSuccess(p) \/ AppendFailure(p)
    \/ SettlePromotion(p) \/ Supersede(p) \/ SettleRetirement(p)
    \/ Abandon(p)

LnSpec == LnInit /\ [][LnNext]_lnVars
-----------------------------------------------------------------------------
(* Properties *)

States == {"NONE", "QUARANTINED", "PROMOTED", "SUSPENDED", "SUPERSEDED", "RETIRED"}

\* Type invariant of the knowledge tables and the calls.
LnTypeOK ==
  /\ state \in [Knowledge -> States]
  /\ version \in [Knowledge -> Nat]
  /\ outcomes \in [Knowledge -> SUBSET Validation]
  /\ review \in [Knowledge -> {"NONE", "VALID", "INVALID_EVIDENCE", "REGRESSION"}
                                \X (Proc \cup {NULL})]
  /\ op \in [Proc -> {"idle", "create", "reproduce", "regress", "regressed", "review",
                      "promote", "superseding", "retire"}]
  /\ kid \in [Proc -> Knowledge \cup {NULL}]
  /\ arg \in [Proc -> Validation \cup {NULL}]
  /\ read \in [Proc -> States]
  /\ old \in [Proc -> Knowledge \cup {NULL}]
  /\ num \in [Proc -> Nat]
  /\ bad \in [Proc -> BOOLEAN]
  /\ fails \in [Proc -> SUBSET Validation]
  /\ stale \in [Proc -> BOOLEAN]
  /\ suspect \subseteq Knowledge

\* What is promoted, or was until it was suspended or superseded, has succeeded, on two
\* systems if it is for every system; and two records never share a version.  Holds
\* whatever calls overlap or die.
PromotedEarned ==
  \A k \in Knowledge :
    /\ \A j \in Knowledge \ {k} : version[k] = version[j] => version[k] = 0
    /\ state[k] \in {"PROMOTED", "SUSPENDED", "SUPERSEDED"} =>
         /\ Successes(k) # {}
         /\ k \in Global => \E v, w \in Successes(k) : SystemOf[v] # SystemOf[w]

\* Two records of a lineage are promoted together only between the two UPDATEs of a
\* promote that supersedes one of them, unless a call was overtaken by another or died
\* between the two: every promote that goes through leaves one.
OnePromoted ==
  \A k, j \in Promoted :
    \/ k = j \/ k \in suspect \/ j \in suspect
    \/ \E p \in Proc : op[p] = "superseding" /\ old[p] \in {k, j}

\* A regression takes effect: what has failed is not promoted and what has failed twice
\* is retired, once record_regression is through, unless it was overtaken or died after
\* the outcome was stored (a retry is refused, the outcome being there).
RegressionActs ==
  \A k \in Knowledge \ suspect : (\A p \in Proc : op[p] = "regressed" => kid[p] # k) =>
    /\ Failures(k) # {} => state[k] # "PROMOTED"
    /\ Twice(Failures(k)) => state[k] = "RETIRED"

\* Retired is for good: only a call that read the record before it was retired brings it
\* back.
RetiredForGood ==
  [][\A k \in Knowledge :
       state[k] = "RETIRED" => state'[k] = "RETIRED" \/ k \in suspect']_lnVars
=============================================================================
