--------------------------- MODULE LearningProofs ---------------------------
(***************************************************************************)
(* Proofs of the properties of Learning, for any number of records,        *)
(* validations, callers, calls and overlaps.                               *)
(***************************************************************************)
EXTENDS Learning, TLAPS

USE LearningAssumption

\* States a record has only once it was promoted.
Ever == {"PROMOTED", "SUSPENDED", "SUPERSEDED"}

Earned(k) ==
  /\ Successes(k) # {}
  /\ k \in Global => \E v, w \in Successes(k) : SystemOf[v] # SystemOf[w]

\* A call under way has its record and its validation, and a record being created is
\* nobody else's.
Called ==
  \A p \in Proc :
    /\ op[p] = "idle" => kid[p] = NULL
    /\ op[p] # "idle" => kid[p] \in Knowledge
    /\ op[p] = "create" => /\ state[kid[p]] = "NONE"
                           /\ \A q \in Proc \ {p} : kid[q] # kid[p]
    /\ op[p] \notin {"idle", "create"} => state[kid[p]] # "NONE" /\ read[p] # "NONE"
    /\ old[p] # NULL => op[p] \in {"promote", "superseding"} /\ state[old[p]] # "NONE"
    /\ op[p] = "superseding" => old[p] # NULL
    /\ op[p] \in {"create", "reproduce"} => arg[p] \in Passed
    /\ op[p] \in {"regress", "regressed"} => arg[p] \in Validation

TypeInv == LnTypeOK /\ Called

\* What a call read is still so, unless it is out of date.
FreshAt(p) ==
  op[p] \notin {"idle", "create"} /\ ~stale[p] =>
    /\ op[p] # "superseding" => read[p] = state[kid[p]]
    /\ op[p] = "superseding" => state[old[p]] = "PROMOTED"
    /\ op[p] = "regressed" => fails[p] = Failures(kid[p])
    /\ op[p] = "promote" =>
         /\ state[kid[p]] = "QUARANTINED"
         /\ Failures(kid[p]) = {}
         /\ Prior(kid[p], old[p])
         /\ old[p] # NULL => version[kid[p]] > version[old[p]]

Fresh == \A p \in Proc : FreshAt(p)

\* What a call may write as promoted has earned it.
Backed ==
  /\ \A k \in Knowledge : state[k] \in Ever => Earned(k)
  /\ \A p \in Proc :
       /\ op[p] \notin {"idle", "create"} /\ read[p] \in Ever => Earned(kid[p])
       /\ op[p] = "promote" => Earned(kid[p])
       /\ old[p] # NULL => Earned(old[p])

Unique ==
  \A k, j \in Knowledge : k # j /\ version[k] = version[j] => version[k] = 0

\* A promote is about to supersede k.
Replaced(k) == \E p \in Proc : op[p] = "superseding" /\ old[p] = k

\* A promoted record that is neither in doubt nor about to be superseded is the newest
\* promoted one.
Leading ==
  \A k, j \in Promoted :
    k # j /\ k \notin suspect /\ ~Replaced(k) => version[k] > version[j]

Inv == TypeInv /\ Fresh /\ Backed /\ Unique /\ Leading /\ RegressionActs
-----------------------------------------------------------------------------
LEMMA LnInitInv == LnInit => Inv
<1> SUFFICES ASSUME LnInit PROVE Inv
  OBVIOUS
<1> USE DEF LnInit, Successes, Failures, Promoted
<1>1. TypeInv
  BY DEF TypeInv, LnTypeOK, Called, States
<1>2. Fresh /\ Backed
  BY DEF Fresh, FreshAt, Backed, Ever
<1>3. Unique /\ Leading
  BY DEF Unique, Leading
<1>4. RegressionActs
  BY DEF RegressionActs, Twice
<1> QED
  BY <1>1, <1>2, <1>3, <1>4 DEF Inv

\* A new state is one of the states, and NONE only if the one read was.
LEMMA AfterState ==
  ASSUME NEW f, NEW s \in States, NEW b \in BOOLEAN
  PROVE  /\ AfterRegression(f, s) \in States
         /\ AfterReview(f, s, b) \in States
         /\ s # "NONE" => AfterRegression(f, s) # "NONE" /\ AfterReview(f, s, b) # "NONE"
         /\ AfterRegression(f, s) \in Ever => s \in Ever
         /\ AfterReview(f, s, b) \in Ever => s \in Ever
         /\ AfterRegression(f, s) # "PROMOTED"
         /\ AfterReview(f, s, b) = "PROMOTED" => s = "PROMOTED"
         /\ s = "RETIRED" => AfterRegression(f, s) = "RETIRED" /\ AfterReview(f, s, b) = "RETIRED"
         /\ Twice(f) => AfterRegression(f, s) = "RETIRED"
<1>1. CASE Twice(f)
  BY <1>1 DEF AfterRegression, AfterReview, States, Ever
<1>2. CASE ~Twice(f)
  BY <1>2 DEF AfterRegression, AfterReview, States, Ever
<1> QED
  BY <1>1, <1>2

\* What a regression writes.
LEMMA RegressionState ==
  ASSUME TypeInv, NEW p \in Proc, NEW cut \in BOOLEAN, SettleRegression(p, cut)
  PROVE  \E s \in States \ {"NONE", "PROMOTED"} :
           /\ state' = [state EXCEPT ![kid[p]] = s]
           /\ s \in Ever => read[p] \in Ever
           /\ read[p] = "RETIRED" => s = "RETIRED"
           /\ fails[p] = Failures(kid[p]) /\ Twice(Failures(kid[p])) => s = "RETIRED"
<1>1. PICK f \in {fails[p], Failures(kid[p])} :
        state' = [state EXCEPT ![kid[p]] = AfterRegression(f, read[p])]
  BY DEF SettleRegression
<1>2. read[p] \in States /\ read[p] # "NONE"
  BY DEF SettleRegression, TypeInv, LnTypeOK, Called
<1> DEFINE t == AfterRegression(f, read[p])
<1>3. /\ t \in States \ {"NONE", "PROMOTED"} /\ (t \in Ever => read[p] \in Ever)
      /\ (read[p] = "RETIRED" => t = "RETIRED") /\ (Twice(f) => t = "RETIRED")
  BY <1>2, AfterState
<1> QED
  BY <1>1, <1>3

\* What a review writes.
LEMMA ReviewState ==
  ASSUME TypeInv, NEW p \in Proc, NEW cut \in BOOLEAN, SettleReview(p, cut)
  PROVE  \E s \in States \ {"NONE"} :
           /\ state' = [state EXCEPT ![kid[p]] = s]
           /\ s \in Ever => read[p] \in Ever
           /\ s = "PROMOTED" => read[p] = "PROMOTED"
           /\ read[p] = "RETIRED" => s = "RETIRED"
<1>1. PICK f \in {fails[p], Failures(kid[p])} :
        state' = [state EXCEPT ![kid[p]] = AfterReview(f, read[p], bad[p])]
  BY DEF SettleReview
<1>2. read[p] \in States /\ read[p] # "NONE" /\ bad[p] \in BOOLEAN
  BY DEF SettleReview, TypeInv, LnTypeOK, Called
<1> DEFINE t == AfterReview(f, read[p], bad[p])
<1>3. /\ t \in States \ {"NONE"} /\ (t \in Ever => read[p] \in Ever)
      /\ (t = "PROMOTED" => read[p] = "PROMOTED") /\ (read[p] = "RETIRED" => t = "RETIRED")
  BY <1>2, AfterState
<1> QED
  BY <1>1, <1>3
-----------------------------------------------------------------------------
(* Types *)

CallTypeOK ==
  /\ op \in [Proc -> {"idle", "create", "reproduce", "regress", "regressed", "review",
                      "promote", "superseding", "retire"}]
  /\ kid \in [Proc -> Knowledge \cup {NULL}]
  /\ arg \in [Proc -> Validation \cup {NULL}]
  /\ read \in [Proc -> States]
  /\ old \in [Proc -> Knowledge \cup {NULL}]
  /\ num \in [Proc -> Nat]
  /\ bad \in [Proc -> BOOLEAN]
  /\ fails \in [Proc -> SUBSET Validation]

RecordTypeOK ==
  /\ state \in [Knowledge -> States]
  /\ version \in [Knowledge -> Nat]
  /\ outcomes \in [Knowledge -> SUBSET Validation]
  /\ review \in [Knowledge -> {"NONE", "VALID", "INVALID_EVIDENCE", "REGRESSION"}
                                \X (Proc \cup {NULL})]

LEMMA ReturnType ==
  ASSUME LnTypeOK, NEW p \in Proc, Return(p) PROVE CallTypeOK'
  BY DEF LnTypeOK, CallTypeOK, Return, States

LEMMA WroteType ==
  ASSUME NEW p \in Proc, Wrote(p) PROVE stale' \in [Proc -> BOOLEAN]
<1>1. ASSUME NEW q \in Proc
      PROVE  (IF q = p THEN stale[p] /\ op'[p] # "idle"
              ELSE stale[q] \/ Target(q) = Target(p) \/ op[q] = "promote")
               \in BOOLEAN
  OBVIOUS
<1> QED
  BY <1>1 DEF Wrote, Overtake

LEMMA DoubtType ==
  ASSUME TypeInv, NEW p \in Proc, op[p] # "idle", Doubt(p) PROVE suspect' \subseteq Knowledge
  BY DEF TypeInv, LnTypeOK, Called, Doubt, Promoted

LEMMA WroteStateType ==
  ASSUME TypeInv, NEW p \in Proc, op[p] # "idle", WroteState(p)
  PROVE  stale' \in [Proc -> BOOLEAN] /\ suspect' \subseteq Knowledge
<1>1. CASE stale[p]
  BY <1>1, WroteType, DoubtType DEF WroteState
<1>2. CASE ~stale[p]
  BY <1>2, WroteType DEF WroteState, TypeInv, LnTypeOK
<1> QED
  BY <1>1, <1>2

\* The record that the call superseded, or should have, is a record.
LEMMA PriorType ==
  ASSUME TypeInv, NEW p \in Proc, op[p] = "superseding"
  PROVE  old[p] \in Knowledge /\ (DoubtPrior(p) => suspect' \subseteq Knowledge)
  BY DEF TypeInv, LnTypeOK, Called, DoubtPrior

\* The parts of the type invariant that a call changes when it begins.
LEMMA BeginType ==
  ASSUME TypeInv, NEW p \in Proc, NEW o, NEW k \in Knowledge, NEW v \in Validation \cup {NULL},
         NEW n \in Nat, NEW j \in Knowledge \cup {NULL}, NEW b \in BOOLEAN,
         o \in {"create", "reproduce", "regress", "review", "promote", "retire"},
         Begin(p, o, k, v, n, j, b),
         o = "create" => state[k] = "NONE" /\ \A q \in Proc : kid[q] # k,
         o # "create" => state[k] # "NONE",
         j # NULL => o = "promote" /\ state[j] # "NONE",
         o \in {"create", "reproduce"} => v \in Passed,
         o = "regress" => v \in Validation
  PROVE  TypeInv'
<1> USE DEF TypeInv, Begin, recordVars
<1>1. LnTypeOK'
  BY DEF LnTypeOK, Failures
<1>2. Called'
  <2> USE DEF LnTypeOK
  <2> SUFFICES ASSUME NEW q \in Proc
               PROVE  /\ op'[q] = "idle" => kid'[q] = NULL
                      /\ op'[q] # "idle" => kid'[q] \in Knowledge
                      /\ op'[q] = "create" => /\ state[kid'[q]] = "NONE"
                                             /\ \A r \in Proc \ {q} : kid'[r] # kid'[q]
                      /\ op'[q] \notin {"idle", "create"} =>
                            state[kid'[q]] # "NONE" /\ read'[q] # "NONE"
                      /\ old'[q] # NULL => op'[q] \in {"promote", "superseding"}
                                            /\ state[old'[q]] # "NONE"
                      /\ op'[q] = "superseding" => old'[q] # NULL
                      /\ op'[q] \in {"create", "reproduce"} => arg'[q] \in Passed
                      /\ op'[q] \in {"regress", "regressed"} => arg'[q] \in Validation
    BY DEF Called
  <2>1. CASE q = p
    BY <2>1 DEF Called
  <2>2. CASE q # p
    BY <2>2 DEF Called
  <2> QED
    BY <2>1, <2>2
<1> QED
  BY <1>1, <1>2

\* A call that returns, having changed no record from or to NONE but its own creation.
LEMMA ReturnCalled ==
  ASSUME TypeInv, NEW p \in Proc, op[p] # "idle", Return(p),
         \A q \in Proc \ {p} : op[q] = "create" => state'[kid[q]] = state[kid[q]],
         \A k \in Knowledge : state[k] # "NONE" => state'[k] # "NONE"
  PROVE  Called'
<1> USE DEF TypeInv, LnTypeOK, Return
<1> SUFFICES ASSUME NEW q \in Proc
             PROVE  /\ op'[q] = "idle" => kid'[q] = NULL
                    /\ op'[q] # "idle" => kid'[q] \in Knowledge
                    /\ op'[q] = "create" => /\ state'[kid'[q]] = "NONE"
                                           /\ \A r \in Proc \ {q} : kid'[r] # kid'[q]
                    /\ op'[q] \notin {"idle", "create"} =>
                          state'[kid'[q]] # "NONE" /\ read'[q] # "NONE"
                    /\ old'[q] # NULL => op'[q] \in {"promote", "superseding"}
                                          /\ state'[old'[q]] # "NONE"
                    /\ op'[q] = "superseding" => old'[q] # NULL
                    /\ op'[q] \in {"create", "reproduce"} => arg'[q] \in Passed
                    /\ op'[q] \in {"regress", "regressed"} => arg'[q] \in Validation
  BY DEF Called
<1>1. CASE q = p
  BY <1>1 DEF Called
<1>2. CASE q # p
  BY <1>2 DEF Called
<1> QED
  BY <1>1, <1>2

LEMMA LnTypeStep == TypeInv /\ [LnNext]_lnVars => TypeInv'
<1> SUFFICES ASSUME TypeInv, [LnNext]_lnVars PROVE TypeInv'
  OBVIOUS
<1>1. ASSUME NEW p \in Proc, NEW k \in Knowledge, NEW v \in Validation, Create(p, k, v)
      PROVE  TypeInv'
  <2>1. PICK n \in 1..MaxWrites : Newest(n) /\ Begin(p, "create", k, v, n, NULL, FALSE)
    BY <1>1 DEF Create
  <2>2. n \in Nat /\ NULL \in Knowledge \cup {NULL} /\ v \in Passed /\ state[k] = "NONE"
    BY <1>1 DEF Create
  <2>3. \A q \in Proc : kid[q] # k
    BY <1>1 DEF Create
  <2> QED
    BY <2>1, <2>2, <2>3, BeginType
<1>2. ASSUME NEW p \in Proc, NEW k \in Knowledge, NEW v \in Validation, Reproduce(p, k, v)
      PROVE  TypeInv'
  BY <1>2, BeginType DEF Reproduce
<1>3. ASSUME NEW p \in Proc, NEW k \in Knowledge, NEW v \in Validation, Regress(p, k, v)
      PROVE  TypeInv'
  BY <1>3, BeginType DEF Regress
<1>4. ASSUME NEW p \in Proc, NEW k \in Knowledge, NEW b \in BOOLEAN, Review(p, k, b)
      PROVE  TypeInv'
  BY <1>4, BeginType DEF Review
<1>5. ASSUME NEW p \in Proc, NEW k \in Knowledge, Promote(p, k) PROVE TypeInv'
  <2>1. PICK j \in Knowledge \cup {NULL} :
          Prior(k, j) /\ Begin(p, "promote", k, NULL, 0, j, FALSE)
    BY <1>5 DEF Promote
  <2>2. j # NULL => state[j] # "NONE"
    BY <2>1 DEF Prior, Promoted
  <2>3. state[k] # "NONE" /\ NULL \in Validation \cup {NULL} /\ 0 \in Nat /\ FALSE \in BOOLEAN
    BY <1>5 DEF Promote
  <2>4. /\ "promote" \in {"create", "reproduce", "regress", "review", "promote", "retire"}
        /\ "promote" \notin {"create", "reproduce"} /\ "promote" \notin {"create", "regress"}
    OBVIOUS
  <2> QED
    BY <2>1, <2>2, <2>3, <2>4, BeginType
<1>6. ASSUME NEW p \in Proc, NEW k \in Knowledge, Retire(p, k) PROVE TypeInv'
  <2>1. /\ state[k] # "NONE" /\ NULL \in Validation \cup {NULL} /\ 0 \in Nat
        /\ NULL \in Knowledge \cup {NULL} /\ FALSE \in BOOLEAN
        /\ Begin(p, "retire", k, NULL, 0, NULL, FALSE)
    BY <1>6 DEF Retire
  <2>2. /\ "retire" \in {"create", "reproduce", "regress", "review", "promote", "retire"}
        /\ "retire" \notin {"create", "reproduce"} /\ "retire" \notin {"create", "regress"}
    OBVIOUS
  <2> QED
    BY <2>1, <2>2, BeginType
<1>7. ASSUME NEW p \in Proc, NEW cut \in BOOLEAN, Insert(p, cut) PROVE TypeInv'
  <2>1. RecordTypeOK'
    BY <1>7 DEF Insert, TypeInv, LnTypeOK, Called, RecordTypeOK, States
  <2>2. CallTypeOK'
    BY <1>7, ReturnType DEF Insert, TypeInv
  <2>3. stale' \in [Proc -> BOOLEAN] /\ suspect' \subseteq Knowledge
    BY <1>7, WroteType DEF Insert, TypeInv, LnTypeOK
  <2>4. Called'
    <3>1. \A j \in Knowledge : state[j] # "NONE" => state'[j] # "NONE"
      BY <1>7 DEF Insert, TypeInv, LnTypeOK
    <3>2. \A q \in Proc \ {p} : op[q] = "create" => state'[kid[q]] = state[kid[q]]
      BY <1>7 DEF Insert, TypeInv, LnTypeOK, Called
    <3> QED
      BY <1>7, <3>1, <3>2, ReturnCalled DEF Insert
  <2> QED
    BY <2>1, <2>2, <2>3, <2>4 DEF TypeInv, LnTypeOK, RecordTypeOK, CallTypeOK
<1>8. ASSUME NEW p \in Proc, AppendSuccess(p) PROVE TypeInv'
  <2>1. RecordTypeOK'
    BY <1>8 DEF AppendSuccess, TypeInv, LnTypeOK, Called, RecordTypeOK
  <2>2. CallTypeOK'
    BY <1>8, ReturnType DEF AppendSuccess, TypeInv
  <2>3. stale' \in [Proc -> BOOLEAN] /\ suspect' \subseteq Knowledge
    BY <1>8, WroteType DEF AppendSuccess, TypeInv, LnTypeOK
  <2>4. Called'
    <3>1. \A j \in Knowledge : state[j] # "NONE" => state'[j] # "NONE"
      BY <1>8 DEF AppendSuccess, TypeInv, LnTypeOK
    <3>2. \A q \in Proc \ {p} : op[q] = "create" => state'[kid[q]] = state[kid[q]]
      BY <1>8 DEF AppendSuccess, TypeInv, LnTypeOK, Called
    <3> QED
      BY <1>8, <3>1, <3>2, ReturnCalled DEF AppendSuccess
  <2> QED
    BY <2>1, <2>2, <2>3, <2>4 DEF TypeInv, LnTypeOK, RecordTypeOK, CallTypeOK
<1>9. ASSUME NEW p \in Proc, AppendFailure(p) PROVE TypeInv'
  <2>1. RecordTypeOK' /\ CallTypeOK'
    BY <1>9 DEF AppendFailure, TypeInv, LnTypeOK, Called, RecordTypeOK, CallTypeOK
  <2>2. stale' \in [Proc -> BOOLEAN] /\ suspect' \subseteq Knowledge
    BY <1>9, WroteType DEF AppendFailure, TypeInv, LnTypeOK
  <2>3. Called'
    BY <1>9 DEF AppendFailure, TypeInv, LnTypeOK, Called
  <2> QED
    BY <2>1, <2>2, <2>3 DEF TypeInv, LnTypeOK, RecordTypeOK, CallTypeOK
<1>10. ASSUME NEW p \in Proc, NEW cut \in BOOLEAN, SettleRegression(p, cut) PROVE TypeInv'
  <2>1. PICK s \in States \ {"NONE"} : state' = [state EXCEPT ![kid[p]] = s]
    BY <1>10, RegressionState
  <2>2. RecordTypeOK'
    BY <2>1, <1>10 DEF SettleRegression, TypeInv, LnTypeOK, Called, RecordTypeOK
  <2>3. CallTypeOK'
    BY <1>10, ReturnType DEF SettleRegression, TypeInv
  <2>4. stale' \in [Proc -> BOOLEAN] /\ suspect' \subseteq Knowledge
    BY <1>10, WroteStateType DEF SettleRegression
  <2>5. Called'
    <3>1. \A j \in Knowledge : state[j] # "NONE" => state'[j] # "NONE"
      BY <2>1, <1>10 DEF SettleRegression, TypeInv, LnTypeOK
    <3>2. \A q \in Proc \ {p} : op[q] = "create" => state'[kid[q]] = state[kid[q]]
      BY <1>10 DEF SettleRegression, TypeInv, LnTypeOK, Called
    <3> QED
      BY <1>10, <3>1, <3>2, ReturnCalled DEF SettleRegression
  <2> QED
    BY <2>2, <2>3, <2>4, <2>5 DEF TypeInv, LnTypeOK, RecordTypeOK, CallTypeOK
<1>11. ASSUME NEW p \in Proc, NEW cut \in BOOLEAN, SettleReview(p, cut) PROVE TypeInv'
  <2>1. PICK s \in States \ {"NONE"} : state' = [state EXCEPT ![kid[p]] = s]
    BY <1>11, ReviewState
  <2>2. RecordTypeOK'
    BY <2>1, <1>11 DEF SettleReview, TypeInv, LnTypeOK, Called, RecordTypeOK
  <2>3. CallTypeOK'
    BY <1>11, ReturnType DEF SettleReview, TypeInv
  <2>4. stale' \in [Proc -> BOOLEAN] /\ suspect' \subseteq Knowledge
    BY <1>11, WroteStateType DEF SettleReview
  <2>5. Called'
    <3>1. \A j \in Knowledge : state[j] # "NONE" => state'[j] # "NONE"
      BY <2>1, <1>11 DEF SettleReview, TypeInv, LnTypeOK
    <3>2. \A q \in Proc \ {p} : op[q] = "create" => state'[kid[q]] = state[kid[q]]
      BY <1>11 DEF SettleReview, TypeInv, LnTypeOK, Called
    <3> QED
      BY <1>11, <3>1, <3>2, ReturnCalled DEF SettleReview
  <2> QED
    BY <2>2, <2>3, <2>4, <2>5 DEF TypeInv, LnTypeOK, RecordTypeOK, CallTypeOK
<1>12. ASSUME NEW p \in Proc, SettlePromotion(p) PROVE TypeInv'
  <2>0. kid[p] \in Knowledge /\ state[kid[p]] # "NONE" /\ op[p] = "promote"
    BY <1>12 DEF SettlePromotion, TypeInv, Called
  <2>1. RecordTypeOK'
    BY <1>12, <2>0 DEF SettlePromotion, TypeInv, LnTypeOK, RecordTypeOK, States
  <2>2. CallTypeOK'
    <3>1. CASE old[p] = NULL
      BY <1>12, <3>1, ReturnType DEF SettlePromotion, TypeInv
    <3>2. CASE old[p] # NULL
      BY <1>12, <3>2 DEF SettlePromotion, TypeInv, LnTypeOK, CallTypeOK
    <3> QED
      BY <3>1, <3>2
  <2>3. stale' \in [Proc -> BOOLEAN] /\ suspect' \subseteq Knowledge
    BY <1>12, <2>0, WroteStateType DEF SettlePromotion
  <2>4. Called'
    <3>1. \A j \in Knowledge : state[j] # "NONE" => state'[j] # "NONE"
      BY <1>12 DEF SettlePromotion, TypeInv, LnTypeOK
    <3>2. \A q \in Proc \ {p} : op[q] = "create" => state'[kid[q]] = state[kid[q]]
      BY <1>12, <2>0 DEF SettlePromotion, TypeInv, LnTypeOK, Called
    <3>3. CASE old[p] = NULL
      BY <1>12, <2>0, <3>1, <3>2, <3>3, ReturnCalled DEF SettlePromotion
    <3>4. CASE old[p] # NULL
      <4>1. /\ op' = [op EXCEPT ![p] = "superseding"]
            /\ UNCHANGED <<kid, arg, read, old>>
        BY <1>12, <3>4 DEF SettlePromotion
      <4>2. ASSUME NEW q \in Proc
            PROVE  op'[q] = op[q] \/ (q = p /\ op'[q] = "superseding")
        BY <4>1 DEF TypeInv, LnTypeOK
      <4> QED
        BY <2>0, <3>1, <3>2, <3>4, <4>1, <4>2 DEF TypeInv, LnTypeOK, Called
    <3> QED
      BY <3>3, <3>4
  <2> QED
    BY <2>1, <2>2, <2>3, <2>4 DEF TypeInv, LnTypeOK, RecordTypeOK, CallTypeOK
<1>16. ASSUME NEW p \in Proc, Supersede(p) PROVE TypeInv'
  <2>0. old[p] \in Knowledge /\ state[old[p]] # "NONE" /\ op[p] = "superseding"
    BY <1>16, PriorType DEF Supersede, TypeInv, Called
  <2>1. RecordTypeOK'
    BY <1>16, <2>0 DEF Supersede, TypeInv, LnTypeOK, RecordTypeOK, States
  <2>2. CallTypeOK'
    BY <1>16, ReturnType DEF Supersede, TypeInv
  <2>3. stale' \in [Proc -> BOOLEAN] /\ suspect' \subseteq Knowledge
    BY <1>16, <2>0, WroteType, PriorType DEF Supersede, TypeInv, LnTypeOK
  <2>4. Called'
    <3>1. \A j \in Knowledge : state[j] # "NONE" => state'[j] # "NONE"
      BY <1>16 DEF Supersede, TypeInv, LnTypeOK
    <3>2. \A q \in Proc \ {p} : op[q] = "create" => state'[kid[q]] = state[kid[q]]
      BY <1>16, <2>0 DEF Supersede, TypeInv, LnTypeOK, Called
    <3> QED
      BY <1>16, <2>0, <3>1, <3>2, ReturnCalled DEF Supersede
  <2> QED
    BY <2>1, <2>2, <2>3, <2>4 DEF TypeInv, LnTypeOK, RecordTypeOK, CallTypeOK
<1>13. ASSUME NEW p \in Proc, SettleRetirement(p) PROVE TypeInv'
  <2>1. RecordTypeOK'
    BY <1>13 DEF SettleRetirement, TypeInv, LnTypeOK, Called, RecordTypeOK, States
  <2>2. CallTypeOK'
    BY <1>13, ReturnType DEF SettleRetirement, TypeInv
  <2>3. stale' \in [Proc -> BOOLEAN] /\ suspect' \subseteq Knowledge
    BY <1>13, WroteStateType DEF SettleRetirement
  <2>4. Called'
    <3>1. \A j \in Knowledge : state[j] # "NONE" => state'[j] # "NONE"
      BY <1>13 DEF SettleRetirement, TypeInv, LnTypeOK
    <3>2. \A q \in Proc \ {p} : op[q] = "create" => state'[kid[q]] = state[kid[q]]
      BY <1>13 DEF SettleRetirement, TypeInv, LnTypeOK, Called
    <3> QED
      BY <1>13, <3>1, <3>2, ReturnCalled DEF SettleRetirement
  <2> QED
    BY <2>1, <2>2, <2>3, <2>4 DEF TypeInv, LnTypeOK, RecordTypeOK, CallTypeOK
<1>14. ASSUME NEW p \in Proc, Abandon(p) PROVE TypeInv'
  <2>1. RecordTypeOK'
    BY <1>14 DEF Abandon, TypeInv, LnTypeOK, Called, RecordTypeOK, recordVars
  <2>2. CallTypeOK'
    BY <1>14, ReturnType DEF Abandon, TypeInv
  <2>3. stale' \in [Proc -> BOOLEAN] /\ suspect' \subseteq Knowledge
    BY <1>14, DoubtType, PriorType DEF Abandon, TypeInv, LnTypeOK
  <2>4. Called'
    <3>1. \A j \in Knowledge : state[j] # "NONE" => state'[j] # "NONE"
      BY <1>14 DEF Abandon, TypeInv, LnTypeOK, recordVars
    <3>2. \A q \in Proc \ {p} : op[q] = "create" => state'[kid[q]] = state[kid[q]]
      BY <1>14 DEF Abandon, TypeInv, LnTypeOK, Called, recordVars
    <3> QED
      BY <1>14, <3>1, <3>2, ReturnCalled DEF Abandon
  <2> QED
    BY <2>1, <2>2, <2>3, <2>4 DEF TypeInv, LnTypeOK, RecordTypeOK, CallTypeOK
<1>15. CASE UNCHANGED lnVars
  BY <1>15 DEF TypeInv, LnTypeOK, Called, lnVars, recordVars, callVars
<1> QED
  BY <1>1, <1>2, <1>3, <1>4, <1>5, <1>6, <1>7, <1>8, <1>9, <1>10, <1>11, <1>12, <1>13,
     <1>14, <1>15, <1>16 DEF LnNext
-----------------------------------------------------------------------------
(* What a call read *)

LEMMA FreshBegin ==
  ASSUME TypeInv, Fresh, NEW p \in Proc, NEW o, NEW k \in Knowledge, NEW v, NEW n,
         NEW j \in Knowledge \cup {NULL}, NEW b, Begin(p, o, k, v, n, j, b), 
         o # "regressed", o # "superseding",
         o = "promote" =>
           /\ state[k] = "QUARANTINED"
           /\ Failures(k) = {}
           /\ Prior(k, j)
           /\ j # NULL => version[k] > version[j]
  PROVE  Fresh'
<1> USE DEF TypeInv, LnTypeOK, Begin, recordVars, Failures, Prior, Promoted
<1> SUFFICES ASSUME NEW q \in Proc, op'[q] \notin {"idle", "create"}, ~stale'[q]
             PROVE  /\ op'[q] # "superseding" => read'[q] = state[kid'[q]]
                    /\ op'[q] = "superseding" => state[old'[q]] = "PROMOTED"
                    /\ op'[q] = "regressed" => fails'[q] = Failures(kid'[q])
                    /\ op'[q] = "promote" =>
                         /\ state[kid'[q]] = "QUARANTINED"
                         /\ Failures(kid'[q]) = {}
                         /\ Prior(kid'[q], old'[q])
                         /\ old'[q] # NULL => version[kid'[q]] > version[old'[q]]
  BY DEF Fresh, FreshAt
<1>1. CASE q = p
  <2>1. op'[q] = o /\ kid'[q] = k /\ read'[q] = state[k] /\ old'[q] = j
    BY <1>1
  <2> QED
    BY <2>1
<1>2. CASE q # p
  <2>1. /\ op'[q] = op[q] /\ kid'[q] = kid[q] /\ read'[q] = read[q] /\ old'[q] = old[q]
        /\ stale'[q] = stale[q] /\ fails'[q] = fails[q]
    BY <1>2
  <2> QED
    BY <2>1 DEF Fresh, FreshAt
<1> QED
  BY <1>1, <1>2

SameCall(q) ==
  /\ op'[q] = op[q] /\ read'[q] = read[q] /\ kid'[q] = kid[q] /\ old'[q] = old[q]
  /\ fails'[q] = fails[q]

\* A call goes on to its second write.
Regressing(p) ==
  /\ op[p] = "regress" /\ op'[p] = "regressed"
  /\ read'[p] = read[p] /\ kid'[p] = kid[p] /\ old'[p] = old[p]

Superseding(p) ==
  /\ op[p] = "promote" /\ op'[p] = "superseding" /\ old[p] # NULL
  /\ read'[p] = read[p] /\ kid'[p] = kid[p] /\ old'[p] = old[p]

LEMMA PromotionGoesOn ==
  ASSUME TypeInv, NEW p \in Proc, SettlePromotion(p)
  PROVE  /\ \A q \in Proc \ {p} : SameCall(q)
         /\ (op'[p] = "idle" /\ old'[p] = NULL) \/ Superseding(p)
  BY DEF SettlePromotion, Return, TypeInv, LnTypeOK, SameCall, Superseding

LEMMA ReturnOthers ==
  ASSUME TypeInv, NEW p \in Proc, Return(p)
  PROVE  (\A q \in Proc \ {p} : SameCall(q)) /\ op'[p] = "idle" /\ old'[p] = NULL
  BY DEF Return, TypeInv, LnTypeOK, SameCall

\* Those that a write does not put out of date go by another record.
LEMMA FreshWrote ==
  ASSUME TypeInv, Fresh, NEW p \in Proc, op[p] # "idle", Wrote(p), FreshAt(p)',
         \A q \in Proc \ {p} : SameCall(q),
         \A k \in Knowledge \ {Target(p)} :
           state'[k] = state[k] /\ outcomes'[k] = outcomes[k]
  PROVE  Fresh'
<1> USE DEF TypeInv, LnTypeOK
<1> SUFFICES ASSUME NEW q \in Proc, q # p, op'[q] \notin {"idle", "create"}, ~stale'[q]
             PROVE  /\ op'[q] # "superseding" => read'[q] = state'[kid'[q]]
                    /\ op'[q] = "superseding" => state'[old'[q]] = "PROMOTED"
                    /\ op'[q] = "regressed" => fails'[q] = Failures(kid[q])'
                    /\ op'[q] # "promote"
  BY DEF Fresh, FreshAt
<1>1. /\ op'[q] = op[q] /\ kid'[q] = kid[q] /\ read'[q] = read[q] /\ old'[q] = old[q]
      /\ fails'[q] = fails[q]
  BY DEF SameCall
<1>2. ~stale[q] /\ Target(q) # Target(p) /\ op[q] # "promote"
  BY DEF Wrote, Overtake
<1>3. kid[q] \in Knowledge /\ (op[q] = "superseding" => old[q] \in Knowledge)
  BY <1>1 DEF Called
<1>4. FreshAt(q)
  BY DEF Fresh
<1>5. CASE op[q] = "superseding"
  BY <1>1, <1>2, <1>3, <1>4, <1>5 DEF FreshAt, Target
<1>6. CASE op[q] # "superseding"
  BY <1>1, <1>2, <1>3, <1>4, <1>6 DEF FreshAt, Failures, Target
<1> QED
  BY <1>5, <1>6

\* A call that wrote all it had to.
LEMMA FreshReturn ==
  ASSUME TypeInv, Fresh, NEW p \in Proc, op[p] # "idle", Wrote(p), Return(p),
         \A k \in Knowledge \ {Target(p)} :
           state'[k] = state[k] /\ outcomes'[k] = outcomes[k]
  PROVE  Fresh'
<1>1. (\A q \in Proc \ {p} : SameCall(q)) /\ op'[p] = "idle"
  BY ReturnOthers
<1>2. FreshAt(p)'
  BY <1>1 DEF FreshAt
<1> QED
  BY <1>1, <1>2, FreshWrote

LEMMA FreshStep == Inv /\ [LnNext]_lnVars => Fresh'
<1> SUFFICES ASSUME Inv, [LnNext]_lnVars PROVE Fresh'
  OBVIOUS
<1>0. TypeInv /\ Fresh
  BY DEF Inv
<1>1. ASSUME NEW p \in Proc, NEW k \in Knowledge, NEW v \in Validation, Create(p, k, v)
      PROVE  Fresh'
  BY <1>0, <1>1, FreshBegin DEF Create
<1>2. ASSUME NEW p \in Proc, NEW k \in Knowledge, NEW v \in Validation, Reproduce(p, k, v)
      PROVE  Fresh'
  BY <1>0, <1>2, FreshBegin DEF Reproduce
<1>3. ASSUME NEW p \in Proc, NEW k \in Knowledge, NEW v \in Validation, Regress(p, k, v)
      PROVE  Fresh'
  BY <1>0, <1>3, FreshBegin DEF Regress
<1>4. ASSUME NEW p \in Proc, NEW k \in Knowledge, NEW b \in BOOLEAN, Review(p, k, b)
      PROVE  Fresh'
  BY <1>0, <1>4, FreshBegin DEF Review
<1>5. ASSUME NEW p \in Proc, NEW k \in Knowledge, Promote(p, k) PROVE Fresh'
  <2>1. PICK j \in Knowledge \cup {NULL} :
          /\ Prior(k, j)
          /\ j # NULL => version[k] > version[j]
          /\ Begin(p, "promote", k, NULL, 0, j, FALSE)
    BY <1>5 DEF Promote
  <2>2. state[k] = "QUARANTINED" /\ Failures(k) = {}
    BY <1>5 DEF Promote, Proven
  <2> QED
    BY <1>0, <2>1, <2>2, FreshBegin
<1>6. ASSUME NEW p \in Proc, NEW k \in Knowledge, Retire(p, k) PROVE Fresh'
  BY <1>0, <1>6, FreshBegin DEF Retire
<1>7. ASSUME NEW p \in Proc, NEW cut \in BOOLEAN, Insert(p, cut) PROVE Fresh'
  <2>1. \A k \in Knowledge \ {Target(p)} :
          state'[k] = state[k] /\ outcomes'[k] = outcomes[k]
    BY <1>0, <1>7 DEF Insert, TypeInv, LnTypeOK, Target
  <2> QED
    BY <1>0, <1>7, <2>1, FreshReturn DEF Insert
<1>8. ASSUME NEW p \in Proc, AppendSuccess(p) PROVE Fresh'
  <2>1. \A k \in Knowledge \ {Target(p)} :
          state'[k] = state[k] /\ outcomes'[k] = outcomes[k]
    BY <1>0, <1>8 DEF AppendSuccess, TypeInv, LnTypeOK, Target
  <2> QED
    BY <1>0, <1>8, <2>1, FreshReturn DEF AppendSuccess
<1>9. ASSUME NEW p \in Proc, AppendFailure(p) PROVE Fresh'
  <2>0. op[p] = "regress" /\ Target(p) = kid[p] /\ Wrote(p) /\ kid[p] \in Knowledge
    BY <1>0, <1>9 DEF AppendFailure, Target, TypeInv, Called
  <2>1. \A k \in Knowledge \ {Target(p)} : state'[k] = state[k] /\ outcomes'[k] = outcomes[k]
    BY <1>0, <1>9, <2>0 DEF AppendFailure, TypeInv, LnTypeOK
  <2>2. \A q \in Proc \ {p} : SameCall(q)
    BY <1>0, <1>9 DEF AppendFailure, TypeInv, LnTypeOK, SameCall
  <2>3. FreshAt(p)'
    <3>1. /\ op'[p] = "regressed" /\ fails'[p] = outcomes'[kid[p]] \ Passed
          /\ read' = read /\ kid' = kid /\ state' = state
      BY <1>0, <1>9 DEF AppendFailure, TypeInv, LnTypeOK
    <3>2. ~stale'[p] => ~stale[p]
      BY <1>9, <3>1 DEF AppendFailure, Wrote, Overtake
    <3> QED
      BY <1>0, <2>0, <3>1, <3>2 DEF Fresh, FreshAt, Failures
  <2> QED
    BY <1>0, <2>0, <2>1, <2>2, <2>3, FreshWrote
<1>10. ASSUME NEW p \in Proc, NEW cut \in BOOLEAN, SettleRegression(p, cut) PROVE Fresh'
  <2>1. \A k \in Knowledge \ {Target(p)} : state'[k] = state[k]
    <3>1. PICK s : state' = [state EXCEPT ![kid[p]] = s]
      BY <1>0, <1>10, RegressionState
    <3> QED
      BY <1>0, <1>10, <3>1 DEF TypeInv, LnTypeOK, Target, SettleRegression
  <2>2. outcomes' = outcomes
    BY <1>10 DEF SettleRegression
  <2> QED
    BY <1>0, <1>10, <2>1, <2>2, FreshReturn DEF SettleRegression, WroteState
<1>11. ASSUME NEW p \in Proc, NEW cut \in BOOLEAN, SettleReview(p, cut) PROVE Fresh'
  <2>1. \A k \in Knowledge \ {Target(p)} : state'[k] = state[k]
    <3>1. PICK s : state' = [state EXCEPT ![kid[p]] = s]
      BY <1>0, <1>11, ReviewState
    <3> QED
      BY <1>0, <1>11, <3>1 DEF TypeInv, LnTypeOK, Target, SettleReview
  <2>2. outcomes' = outcomes
    BY <1>11 DEF SettleReview
  <2> QED
    BY <1>0, <1>11, <2>1, <2>2, FreshReturn DEF SettleReview, WroteState
<1>12. ASSUME NEW p \in Proc, SettlePromotion(p) PROVE Fresh'
  <2>0. op[p] = "promote" /\ Target(p) = kid[p] /\ Wrote(p) /\ kid[p] \in Knowledge
    BY <1>0, <1>12 DEF SettlePromotion, WroteState, Target, TypeInv, Called
  <2>1. /\ \A k \in Knowledge \ {kid[p]} : state'[k] = state[k]
        /\ outcomes' = outcomes
    BY <1>0, <1>12 DEF SettlePromotion, TypeInv, LnTypeOK
  <2>2. /\ \A q \in Proc \ {p} : SameCall(q)
        /\ (op'[p] = "idle" /\ old'[p] = NULL) \/ Superseding(p)
    BY <1>0, <1>12, PromotionGoesOn
  <2>3. FreshAt(p)'
    <3>1. CASE op'[p] = "idle"
      BY <3>1 DEF FreshAt
    <3>2. CASE Superseding(p) /\ ~stale'[p]
      <4>1. ~stale[p]
        BY <2>0, <3>2 DEF Wrote, Overtake, Superseding
      <4>2. old[p] \in Promoted \ {kid[p]}
        BY <1>0, <2>0, <3>2, <4>1 DEF Fresh, FreshAt, Prior, Superseding
      <4> QED
        BY <2>1, <3>2, <4>2 DEF FreshAt, Superseding, Promoted
    <3>3. CASE stale'[p]
      BY <3>3 DEF FreshAt
    <3> QED
      BY <2>2, <3>1, <3>2, <3>3
  <2> QED
    BY <1>0, <2>0, <2>1, <2>2, <2>3, FreshWrote
<1>16. ASSUME NEW p \in Proc, Supersede(p) PROVE Fresh'
  <2>1. \A k \in Knowledge \ {Target(p)} :
          state'[k] = state[k] /\ outcomes'[k] = outcomes[k]
    BY <1>0, <1>16 DEF Supersede, TypeInv, LnTypeOK, Target
  <2> QED
    BY <1>0, <1>16, <2>1, FreshReturn DEF Supersede
<1>13. ASSUME NEW p \in Proc, SettleRetirement(p) PROVE Fresh'
  <2>1. \A k \in Knowledge \ {Target(p)} :
          state'[k] = state[k] /\ outcomes'[k] = outcomes[k]
    BY <1>0, <1>13 DEF SettleRetirement, TypeInv, LnTypeOK, Target
  <2> QED
    BY <1>0, <1>13, <2>1, FreshReturn DEF SettleRetirement, WroteState
<1>14. ASSUME NEW p \in Proc, Abandon(p) PROVE Fresh'
  BY <1>0, <1>14
  DEF Abandon, Return, recordVars, Fresh, FreshAt, TypeInv, LnTypeOK, Failures, Prior, Promoted
<1>15. CASE UNCHANGED lnVars
  BY <1>0, <1>15 DEF lnVars, recordVars, callVars, Fresh, FreshAt, Failures, Prior, Promoted
<1> QED
  BY <1>1, <1>2, <1>3, <1>4, <1>5, <1>6, <1>7, <1>8, <1>9, <1>10, <1>11, <1>12, <1>13,
     <1>14, <1>15, <1>16 DEF LnNext
-----------------------------------------------------------------------------
(* What was promoted has earned it *)

LEMMA EarnedGrows ==
  ASSUME NEW k \in Knowledge, Earned(k), outcomes[k] \subseteq outcomes'[k]
  PROVE  Earned(k)'
  BY DEF Earned, Successes

LEMMA BackedBegin ==
  ASSUME TypeInv, Backed, NEW p \in Proc, NEW o, NEW k \in Knowledge, NEW v, NEW n,
         NEW j \in Knowledge \cup {NULL}, NEW b, Begin(p, o, k, v, n, j, b),
         o = "promote" => Earned(k),
         j # NULL => Earned(j)
  PROVE  Backed'
<1> USE DEF TypeInv, LnTypeOK, Begin, recordVars, Earned, Successes
<1>1. \A i \in Knowledge : state'[i] \in Ever => Earned(i)'
  BY DEF Backed
<1>2. ASSUME NEW q \in Proc
      PROVE  /\ op'[q] \notin {"idle", "create"} /\ read'[q] \in Ever => Earned(kid[q])'
             /\ op'[q] = "promote" => Earned(kid[q])'
             /\ old'[q] # NULL => Earned(old[q])'
  <2>1. CASE q = p
    <3>1. op'[q] = o /\ kid'[q] = k /\ read'[q] = state[k] /\ old'[q] = j
      BY <2>1
    <3> QED
      BY <3>1 DEF Backed
  <2>2. CASE q # p
    <3>1. op'[q] = op[q] /\ kid'[q] = kid[q] /\ read'[q] = read[q] /\ old'[q] = old[q]
      BY <2>2
    <3> QED
      BY <3>1 DEF Backed
  <2> QED
    BY <2>1, <2>2
<1> QED
  BY <1>1, <1>2 DEF Backed

\* A write that only adds outcomes and writes states that were earned.
LEMMA BackedWrote ==
  ASSUME TypeInv, Backed, NEW p \in Proc, op[p] # "idle",
         \A q \in Proc \ {p} : SameCall(q),
         (op'[p] = "idle" /\ old'[p] = NULL) \/ Regressing(p) \/ Superseding(p),
         \A k \in Knowledge : state[k] # "NONE" => outcomes[k] \subseteq outcomes'[k],
         \A k \in Knowledge : state'[k] \in Ever => state[k] # "NONE" /\ Earned(k)
  PROVE  Backed'
<1> USE DEF TypeInv, LnTypeOK
<1>1. ASSUME NEW k \in Knowledge, state'[k] \in Ever PROVE Earned(k)'
  BY <1>1, EarnedGrows
<1>2. ASSUME NEW q \in Proc
      PROVE  /\ op'[q] \notin {"idle", "create"} /\ read'[q] \in Ever => Earned(kid[q])'
             /\ op'[q] = "promote" => Earned(kid[q])'
             /\ old'[q] # NULL => Earned(old[q])'
  <2>1. ASSUME NEW k \in Knowledge, state[k] # "NONE", Earned(k) PROVE Earned(k)'
    BY <2>1, EarnedGrows
  <2>2. ASSUME op'[q] \notin {"idle", "create"}
        PROVE  /\ kid'[q] = kid[q] /\ read'[q] = read[q] /\ op[q] \notin {"idle", "create"}
               /\ kid[q] \in Knowledge /\ state[kid[q]] # "NONE"
               /\ op'[q] = "promote" => op[q] = "promote"
    BY <2>2 DEF Called, SameCall, Regressing, Superseding
  <2>3. ASSUME old'[q] # NULL
        PROVE  old'[q] = old[q] /\ old[q] \in Knowledge /\ state[old[q]] # "NONE"
    BY <2>3 DEF Called, SameCall, Regressing, Superseding
  <2>4. op'[q] \notin {"idle", "create"} /\ read'[q] \in Ever => Earned(kid[q])'
    <3> SUFFICES ASSUME op'[q] \notin {"idle", "create"}, read'[q] \in Ever PROVE Earned(kid[q])'
      OBVIOUS
    <3>1. Earned(kid[q])
      BY <2>2 DEF Backed
    <3> QED
      BY <2>2, <3>1 DEF Earned, Successes
  <2>5. op'[q] = "promote" => Earned(kid[q])'
    <3> SUFFICES ASSUME op'[q] = "promote" PROVE Earned(kid[q])'
      OBVIOUS
    <3>1. Earned(kid[q])
      BY <2>2 DEF Backed
    <3> QED
      BY <2>2, <3>1 DEF Earned, Successes
  <2>6. old'[q] # NULL => Earned(old[q])'
    <3> SUFFICES ASSUME old'[q] # NULL PROVE Earned(old[q])'
      OBVIOUS
    <3>1. Earned(old[q])
      BY <2>3 DEF Backed
    <3> QED
      BY <2>3, <3>1 DEF Earned, Successes
  <2> QED
    BY <2>4, <2>5, <2>6
<1> QED
  BY <1>1, <1>2 DEF Backed

LEMMA BackedStep == Inv /\ [LnNext]_lnVars => Backed'
<1> SUFFICES ASSUME Inv, [LnNext]_lnVars PROVE Backed'
  OBVIOUS
<1>0. TypeInv /\ Backed
  BY DEF Inv
<1>1. ASSUME NEW p \in Proc, NEW k \in Knowledge, NEW v \in Validation, Create(p, k, v)
      PROVE  Backed'
  <2>1. PICK n \in 1..MaxWrites : Begin(p, "create", k, v, n, NULL, FALSE)
    BY <1>1 DEF Create
  <2>2. "create" # "promote" /\ NULL \in Knowledge \cup {NULL}
    OBVIOUS
  <2> QED
    BY <1>0, <2>1, <2>2, BackedBegin
<1>2. ASSUME NEW p \in Proc, NEW k \in Knowledge, NEW v \in Validation, Reproduce(p, k, v)
      PROVE  Backed'
  <2>1. /\ Begin(p, "reproduce", k, v, 0, NULL, FALSE)
        /\ "reproduce" # "promote" /\ NULL \in Knowledge \cup {NULL}
    BY <1>2 DEF Reproduce
  <2> QED
    BY <1>0, <2>1, BackedBegin
<1>3. ASSUME NEW p \in Proc, NEW k \in Knowledge, NEW v \in Validation, Regress(p, k, v)
      PROVE  Backed'
  <2>1. /\ Begin(p, "regress", k, v, 0, NULL, FALSE)
        /\ "regress" # "promote" /\ NULL \in Knowledge \cup {NULL}
    BY <1>3 DEF Regress
  <2> QED
    BY <1>0, <2>1, BackedBegin
<1>4. ASSUME NEW p \in Proc, NEW k \in Knowledge, NEW b \in BOOLEAN, Review(p, k, b)
      PROVE  Backed'
  BY <1>0, <1>4, BackedBegin DEF Review
<1>5. ASSUME NEW p \in Proc, NEW k \in Knowledge, Promote(p, k) PROVE Backed'
  <2>1. PICK j \in Knowledge \cup {NULL} :
          Prior(k, j) /\ Begin(p, "promote", k, NULL, 0, j, FALSE)
    BY <1>5 DEF Promote
  <2>2. Earned(k)
    BY <1>5 DEF Promote, Proven, Earned
  <2>3. j # NULL => Earned(j)
    BY <1>0, <2>1 DEF Prior, Promoted, Backed, Ever
  <2> QED
    BY <1>0, <2>1, <2>2, <2>3, BackedBegin
<1>6. ASSUME NEW p \in Proc, NEW k \in Knowledge, Retire(p, k) PROVE Backed'
  <2>1. /\ Begin(p, "retire", k, NULL, 0, NULL, FALSE)
        /\ "retire" # "promote" /\ NULL \in Knowledge \cup {NULL}
    BY <1>6 DEF Retire
  <2> QED
    BY <1>0, <2>1, BackedBegin
<1>7. ASSUME NEW p \in Proc, NEW cut \in BOOLEAN, Insert(p, cut) PROVE Backed'
  <2>1. (\A q \in Proc \ {p} : SameCall(q)) /\ op'[p] = "idle" /\ old'[p] = NULL
    BY <1>0, <1>7, ReturnOthers DEF Insert
  <2>2. \A k \in Knowledge : state[k] # "NONE" => outcomes[k] \subseteq outcomes'[k]
    BY <1>0, <1>7 DEF Insert, TypeInv, LnTypeOK, Called
  <2>3. \A k \in Knowledge : state'[k] \in Ever => state[k] # "NONE" /\ Earned(k)
    BY <1>0, <1>7 DEF Insert, TypeInv, LnTypeOK, Called, Backed, Ever
  <2> QED
    BY <1>0, <1>7, <2>1, <2>2, <2>3, BackedWrote DEF Insert
<1>8. ASSUME NEW p \in Proc, AppendSuccess(p) PROVE Backed'
  <2>1. (\A q \in Proc \ {p} : SameCall(q)) /\ op'[p] = "idle" /\ old'[p] = NULL
    BY <1>0, <1>8, ReturnOthers DEF AppendSuccess
  <2>2. \A k \in Knowledge : state[k] # "NONE" => outcomes[k] \subseteq outcomes'[k]
    BY <1>0, <1>8 DEF AppendSuccess, TypeInv, LnTypeOK, Called
  <2>3. \A k \in Knowledge : state'[k] \in Ever => state[k] # "NONE" /\ Earned(k)
    BY <1>0, <1>8 DEF AppendSuccess, TypeInv, LnTypeOK, Called, Backed, Ever
  <2> QED
    BY <1>0, <1>8, <2>1, <2>2, <2>3, BackedWrote DEF AppendSuccess
<1>9. ASSUME NEW p \in Proc, AppendFailure(p) PROVE Backed'
  <2>1. (\A q \in Proc \ {p} : SameCall(q)) /\ Regressing(p)
    BY <1>0, <1>9 DEF AppendFailure, TypeInv, LnTypeOK, SameCall, Regressing
  <2>2. \A k \in Knowledge : state[k] # "NONE" => outcomes[k] \subseteq outcomes'[k]
    BY <1>0, <1>9 DEF AppendFailure, TypeInv, LnTypeOK, Called
  <2>3. \A k \in Knowledge : state'[k] \in Ever => state[k] # "NONE" /\ Earned(k)
    BY <1>0, <1>9 DEF AppendFailure, TypeInv, LnTypeOK, Called, Backed, Ever
  <2> QED
    BY <1>0, <1>9, <2>1, <2>2, <2>3, BackedWrote DEF AppendFailure
<1>10. ASSUME NEW p \in Proc, NEW cut \in BOOLEAN, SettleRegression(p, cut) PROVE Backed'
  <2>1. (\A q \in Proc \ {p} : SameCall(q)) /\ op'[p] = "idle" /\ old'[p] = NULL
    BY <1>0, <1>10, ReturnOthers DEF SettleRegression
  <2>2. \A k \in Knowledge : state[k] # "NONE" => outcomes[k] \subseteq outcomes'[k]
    BY <1>0, <1>10 DEF SettleRegression, TypeInv, LnTypeOK, Called
  <2>3. \A k \in Knowledge : state'[k] \in Ever => state[k] # "NONE" /\ Earned(k)
    <3>0. PICK s : state' = [state EXCEPT ![kid[p]] = s] /\ (s \in Ever => read[p] \in Ever)
      BY <1>0, <1>10, RegressionState
    <3>1. state'[kid[p]] \in Ever => read[p] \in Ever
      BY <1>0, <1>10, <3>0 DEF SettleRegression, TypeInv, LnTypeOK, Called
    <3>2. \A k \in Knowledge \ {kid[p]} : state'[k] = state[k]
      BY <1>0, <3>0 DEF TypeInv, LnTypeOK
    <3>3. /\ kid[p] \in Knowledge /\ state[kid[p]] # "NONE"
          /\ read[p] \in Ever => Earned(kid[p])
      BY <1>0, <1>10 DEF SettleRegression, TypeInv, Called, Backed
    <3>4. \A k \in Knowledge : state[k] \in Ever => state[k] # "NONE" /\ Earned(k)
      BY <1>0 DEF Backed, Ever
    <3> QED
      BY <3>1, <3>2, <3>3, <3>4
  <2> QED
    BY <1>0, <1>10, <2>1, <2>2, <2>3, BackedWrote DEF SettleRegression
<1>11. ASSUME NEW p \in Proc, NEW cut \in BOOLEAN, SettleReview(p, cut) PROVE Backed'
  <2>1. (\A q \in Proc \ {p} : SameCall(q)) /\ op'[p] = "idle" /\ old'[p] = NULL
    BY <1>0, <1>11, ReturnOthers DEF SettleReview
  <2>2. \A k \in Knowledge : state[k] # "NONE" => outcomes[k] \subseteq outcomes'[k]
    BY <1>0, <1>11 DEF SettleReview, TypeInv, LnTypeOK, Called
  <2>3. \A k \in Knowledge : state'[k] \in Ever => state[k] # "NONE" /\ Earned(k)
    <3>0. PICK s : state' = [state EXCEPT ![kid[p]] = s] /\ (s \in Ever => read[p] \in Ever)
      BY <1>0, <1>11, ReviewState
    <3>1. state'[kid[p]] \in Ever => read[p] \in Ever
      BY <1>0, <1>11, <3>0 DEF SettleReview, TypeInv, LnTypeOK, Called
    <3>2. \A k \in Knowledge \ {kid[p]} : state'[k] = state[k]
      BY <1>0, <3>0 DEF TypeInv, LnTypeOK
    <3>3. /\ kid[p] \in Knowledge /\ state[kid[p]] # "NONE"
          /\ read[p] \in Ever => Earned(kid[p])
      BY <1>0, <1>11 DEF SettleReview, TypeInv, Called, Backed
    <3>4. \A k \in Knowledge : state[k] \in Ever => state[k] # "NONE" /\ Earned(k)
      BY <1>0 DEF Backed, Ever
    <3> QED
      BY <3>1, <3>2, <3>3, <3>4
  <2> QED
    BY <1>0, <1>11, <2>1, <2>2, <2>3, BackedWrote DEF SettleReview
<1>12. ASSUME NEW p \in Proc, SettlePromotion(p) PROVE Backed'
  <2>1. /\ \A q \in Proc \ {p} : SameCall(q)
        /\ (op'[p] = "idle" /\ old'[p] = NULL) \/ Superseding(p)
    BY <1>0, <1>12, PromotionGoesOn
  <2>2. \A k \in Knowledge : state[k] # "NONE" => outcomes[k] \subseteq outcomes'[k]
    BY <1>0, <1>12 DEF SettlePromotion, TypeInv, LnTypeOK, Called
  <2>3. \A k \in Knowledge : state'[k] \in Ever => state[k] # "NONE" /\ Earned(k)
    BY <1>0, <1>12 DEF SettlePromotion, TypeInv, LnTypeOK, Called, Backed, Ever
  <2> QED
    BY <1>0, <1>12, <2>1, <2>2, <2>3, BackedWrote DEF SettlePromotion
<1>16. ASSUME NEW p \in Proc, Supersede(p) PROVE Backed'
  <2>1. (\A q \in Proc \ {p} : SameCall(q)) /\ op'[p] = "idle" /\ old'[p] = NULL
    BY <1>0, <1>16, ReturnOthers DEF Supersede
  <2>2. \A k \in Knowledge : state[k] # "NONE" => outcomes[k] \subseteq outcomes'[k]
    BY <1>0, <1>16 DEF Supersede, TypeInv, LnTypeOK, Called
  <2>3. \A k \in Knowledge : state'[k] \in Ever => state[k] # "NONE" /\ Earned(k)
    <3>1. op[p] = "superseding" /\ old[p] # NULL /\ state[old[p]] # "NONE"
      BY <1>0, <1>16 DEF Supersede, TypeInv, Called
    <3> QED
      BY <1>0, <1>16, <3>1 DEF Supersede, TypeInv, LnTypeOK, Backed, Ever
  <2> QED
    BY <1>0, <1>16, <2>1, <2>2, <2>3, BackedWrote DEF Supersede
<1>13. ASSUME NEW p \in Proc, SettleRetirement(p) PROVE Backed'
  <2>1. (\A q \in Proc \ {p} : SameCall(q)) /\ op'[p] = "idle" /\ old'[p] = NULL
    BY <1>0, <1>13, ReturnOthers DEF SettleRetirement
  <2>2. \A k \in Knowledge : state[k] # "NONE" => outcomes[k] \subseteq outcomes'[k]
    BY <1>0, <1>13 DEF SettleRetirement, TypeInv, LnTypeOK, Called
  <2>3. \A k \in Knowledge : state'[k] \in Ever => state[k] # "NONE" /\ Earned(k)
    BY <1>0, <1>13 DEF SettleRetirement, TypeInv, LnTypeOK, Called, Backed, Ever
  <2> QED
    BY <1>0, <1>13, <2>1, <2>2, <2>3, BackedWrote DEF SettleRetirement
<1>14. ASSUME NEW p \in Proc, Abandon(p) PROVE Backed'
  <2>1. (\A q \in Proc \ {p} : SameCall(q)) /\ op'[p] = "idle" /\ old'[p] = NULL
    BY <1>0, <1>14, ReturnOthers DEF Abandon
  <2>2. \A k \in Knowledge : state[k] # "NONE" => outcomes[k] \subseteq outcomes'[k]
    BY <1>0, <1>14 DEF Abandon, TypeInv, LnTypeOK, Called, recordVars
  <2>3. \A k \in Knowledge : state'[k] \in Ever => state[k] # "NONE" /\ Earned(k)
    BY <1>0, <1>14 DEF Abandon, TypeInv, LnTypeOK, Called, Backed, Ever, recordVars
  <2> QED
    BY <1>0, <1>14, <2>1, <2>2, <2>3, BackedWrote DEF Abandon
<1>15. CASE UNCHANGED lnVars
  BY <1>0, <1>15 DEF lnVars, recordVars, callVars, Backed, Earned, Successes
<1> QED
  BY <1>1, <1>2, <1>3, <1>4, <1>5, <1>6, <1>7, <1>8, <1>9, <1>10, <1>11, <1>12, <1>13,
     <1>14, <1>15, <1>16 DEF LnNext
-----------------------------------------------------------------------------
(* Promoted records *)

\* Whoever was about to supersede a record still is, or it is promoted no more, or in
\* doubt.
StillReplaced ==
  \A q \in Proc : op[q] = "superseding" =>
    (op'[q] = "superseding" /\ old'[q] = old[q]) \/ old[q] \notin Promoted' \ suspect'

LEMMA LeadingKept ==
  ASSUME TypeInv, Leading, Promoted' \subseteq Promoted, suspect \subseteq suspect',
         \A k \in Promoted : version'[k] = version[k], StillReplaced
  PROVE  Leading'
<1> SUFFICES ASSUME NEW k \in Promoted', NEW j \in Promoted', k # j, k \notin suspect',
                    ~Replaced(k)'
             PROVE  version'[k] > version'[j]
  BY DEF Leading
<1>1. ~Replaced(k)
  BY DEF Replaced, StillReplaced
<1> QED
  BY <1>1 DEF Leading

\* A step of p that leaves the other calls alone, when p superseded nothing.
LEMMA OthersReplaced ==
  ASSUME NEW p \in Proc, op[p] # "superseding", \A q \in Proc \ {p} : SameCall(q)
  PROVE  StillReplaced
  BY DEF StillReplaced, SameCall

LEMMA LeadingBegin ==
  ASSUME TypeInv, Leading, NEW p \in Proc, NEW o, NEW k, NEW v, NEW n, NEW j, NEW b,
         Begin(p, o, k, v, n, j, b)
  PROVE  Leading'
<1>1. \A q \in Proc \ {p} : SameCall(q)
  BY DEF Begin, TypeInv, LnTypeOK, SameCall
<1>2. StillReplaced
  BY <1>1, OthersReplaced DEF Begin
<1>3. Promoted' = Promoted /\ suspect' = suspect /\ version' = version
  BY DEF Begin, recordVars, Promoted
<1> QED
  BY <1>2, <1>3, LeadingKept

LEMMA LeadingDoubted ==
  ASSUME Promoted' \subseteq suspect' PROVE Leading'
  BY DEF Leading

\* A call that writes a state it read as it is, or marks the record, promotes nothing.
LEMMA LeadingSettle ==
  ASSUME TypeInv, Leading, NEW p \in Proc, op[p] \notin {"idle", "superseding"},
         WroteState(p), Return(p), version' = version, NEW s,
         state' = [state EXCEPT ![kid[p]] = s],
         ~stale[p] => (s = "PROMOTED" => state[kid[p]] = "PROMOTED")
  PROVE  Leading'
<1> USE DEF TypeInv, LnTypeOK, WroteState
<1>1. kid[p] \in Knowledge
  BY DEF Called
<1>2. CASE stale[p]
  <2>1. Promoted' \subseteq suspect'
    BY <1>1, <1>2 DEF Doubt, Promoted
  <2> QED
    BY <2>1, LeadingDoubted
<1>3. CASE ~stale[p]
  <2>1. Promoted' \subseteq Promoted /\ suspect' = suspect
    BY <1>1, <1>3 DEF Promoted
  <2>2. StillReplaced
    BY ReturnOthers, OthersReplaced
  <2> QED
    BY <2>1, <2>2, LeadingKept DEF Promoted
<1> QED
  BY <1>2, <1>3

LEMMA UniqueStep == Inv /\ [LnNext]_lnVars => Unique'
<1> SUFFICES ASSUME Inv, [LnNext]_lnVars PROVE Unique'
  OBVIOUS
<1>0. version' = version => Unique'
  BY DEF Inv, Unique
<1>1. ASSUME NEW p \in Proc, NEW k \in Knowledge, NEW v \in Validation,
             Create(p, k, v) \/ Reproduce(p, k, v) \/ Regress(p, k, v)
      PROVE  Unique'
  BY <1>0, <1>1 DEF Create, Reproduce, Regress, Begin, recordVars
<1>2. ASSUME NEW p \in Proc, NEW k \in Knowledge, NEW b \in BOOLEAN,
             Review(p, k, b) \/ Promote(p, k) \/ Retire(p, k)
      PROVE  Unique'
  BY <1>0, <1>2 DEF Review, Promote, Retire, Begin, recordVars
<1>3. ASSUME NEW p \in Proc, NEW cut \in BOOLEAN, Insert(p, cut) PROVE Unique'
  BY <1>3 DEF Inv, TypeInv, LnTypeOK, Called, Unique, Insert
<1>4. ASSUME NEW p \in Proc, \/ AppendSuccess(p) \/ AppendFailure(p) \/ SettleRetirement(p)
                              \/ SettlePromotion(p) \/ Supersede(p)
      PROVE  Unique'
  BY <1>0, <1>4 DEF AppendSuccess, AppendFailure, SettleRetirement, SettlePromotion, Supersede
<1>5. ASSUME NEW p \in Proc, NEW cut \in BOOLEAN,
             SettleRegression(p, cut) \/ SettleReview(p, cut)
      PROVE  Unique'
  BY <1>0, <1>5 DEF SettleRegression, SettleReview
<1>6. ASSUME NEW p \in Proc, Abandon(p) PROVE Unique'
  BY <1>0, <1>6 DEF Abandon, recordVars
<1>7. CASE UNCHANGED lnVars
  BY <1>0, <1>7 DEF lnVars, recordVars
<1> QED
  BY <1>1, <1>2, <1>3, <1>4, <1>5, <1>6, <1>7 DEF LnNext

LEMMA LeadingStep == Inv /\ [LnNext]_lnVars => Leading'
<1> SUFFICES ASSUME Inv, [LnNext]_lnVars PROVE Leading'
  OBVIOUS
<1>0. TypeInv /\ Fresh /\ Leading
  BY DEF Inv
<1>1. ASSUME NEW p \in Proc, NEW k \in Knowledge, NEW v \in Validation, Create(p, k, v)
      PROVE  Leading'
  BY <1>0, <1>1, LeadingBegin DEF Create
<1>2. ASSUME NEW p \in Proc, NEW k \in Knowledge, NEW v \in Validation, Reproduce(p, k, v)
      PROVE  Leading'
  BY <1>0, <1>2, LeadingBegin DEF Reproduce
<1>3. ASSUME NEW p \in Proc, NEW k \in Knowledge, NEW v \in Validation, Regress(p, k, v)
      PROVE  Leading'
  BY <1>0, <1>3, LeadingBegin DEF Regress
<1>4. ASSUME NEW p \in Proc, NEW k \in Knowledge, NEW b \in BOOLEAN, Review(p, k, b)
      PROVE  Leading'
  BY <1>0, <1>4, LeadingBegin DEF Review
<1>5. ASSUME NEW p \in Proc, NEW k \in Knowledge, Promote(p, k) PROVE Leading'
  BY <1>0, <1>5, LeadingBegin DEF Promote
<1>6. ASSUME NEW p \in Proc, NEW k \in Knowledge, Retire(p, k) PROVE Leading'
  BY <1>0, <1>6, LeadingBegin DEF Retire
<1>7. ASSUME NEW p \in Proc, NEW cut \in BOOLEAN, Insert(p, cut) PROVE Leading'
  <2>1. Promoted' \subseteq Promoted /\ \A k \in Promoted : version'[k] = version[k]
    BY <1>0, <1>7 DEF Insert, TypeInv, LnTypeOK, Called, Promoted
  <2>2. StillReplaced
    BY <1>0, <1>7, ReturnOthers, OthersReplaced DEF Insert
  <2> QED
    BY <1>0, <1>7, <2>1, <2>2, LeadingKept DEF Insert
<1>8. ASSUME NEW p \in Proc, AppendSuccess(p) PROVE Leading'
  <2>1. StillReplaced
    BY <1>0, <1>8, ReturnOthers, OthersReplaced DEF AppendSuccess
  <2> QED
    BY <1>0, <1>8, <2>1, LeadingKept DEF AppendSuccess, Promoted
<1>9. ASSUME NEW p \in Proc, AppendFailure(p) PROVE Leading'
  <2>1. \A q \in Proc \ {p} : SameCall(q)
    BY <1>0, <1>9 DEF AppendFailure, TypeInv, LnTypeOK, SameCall
  <2>2. StillReplaced
    BY <1>9, <2>1, OthersReplaced DEF AppendFailure
  <2> QED
    BY <1>0, <1>9, <2>2, LeadingKept DEF AppendFailure, Promoted
<1>10. ASSUME NEW p \in Proc, NEW cut \in BOOLEAN, SettleRegression(p, cut) PROVE Leading'
  <2>1. PICK s \in States \ {"NONE", "PROMOTED"} : state' = [state EXCEPT ![kid[p]] = s]
    BY <1>0, <1>10, RegressionState
  <2> QED
    BY <1>0, <1>10, <2>1, LeadingSettle DEF SettleRegression
<1>11. ASSUME NEW p \in Proc, NEW cut \in BOOLEAN, SettleReview(p, cut) PROVE Leading'
  <2>1. PICK s : /\ state' = [state EXCEPT ![kid[p]] = s]
                 /\ s = "PROMOTED" => read[p] = "PROMOTED"
    BY <1>0, <1>11, ReviewState
  <2>2. ~stale[p] => read[p] = state[kid[p]]
    BY <1>0, <1>11 DEF SettleReview, Fresh, FreshAt
  <2> QED
    BY <1>0, <1>11, <2>1, <2>2, LeadingSettle DEF SettleReview
<1>12. ASSUME NEW p \in Proc, SettlePromotion(p) PROVE Leading'
  <2> DEFINE k == kid[p]
  <2>0. k \in Knowledge /\ op[p] = "promote" /\ version' = version
    BY <1>0, <1>12 DEF SettlePromotion, TypeInv, Called
  <2>1. CASE stale[p]
    <3>1. Promoted' \subseteq suspect'
      BY <1>12, <2>0, <2>1 DEF SettlePromotion, WroteState, Doubt, Promoted
    <3> QED
      BY <3>1, LeadingDoubted
  <2>2. CASE ~stale[p]
    <3>1. suspect' = suspect
      BY <1>12, <2>2 DEF SettlePromotion, WroteState
    <3>2. Promoted' = Promoted \cup {k}
      BY <1>0, <1>12, <2>0 DEF SettlePromotion, Promoted, TypeInv, LnTypeOK
    <3>3. Prior(k, old[p]) /\ (old[p] # NULL => version[k] > version[old[p]])
      BY <1>0, <2>0, <2>2 DEF Fresh, FreshAt
    <3>4. CASE Promoted \subseteq {k}
      BY <2>0, <3>1, <3>2, <3>4 DEF Leading
    <3>5. CASE old[p] \in Promoted \ {k}
      <4>0. /\ old[p] # NULL /\ old[p] \in Knowledge
            /\ \A i \in Knowledge : version[i] \in Nat
        BY <1>0, <3>5 DEF Promoted, TypeInv, LnTypeOK
      <4>1. \A i \in Promoted \ {k} : version[i] <= version[old[p]]
        BY <1>0, <3>3, <3>5 DEF Prior, Promoted
      <4>2. Superseding(p) /\ \A q \in Proc \ {p} : SameCall(q)
        <5>1. op'[p] # "idle"
          BY <1>0, <1>12, <4>0 DEF SettlePromotion, TypeInv, LnTypeOK
        <5> QED
          BY <1>0, <1>12, <5>1, PromotionGoesOn
      <4>3. \A i \in Knowledge : i = old[p] \/ Replaced(i) => Replaced(i)'
        BY <2>0, <4>2 DEF Replaced, Superseding, SameCall
      <4>4. ASSUME NEW i \in Promoted \ {k}, i # old[p] PROVE i \in suspect \/ Replaced(i)
        <5>1. i \in suspect \/ Replaced(i) \/ version[i] > version[old[p]]
          BY <1>0, <3>5, <4>4 DEF Leading
        <5>2. version[i] <= version[old[p]] /\ i \in Knowledge
          BY <4>1, <4>4 DEF Promoted
        <5> QED
          BY <4>0, <5>1, <5>2
      <4>5. ASSUME NEW j \in Promoted \ {k} PROVE version[k] > version[j]
        <5>1. version[j] <= version[old[p]] /\ version[k] > version[old[p]] /\ j \in Knowledge
          BY <3>3, <4>0, <4>1, <4>5 DEF Promoted
        <5> QED
          BY <2>0, <4>0, <5>1
      <4> SUFFICES ASSUME NEW i \in Promoted', NEW j \in Promoted', i # j,
                          i \notin suspect', ~Replaced(i)'
                   PROVE  version'[i] > version'[j]
        BY DEF Leading
      <4>6. i = k
        <5>1. i \in Promoted \cup {k} /\ i \in Knowledge
          BY <2>0, <3>2 DEF Promoted
        <5> QED
          BY <3>1, <4>3, <4>4, <5>1, Zenon
      <4> QED
        BY <2>0, <3>2, <4>5, <4>6
    <3> QED
      BY <3>3, <3>4, <3>5 DEF Prior
  <2> QED
    BY <2>1, <2>2
<1>16. ASSUME NEW p \in Proc, Supersede(p) PROVE Leading'
  <2>0. op[p] = "superseding" /\ old[p] \in Knowledge /\ version' = version
    BY <1>0, <1>16, PriorType DEF Supersede
  <2>1. Promoted' = Promoted \ {old[p]}
    BY <1>0, <1>16, <2>0 DEF Supersede, Promoted, TypeInv, LnTypeOK
  <2>2. suspect \subseteq suspect'
    BY <1>16 DEF Supersede, DoubtPrior
  <2>3. StillReplaced
    BY <1>0, <1>16, <2>1, ReturnOthers DEF Supersede, StillReplaced, SameCall
  <2> QED
    BY <1>0, <2>0, <2>1, <2>2, <2>3, LeadingKept
<1>13. ASSUME NEW p \in Proc, SettleRetirement(p) PROVE Leading'
  BY <1>0, <1>13, LeadingSettle DEF SettleRetirement
<1>14. ASSUME NEW p \in Proc, Abandon(p) PROVE Leading'
  <2>1. /\ suspect \subseteq suspect'
        /\ op[p] = "superseding" => old[p] \in suspect'
    BY <1>14 DEF Abandon, Doubt, DoubtPrior
  <2>2. StillReplaced
    BY <1>0, <1>14, <2>1, ReturnOthers DEF Abandon, StillReplaced, SameCall
  <2> QED
    BY <1>0, <1>14, <2>1, <2>2, LeadingKept DEF Abandon, recordVars, Promoted
<1>15. CASE UNCHANGED lnVars
  BY <1>0, <1>15 DEF lnVars, recordVars, callVars, Leading, Promoted, Replaced
<1> QED
  BY <1>1, <1>2, <1>3, <1>4, <1>5, <1>6, <1>7, <1>8, <1>9, <1>10, <1>11, <1>12, <1>13,
     <1>14, <1>15, <1>16 DEF LnNext
-----------------------------------------------------------------------------
(* Regressions and retirement *)

\* What a step leaves of a record that it does not touch.
LEMMA ActsElsewhere ==
  ASSUME RegressionActs, suspect \subseteq suspect', NEW k \in Knowledge, k \notin suspect',
         state'[k] = state[k], Failures(k)' = Failures(k),
         \A p \in Proc : op'[p] = "regressed" => kid'[p] # k,
         \A p \in Proc : op[p] = "regressed" /\ kid[p] = k => op'[p] = "regressed" /\ kid'[p] = k
  PROVE  /\ Failures(k)' # {} => state'[k] # "PROMOTED"
         /\ Twice(Failures(k))' => state'[k] = "RETIRED"
  BY DEF RegressionActs, Twice

\* No call goes on to "regressed" but by AppendFailure, or from it but by its end.
LEMMA RegressedReturn ==
  ASSUME TypeInv, NEW p \in Proc, Return(p), op[p] # "regressed"
  PROVE  \A q \in Proc, k \in Knowledge :
           (op[q] = "regressed" /\ kid[q] = k) <=> (op'[q] = "regressed" /\ kid'[q] = k)
  BY DEF Return, TypeInv, LnTypeOK

LEMMA ActsBegin ==
  ASSUME TypeInv, RegressionActs, NEW p \in Proc, NEW o, NEW k, NEW v, NEW n, NEW j, NEW b,
         Begin(p, o, k, v, n, j, b), o # "regressed"
  PROVE  RegressionActs'
<1>1. \A q \in Proc, i \in Knowledge :
        (op[q] = "regressed" /\ kid[q] = i) <=> (op'[q] = "regressed" /\ kid'[q] = i)
  BY DEF Begin, TypeInv, LnTypeOK
<1> QED
  BY <1>1 DEF Begin, recordVars, RegressionActs, Failures, Twice

LEMMA ActsStep == Inv /\ [LnNext]_lnVars => RegressionActs'
<1> SUFFICES ASSUME Inv, [LnNext]_lnVars PROVE RegressionActs'
  OBVIOUS
<1>0. TypeInv /\ Fresh /\ RegressionActs
  BY DEF Inv
<1>1. ASSUME NEW p \in Proc, NEW k \in Knowledge, NEW v \in Validation, Create(p, k, v)
      PROVE  RegressionActs'
  BY <1>0, <1>1, ActsBegin DEF Create
<1>2. ASSUME NEW p \in Proc, NEW k \in Knowledge, NEW v \in Validation, Reproduce(p, k, v)
      PROVE  RegressionActs'
  BY <1>0, <1>2, ActsBegin DEF Reproduce
<1>3. ASSUME NEW p \in Proc, NEW k \in Knowledge, NEW v \in Validation, Regress(p, k, v)
      PROVE  RegressionActs'
  BY <1>0, <1>3, ActsBegin DEF Regress
<1>4. ASSUME NEW p \in Proc, NEW k \in Knowledge, NEW b \in BOOLEAN, Review(p, k, b)
      PROVE  RegressionActs'
  BY <1>0, <1>4, ActsBegin DEF Review
<1>5. ASSUME NEW p \in Proc, NEW k \in Knowledge, Promote(p, k) PROVE RegressionActs'
  BY <1>0, <1>5, ActsBegin DEF Promote
<1>6. ASSUME NEW p \in Proc, NEW k \in Knowledge, Retire(p, k) PROVE RegressionActs'
  BY <1>0, <1>6, ActsBegin DEF Retire
<1>7. ASSUME NEW p \in Proc, NEW cut \in BOOLEAN, Insert(p, cut) PROVE RegressionActs'
  <2> SUFFICES ASSUME NEW k \in Knowledge \ suspect',
                      \A q \in Proc : op'[q] = "regressed" => kid'[q] # k
               PROVE  /\ Failures(k)' # {} => state'[k] # "PROMOTED"
                      /\ Twice(Failures(k))' => state'[k] = "RETIRED"
    BY DEF RegressionActs
  <2>0. kid[p] \in Knowledge /\ suspect \subseteq suspect'
    BY <1>0, <1>7 DEF Insert, TypeInv, Called
  <2>1. \A q \in Proc, i \in Knowledge :
          (op[q] = "regressed" /\ kid[q] = i) <=> (op'[q] = "regressed" /\ kid'[q] = i)
    BY <1>0, <1>7, RegressedReturn DEF Insert
  <2>2. CASE k = kid[p]
    BY <1>0, <1>7, <2>0, <2>2
    DEF Insert, TypeInv, LnTypeOK, Called, Failures, Twice
  <2>3. CASE k # kid[p]
    <3>1. state'[k] = state[k] /\ Failures(k)' = Failures(k)
      BY <1>0, <1>7, <2>0, <2>3 DEF Insert, TypeInv, LnTypeOK, Failures
    <3> QED
      BY <1>0, <2>0, <2>1, <3>1, ActsElsewhere
  <2> QED
    BY <2>2, <2>3
<1>8. ASSUME NEW p \in Proc, AppendSuccess(p) PROVE RegressionActs'
  <2> SUFFICES ASSUME NEW k \in Knowledge \ suspect',
                      \A q \in Proc : op'[q] = "regressed" => kid'[q] # k
               PROVE  /\ Failures(k)' # {} => state'[k] # "PROMOTED"
                      /\ Twice(Failures(k))' => state'[k] = "RETIRED"
    BY DEF RegressionActs
  <2>0. kid[p] \in Knowledge /\ suspect \subseteq suspect'
    BY <1>0, <1>8 DEF AppendSuccess, TypeInv, Called
  <2>1. \A q \in Proc, i \in Knowledge :
          (op[q] = "regressed" /\ kid[q] = i) <=> (op'[q] = "regressed" /\ kid'[q] = i)
    BY <1>0, <1>8, RegressedReturn DEF AppendSuccess
  <2>2. state'[k] = state[k] /\ Failures(k)' = Failures(k)
    BY <1>0, <1>8, <2>0 DEF AppendSuccess, TypeInv, LnTypeOK, Called, Failures
  <2> QED
    BY <1>0, <2>0, <2>1, <2>2, ActsElsewhere
<1>9. ASSUME NEW p \in Proc, AppendFailure(p) PROVE RegressionActs'
  <2> SUFFICES ASSUME NEW k \in Knowledge \ suspect',
                      \A q \in Proc : op'[q] = "regressed" => kid'[q] # k
               PROVE  /\ Failures(k)' # {} => state'[k] # "PROMOTED"
                      /\ Twice(Failures(k))' => state'[k] = "RETIRED"
    BY DEF RegressionActs
  <2>0. kid[p] \in Knowledge /\ suspect \subseteq suspect'
    BY <1>0, <1>9 DEF AppendFailure, TypeInv, Called
  <2>1. k # kid[p]
    BY <1>0, <1>9 DEF AppendFailure, TypeInv, LnTypeOK
  <2>2. state'[k] = state[k] /\ Failures(k)' = Failures(k)
    BY <1>0, <1>9, <2>0, <2>1 DEF AppendFailure, TypeInv, LnTypeOK, Failures
  <2>3. \A q \in Proc : op[q] = "regressed" /\ kid[q] = k => op'[q] = "regressed" /\ kid'[q] = k
    BY <1>0, <1>9 DEF AppendFailure, TypeInv, LnTypeOK
  <2> QED
    BY <1>0, <2>0, <2>2, <2>3, ActsElsewhere
<1>10. ASSUME NEW p \in Proc, NEW cut \in BOOLEAN, SettleRegression(p, cut)
      PROVE  RegressionActs'
  <2> SUFFICES ASSUME NEW k \in Knowledge \ suspect',
                      \A q \in Proc : op'[q] = "regressed" => kid'[q] # k
               PROVE  /\ Failures(k)' # {} => state'[k] # "PROMOTED"
                      /\ Twice(Failures(k))' => state'[k] = "RETIRED"
    BY DEF RegressionActs
  <2>0. kid[p] \in Knowledge /\ suspect \subseteq suspect'
    BY <1>0, <1>10 DEF SettleRegression, TypeInv, Called, WroteState, Doubt
  <2>1. /\ outcomes' = outcomes /\ Failures(k)' = Failures(k)
        /\ Twice(Failures(k))' <=> Twice(Failures(k))
    BY <1>10 DEF SettleRegression, Failures, Twice
  <2>2. CASE k = kid[p]
    <3>1. ~stale[p]
      BY <1>10, <2>0, <2>2 DEF SettleRegression, WroteState, Doubt
    <3>2. fails[p] = Failures(kid[p])
      BY <1>0, <1>10, <3>1 DEF SettleRegression, Fresh, FreshAt
    <3>3. PICK s \in States \ {"NONE", "PROMOTED"} :
            /\ state' = [state EXCEPT ![kid[p]] = s]
            /\ fails[p] = Failures(kid[p]) /\ Twice(Failures(kid[p])) => s = "RETIRED"
      BY <1>0, <1>10, RegressionState
    <3>4. state'[k] = s
      BY <1>0, <2>0, <2>2, <3>3 DEF TypeInv, LnTypeOK
    <3> QED
      BY <2>1, <2>2, <3>2, <3>3, <3>4
  <2>3. CASE k # kid[p]
    <3>1. state'[k] = state[k]
      BY <1>0, <1>10, <2>3, RegressionState DEF TypeInv, LnTypeOK
    <3>2. \A q \in Proc : op[q] = "regressed" /\ kid[q] = k => op'[q] = "regressed" /\ kid'[q] = k
      BY <1>0, <1>10, <2>3 DEF SettleRegression, Return, TypeInv, LnTypeOK
    <3> QED
      BY <1>0, <2>0, <2>1, <3>1, <3>2, ActsElsewhere
  <2> QED
    BY <2>2, <2>3
<1>11. ASSUME NEW p \in Proc, NEW cut \in BOOLEAN, SettleReview(p, cut) PROVE RegressionActs'
  <2> SUFFICES ASSUME NEW k \in Knowledge \ suspect',
                      \A q \in Proc : op'[q] = "regressed" => kid'[q] # k
               PROVE  /\ Failures(k)' # {} => state'[k] # "PROMOTED"
                      /\ Twice(Failures(k))' => state'[k] = "RETIRED"
    BY DEF RegressionActs
  <2>0. kid[p] \in Knowledge /\ suspect \subseteq suspect'
    BY <1>0, <1>11 DEF SettleReview, TypeInv, Called, WroteState, Doubt
  <2>1. /\ outcomes' = outcomes /\ Failures(k)' = Failures(k)
        /\ Twice(Failures(k))' <=> Twice(Failures(k))
    BY <1>11 DEF SettleReview, Failures, Twice
  <2>2. \A q \in Proc, i \in Knowledge :
          (op[q] = "regressed" /\ kid[q] = i) <=> (op'[q] = "regressed" /\ kid'[q] = i)
    BY <1>0, <1>11, RegressedReturn DEF SettleReview
  <2>3. CASE k = kid[p]
    <3>1. ~stale[p]
      BY <1>11, <2>0, <2>3 DEF SettleReview, WroteState, Doubt
    <3>2. read[p] = state[k]
      BY <1>0, <1>11, <2>3, <3>1 DEF SettleReview, Fresh, FreshAt
    <3>3. PICK s : /\ state' = [state EXCEPT ![kid[p]] = s]
                   /\ s = "PROMOTED" => read[p] = "PROMOTED"
                   /\ read[p] = "RETIRED" => s = "RETIRED"
      BY <1>0, <1>11, ReviewState
    <3>4. state'[k] = s
      BY <1>0, <2>0, <2>3, <3>3 DEF TypeInv, LnTypeOK
    <3>5. /\ Failures(k) # {} => state[k] # "PROMOTED"
          /\ Twice(Failures(k)) => state[k] = "RETIRED"
      BY <1>0, <2>0, <2>2 DEF RegressionActs
    <3> QED
      BY <2>1, <3>2, <3>3, <3>4, <3>5
  <2>4. CASE k # kid[p]
    <3>1. state'[k] = state[k]
      BY <1>0, <1>11, <2>4, ReviewState DEF TypeInv, LnTypeOK
    <3> QED
      BY <1>0, <2>0, <2>1, <2>2, <3>1, ActsElsewhere
  <2> QED
    BY <2>3, <2>4
<1>12. ASSUME NEW p \in Proc, SettlePromotion(p) PROVE RegressionActs'
  <2> SUFFICES ASSUME NEW k \in Knowledge \ suspect',
                      \A q \in Proc : op'[q] = "regressed" => kid'[q] # k
               PROVE  /\ Failures(k)' # {} => state'[k] # "PROMOTED"
                      /\ Twice(Failures(k))' => state'[k] = "RETIRED"
    BY DEF RegressionActs
  <2>0. kid[p] \in Knowledge /\ suspect \subseteq suspect'
    BY <1>0, <1>12 DEF SettlePromotion, TypeInv, Called, WroteState, Doubt
  <2>1. /\ outcomes' = outcomes /\ Failures(k)' = Failures(k)
        /\ Twice(Failures(k))' <=> Twice(Failures(k))
    BY <1>12 DEF SettlePromotion, Failures, Twice
  <2>2. \A q \in Proc : op[q] = "regressed" /\ kid[q] = k => op'[q] = "regressed" /\ kid'[q] = k
    BY <1>0, <1>12, PromotionGoesOn DEF SettlePromotion, SameCall
  <2>3. CASE k = kid[p]
    <3>1. ~stale[p]
      BY <1>12, <2>0, <2>3 DEF SettlePromotion, WroteState, Doubt
    <3>2. Failures(k) = {}
      BY <1>0, <1>12, <2>3, <3>1 DEF SettlePromotion, Fresh, FreshAt
    <3> QED
      BY <2>1, <3>2 DEF Twice
  <2>4. CASE k # kid[p]
    <3>1. state'[k] = state[k]
      BY <1>0, <1>12, <2>4 DEF SettlePromotion, TypeInv, LnTypeOK
    <3> QED
      BY <1>0, <2>0, <2>1, <2>2, <3>1, ActsElsewhere
  <2> QED
    BY <2>3, <2>4
<1>16. ASSUME NEW p \in Proc, Supersede(p) PROVE RegressionActs'
  <2> SUFFICES ASSUME NEW k \in Knowledge \ suspect',
                      \A q \in Proc : op'[q] = "regressed" => kid'[q] # k
               PROVE  /\ Failures(k)' # {} => state'[k] # "PROMOTED"
                      /\ Twice(Failures(k))' => state'[k] = "RETIRED"
    BY DEF RegressionActs
  <2>0. old[p] \in Knowledge /\ op[p] = "superseding" /\ suspect \subseteq suspect'
    BY <1>0, <1>16, PriorType DEF Supersede, DoubtPrior
  <2>1. /\ outcomes' = outcomes /\ Failures(k)' = Failures(k)
        /\ Twice(Failures(k))' <=> Twice(Failures(k))
    BY <1>16 DEF Supersede, Failures, Twice
  <2>2. \A q \in Proc, i \in Knowledge :
          (op[q] = "regressed" /\ kid[q] = i) <=> (op'[q] = "regressed" /\ kid'[q] = i)
    BY <1>0, <1>16, RegressedReturn DEF Supersede
  <2>3. CASE k = old[p]
    <3>1. state'[k] = "SUPERSEDED"
      BY <1>0, <1>16, <2>3 DEF Supersede, TypeInv, LnTypeOK
    <3>2. ~stale[p]
      BY <1>16, <2>3 DEF Supersede, DoubtPrior
    <3>3. state[k] = "PROMOTED"
      BY <1>0, <2>0, <2>3, <3>2 DEF Fresh, FreshAt
    <3>4. Twice(Failures(k)) => state[k] = "RETIRED"
      BY <1>0, <2>0, <2>2 DEF RegressionActs
    <3> QED
      BY <2>1, <3>1, <3>3, <3>4
  <2>4. CASE k # old[p]
    <3>1. state'[k] = state[k]
      BY <1>0, <1>16, <2>4 DEF Supersede, TypeInv, LnTypeOK
    <3> QED
      BY <1>0, <2>0, <2>1, <2>2, <3>1, ActsElsewhere
  <2> QED
    BY <2>3, <2>4
<1>13. ASSUME NEW p \in Proc, SettleRetirement(p) PROVE RegressionActs'
  <2> SUFFICES ASSUME NEW k \in Knowledge \ suspect',
                      \A q \in Proc : op'[q] = "regressed" => kid'[q] # k
               PROVE  /\ Failures(k)' # {} => state'[k] # "PROMOTED"
                      /\ Twice(Failures(k))' => state'[k] = "RETIRED"
    BY DEF RegressionActs
  <2>0. kid[p] \in Knowledge /\ suspect \subseteq suspect'
    BY <1>0, <1>13 DEF SettleRetirement, TypeInv, Called, WroteState, Doubt
  <2>1. /\ outcomes' = outcomes /\ Failures(k)' = Failures(k)
        /\ Twice(Failures(k))' <=> Twice(Failures(k))
    BY <1>13 DEF SettleRetirement, Failures, Twice
  <2>2. \A q \in Proc, i \in Knowledge :
          (op[q] = "regressed" /\ kid[q] = i) <=> (op'[q] = "regressed" /\ kid'[q] = i)
    BY <1>0, <1>13, RegressedReturn DEF SettleRetirement
  <2>3. state'[k] = "RETIRED" \/ state'[k] = state[k]
    BY <1>0, <1>13 DEF SettleRetirement, TypeInv, LnTypeOK
  <2> QED
    BY <1>0, <2>0, <2>1, <2>2, <2>3, ActsElsewhere
<1>14. ASSUME NEW p \in Proc, Abandon(p) PROVE RegressionActs'
  <2> SUFFICES ASSUME NEW k \in Knowledge \ suspect',
                      \A q \in Proc : op'[q] = "regressed" => kid'[q] # k
               PROVE  /\ Failures(k)' # {} => state'[k] # "PROMOTED"
                      /\ Twice(Failures(k))' => state'[k] = "RETIRED"
    BY DEF RegressionActs
  <2>0. kid[p] \in Knowledge /\ suspect \subseteq suspect'
    BY <1>0, <1>14 DEF Abandon, TypeInv, Called, Doubt, DoubtPrior
  <2>1. state' = state /\ Failures(k)' = Failures(k)
    BY <1>14 DEF Abandon, recordVars, Failures
  <2>2. \A q \in Proc : op[q] = "regressed" /\ kid[q] = k => op'[q] = "regressed" /\ kid'[q] = k
    BY <1>0, <1>14, <2>0 DEF Abandon, Return, Doubt, TypeInv, LnTypeOK
  <2> QED
    BY <1>0, <2>0, <2>1, <2>2, ActsElsewhere
<1>15. CASE UNCHANGED lnVars
  BY <1>0, <1>15 DEF lnVars, recordVars, callVars, RegressionActs, Failures, Twice
<1> QED
  BY <1>1, <1>2, <1>3, <1>4, <1>5, <1>6, <1>7, <1>8, <1>9, <1>10, <1>11, <1>12, <1>13,
     <1>14, <1>15, <1>16 DEF LnNext

LEMMA RetiredStep ==
  Inv /\ [LnNext]_lnVars =>
    \A k \in Knowledge : state[k] = "RETIRED" => state'[k] = "RETIRED" \/ k \in suspect'
<1> SUFFICES ASSUME Inv, [LnNext]_lnVars, NEW i \in Knowledge, state[i] = "RETIRED",
                    i \notin suspect'
             PROVE  state'[i] = "RETIRED"
  OBVIOUS
<1>0. TypeInv /\ Fresh
  BY DEF Inv
<1>1. ASSUME NEW p \in Proc, NEW k \in Knowledge, NEW v \in Validation, Create(p, k, v)
      PROVE  state'[i] = "RETIRED"
  BY <1>1 DEF Create, Begin, recordVars
<1>2. ASSUME NEW p \in Proc, NEW k \in Knowledge, NEW v \in Validation, Reproduce(p, k, v)
      PROVE  state'[i] = "RETIRED"
  BY <1>2 DEF Reproduce, Begin, recordVars
<1>3. ASSUME NEW p \in Proc, NEW k \in Knowledge, NEW v \in Validation, Regress(p, k, v)
      PROVE  state'[i] = "RETIRED"
  BY <1>3 DEF Regress, Begin, recordVars
<1>4. ASSUME NEW p \in Proc, NEW k \in Knowledge, NEW b \in BOOLEAN, Review(p, k, b)
      PROVE  state'[i] = "RETIRED"
  BY <1>4 DEF Review, Begin, recordVars
<1>5. ASSUME NEW p \in Proc, NEW k \in Knowledge, Promote(p, k) PROVE state'[i] = "RETIRED"
  BY <1>5 DEF Promote, Begin, recordVars
<1>6. ASSUME NEW p \in Proc, NEW k \in Knowledge, Retire(p, k) PROVE state'[i] = "RETIRED"
  BY <1>6 DEF Retire, Begin, recordVars
<1>7. ASSUME NEW p \in Proc, NEW cut \in BOOLEAN, Insert(p, cut) PROVE state'[i] = "RETIRED"
  BY <1>0, <1>7 DEF Insert, TypeInv, LnTypeOK, Called
<1>8. ASSUME NEW p \in Proc, AppendSuccess(p) PROVE state'[i] = "RETIRED"
  BY <1>8 DEF AppendSuccess
<1>9. ASSUME NEW p \in Proc, AppendFailure(p) PROVE state'[i] = "RETIRED"
  BY <1>9 DEF AppendFailure
<1>10. ASSUME NEW p \in Proc, NEW cut \in BOOLEAN, SettleRegression(p, cut)
      PROVE  state'[i] = "RETIRED"
  <2>1. CASE i = kid[p]
    <3>1. ~stale[p]
      BY <1>10, <2>1 DEF SettleRegression, WroteState, Doubt
    <3>2. read[p] = state[i]
      BY <1>0, <1>10, <2>1, <3>1 DEF SettleRegression, Fresh, FreshAt
    <3>3. PICK s : /\ state' = [state EXCEPT ![kid[p]] = s]
                   /\ read[p] = "RETIRED" => s = "RETIRED"
      BY <1>0, <1>10, RegressionState
    <3> QED
      BY <1>0, <2>1, <3>2, <3>3 DEF TypeInv, LnTypeOK
  <2>2. CASE i # kid[p]
    BY <1>0, <1>10, <2>2, RegressionState DEF TypeInv, LnTypeOK
  <2> QED
    BY <2>1, <2>2
<1>11. ASSUME NEW p \in Proc, NEW cut \in BOOLEAN, SettleReview(p, cut)
      PROVE  state'[i] = "RETIRED"
  <2>1. CASE i = kid[p]
    <3>1. ~stale[p]
      BY <1>11, <2>1 DEF SettleReview, WroteState, Doubt
    <3>2. read[p] = state[i]
      BY <1>0, <1>11, <2>1, <3>1 DEF SettleReview, Fresh, FreshAt
    <3>3. PICK s : /\ state' = [state EXCEPT ![kid[p]] = s]
                   /\ read[p] = "RETIRED" => s = "RETIRED"
      BY <1>0, <1>11, ReviewState
    <3> QED
      BY <1>0, <2>1, <3>2, <3>3 DEF TypeInv, LnTypeOK
  <2>2. CASE i # kid[p]
    BY <1>0, <1>11, <2>2, ReviewState DEF TypeInv, LnTypeOK
  <2> QED
    BY <2>1, <2>2
<1>12. ASSUME NEW p \in Proc, SettlePromotion(p) PROVE state'[i] = "RETIRED"
  <2>1. i # kid[p]
    <3>1. CASE ~stale[p]
      BY <1>0, <1>12, <3>1 DEF SettlePromotion, Fresh, FreshAt
    <3>2. CASE stale[p]
      BY <1>12, <3>2 DEF SettlePromotion, WroteState, Doubt
    <3> QED
      BY <3>1, <3>2
  <2> QED
    BY <1>0, <1>12, <2>1 DEF SettlePromotion, TypeInv, LnTypeOK
<1>16. ASSUME NEW p \in Proc, Supersede(p) PROVE state'[i] = "RETIRED"
  <2>1. i # old[p]
    <3>1. CASE ~stale[p]
      BY <1>0, <1>16, <3>1 DEF Supersede, Fresh, FreshAt
    <3>2. CASE stale[p]
      BY <1>16, <3>2 DEF Supersede, DoubtPrior
    <3> QED
      BY <3>1, <3>2
  <2> QED
    BY <1>0, <1>16, <2>1 DEF Supersede, TypeInv, LnTypeOK
<1>13. ASSUME NEW p \in Proc, SettleRetirement(p) PROVE state'[i] = "RETIRED"
  BY <1>0, <1>13 DEF SettleRetirement, TypeInv, LnTypeOK
<1>14. ASSUME NEW p \in Proc, Abandon(p) PROVE state'[i] = "RETIRED"
  BY <1>14 DEF Abandon, recordVars
<1>15. CASE UNCHANGED lnVars
  BY <1>15 DEF lnVars, recordVars
<1> QED
  BY <1>1, <1>2, <1>3, <1>4, <1>5, <1>6, <1>7, <1>8, <1>9, <1>10, <1>11, <1>12, <1>13,
     <1>14, <1>15, <1>16 DEF LnNext
-----------------------------------------------------------------------------
(* Theorems *)

\* The invariant that the properties rest on holds of every run of the learning engine.
THEOREM InvHolds == LnSpec => []Inv
<1>1. Inv /\ [LnNext]_lnVars => Inv'
  BY LnTypeStep, FreshStep, BackedStep, UniqueStep, LeadingStep, ActsStep DEF Inv
<1> QED
  BY <1>1, LnInitInv, PTL DEF LnSpec

\* The knowledge tables and the calls have their types throughout.
THEOREM LnTypeCorrect == LnSpec => []LnTypeOK
<1>1. Inv => LnTypeOK
  BY DEF Inv, TypeInv
<1> QED
  BY <1>1, InvHolds, PTL

\* What promote promoted had its successes, on two systems for GLOBAL, and versions are
\* unique, whatever calls overlap or die.
THEOREM PromotedEarnedHolds == LnSpec => []PromotedEarned
<1>1. Inv => PromotedEarned
  BY DEF Inv, Backed, Unique, PromotedEarned, Ever, Earned
<1> QED
  BY <1>1, InvHolds, PTL

\* Two records are promoted together only inside a promote that is about to supersede one
\* of them, unless a call was overtaken or a promote died half way.
THEOREM OnePromotedHolds == LnSpec => []OnePromoted
<1>1. Inv => OnePromoted
  <2> SUFFICES ASSUME Inv, NEW k \in Promoted, NEW j \in Promoted, k # j,
                      k \notin suspect, j \notin suspect, ~Replaced(k), ~Replaced(j)
               PROVE  FALSE
    BY DEF OnePromoted, Replaced
  <2>1. version[k] > version[j] /\ version[j] > version[k]
    BY DEF Inv, Leading
  <2>2. version[k] \in Nat /\ version[j] \in Nat
    BY DEF Inv, TypeInv, LnTypeOK, Promoted
  <2> QED
    BY <2>1, <2>2
<1> QED
  BY <1>1, InvHolds, PTL

\* A regression that record_regression_from_validation saw through takes effect.
THEOREM RegressionActsHolds == LnSpec => []RegressionActs
<1>1. Inv => RegressionActs
  BY DEF Inv
<1> QED
  BY <1>1, InvHolds, PTL

\* No call but one overtaken takes a record out of RETIRED.
THEOREM RetiredForGoodHolds == LnSpec => RetiredForGood
<1>1. Inv /\ [LnNext]_lnVars =>
        [\A k \in Knowledge :
           state[k] = "RETIRED" => state'[k] = "RETIRED" \/ k \in suspect']_lnVars
  BY RetiredStep
<1> QED
  BY <1>1, InvHolds, PTL DEF LnSpec, RetiredForGood
=============================================================================
