----------------------------- MODULE Diagnosis -----------------------------
(***************************************************************************)
(* IncidentEngine (immune_core/diagnosis.py): one incident, the hypotheses *)
(* about its cause, the evidence linked to them and the tests tried.       *)
(*                                                                         *)
(* The calls come from one controller process and no one else reads these  *)
(* tables, so a call is one step, but for the calls whose process may die  *)
(* between two statements: "cut" says that it does.  Evidence is taken as  *)
(* verified, and what the incident's signals say is left out.              *)
(***************************************************************************)
EXTENDS Integers, FiniteSetsExt

CONSTANTS
  Hypothesis,
  Evidence,      \* evidence ids
  Weights,       \* bound: Weights[p]: the weights a link of polarity p may have
  NoHypothesis   \* no root cause

Polarity == {"support", "refute"}
ACTIVE_INCIDENT_STATES ==
  {"OPEN", "INVESTIGATING", "ROOT_CAUSE_CONFIRMED", "REMEDIATING", "VALIDATING", "BLOCKED"}

VARIABLES
  incident,  \* state of the incident's row, NONE without one
  root,      \* root_hypothesis_id
  hyp,       \* hyp[h]: state of h's row, NONE without one
  weight,    \* weight[h][p][e]: weight of e's link to h with polarity p, 0 without one
  tests,     \* tests[h]: outcomes of the tests of h, as confirm_root_cause sorts them
  findings,  \* number of hypotheses, links and tests so far
  revised,   \* history: hypotheses made, linked or tested since the root was confirmed
  torn       \* history: the ones whose mark a cut confirmation, or a cut link, left behind

diagVars == <<incident, root, hyp, weight, tests, findings, revised, torn>>
evidenceVars == <<hyp, weight, tests, findings, revised, torn>>

DiagInit ==
  /\ incident = "NONE"
  /\ root = NoHypothesis
  /\ hyp = [h \in Hypothesis |-> "NONE"]
  /\ weight = [h \in Hypothesis |-> [p \in Polarity |-> [e \in Evidence |-> 0]]]
  /\ tests = [h \in Hypothesis |-> {}]
  /\ findings = 0
  /\ revised = {}
  /\ torn = {}

\* _evidence_weights
Weight(h, p) == SumFunction(weight[h][p])
-----------------------------------------------------------------------------
\* create_or_attach_from_signal: the row is inserted OPEN, and made INVESTIGATING
\* once the signal is attached.
AttachSignal(cut) ==
  /\ incident \in {"NONE", "OPEN"}
  /\ incident' = IF cut THEN "OPEN" ELSE "INVESTIGATING"
  /\ UNCHANGED <<root, evidenceVars>>

AddHypothesis(h) ==
  /\ incident \notin {"NONE", "RESOLVED"}
  /\ hyp[h] = "NONE"
  /\ hyp' = [hyp EXCEPT ![h] = "ACTIVE"]
  /\ findings' = findings + 1
  /\ revised' = revised \cup {h}
  /\ UNCHANGED <<incident, root, weight, tests, torn>>

\* Mutant of Standing: a state of its own for evidence both ways.
StandingContested(support, refute) ==
  IF support > refute THEN "SUPPORTED" ELSE IF support = 0 THEN "REFUTED" ELSE "CONTESTED"

\* The state the weights give, whatever the state was.
Standing(support, refute) ==
  IF support > refute THEN "SUPPORTED" ELSE IF refute > support THEN "REFUTED" ELSE "ACTIVE"

\* What h's links say of it by now, whatever its row says.
Balance(h) == Standing(Weight(h, "support"), Weight(h, "refute"))

\* link_evidence: INSERT OR REPLACE, then the UPDATE of the state, computed anew.
LinkEvidence(h, e, p, w, cut) ==
  /\ hyp[h] # "NONE"
  /\ weight' = [weight EXCEPT ![h][p][e] = w]
  /\ \/ /\ ~cut
        /\ hyp' = [hyp EXCEPT ![h] = Balance(h)']
        /\ torn' = torn \ {h}
     \/ /\ cut
        /\ torn' = IF hyp[h] = "ROOT_CAUSE" THEN torn \cup {h} ELSE torn
        /\ UNCHANGED hyp
  /\ findings' = findings + 1
  /\ revised' = revised \cup {h}
  /\ UNCHANGED <<incident, root, tests>>

\* record_attempt: "positive" is SUPPORTED or CONFIRMED with progress; the state of the
\* hypothesis is left as it is.
RecordAttempt(h, outcome) ==
  /\ hyp[h] # "NONE"
  /\ tests' = [tests EXCEPT ![h] = @ \cup {outcome}]
  /\ findings' = findings + 1
  /\ revised' = revised \cup {h}
  /\ UNCHANGED <<incident, root, hyp, weight, torn>>

\* confirm_root_cause: more weight for it than against it, and some at all; against a
\* rival more weight than for it, or a test that refuted it.
Supported(h) == Weight(h, "support") > 0 /\ Balance(h) = "SUPPORTED"
Refuted(h) == Balance(h) = "REFUTED" \/ "refuted" \in tests[h]

\* Mutant of Discriminated: competing hypotheses without evidence are passed over.
DiscriminatedAsTested(h) ==
  /\ Supported(h)
  /\ "positive" \in tests[h]
  /\ \A g \in Hypothesis \ {h} : hyp[g] \in {"NONE", "ACTIVE"} \/ Refuted(g)

\* The three tests of confirm_root_cause.
Discriminated(h) ==
  /\ Supported(h)
  /\ "positive" \in tests[h]
  /\ \A g \in Hypothesis \ {h} : hyp[g] = "NONE" \/ Refuted(g)

\* confirm_root_cause: the hypothesis, then the incident, whatever its state.
ConfirmRootCause(h, cut) ==
  /\ hyp[h] # "NONE"
  /\ Discriminated(h)
  /\ hyp' = [hyp EXCEPT ![h] = "ROOT_CAUSE"]
  /\ \/ /\ ~cut
        /\ incident' = "ROOT_CAUSE_CONFIRMED"
        /\ root' = h
        /\ revised' = {}
        /\ torn' = torn \ {h}
     \/ /\ cut
        /\ torn' = torn \cup ({h} \ {root})
        /\ UNCHANGED <<incident, root, revised>>
  /\ UNCHANGED <<weight, tests, findings>>

DiagNext ==
  \/ \E cut \in BOOLEAN :
       \/ AttachSignal(cut)
       \/ \E h \in Hypothesis :
            \/ \E e \in Evidence, p \in Polarity : \E w \in Weights[p] :
                 LinkEvidence(h, e, p, w, cut)
            \/ ConfirmRootCause(h, cut)
  \/ \E h \in Hypothesis :
       \/ AddHypothesis(h)
       \/ \E outcome \in {"positive", "refuted"} : RecordAttempt(h, outcome)
-----------------------------------------------------------------------------
(* Properties *)

\* Type of the incident's tables.
DiagTypeOK ==
  /\ incident \in ACTIVE_INCIDENT_STATES \cup {"NONE", "RESOLVED"}
  /\ root \in Hypothesis \cup {NoHypothesis}
  /\ hyp \in [Hypothesis -> {"NONE", "ACTIVE", "SUPPORTED", "REFUTED", "ROOT_CAUSE"}]
  /\ weight \in [Hypothesis -> [Polarity -> [Evidence -> Nat]]]
  /\ tests \in [Hypothesis -> SUBSET {"positive", "refuted"}]
  /\ findings \in Nat
  /\ revised \subseteq Hypothesis
  /\ torn \subseteq Hypothesis

\* A root cause stands on what was found: it passed a discriminating test, and unless
\* something was added since it is supported and every rival is refuted.  A hypothesis
\* marked ROOT_CAUSE is the incident's root, or a test refuted it afterwards (tests
\* leave the mark), or the last call that was to write the mark, its confirmation or a
\* link that weighed it anew, was cut between its two statements.
RootCauseGrounded ==
  /\ root # NoHypothesis =>
       /\ hyp[root] # "NONE" /\ "positive" \in tests[root]
       /\ root \in revised \/ Supported(root)
       /\ \A g \in Hypothesis \ {root} : hyp[g] = "NONE" \/ g \in revised \/ Refuted(g)
  /\ \A h \in Hypothesis : hyp[h] = "ROOT_CAUSE" =>
       h = root \/ "refuted" \in tests[h] \/ h \in torn
=============================================================================
