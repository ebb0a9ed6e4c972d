---------------------------- MODULE GatewayProofs ----------------------------
(***************************************************************************)
(* Proofs that a message is accepted, and a capability used, at most once, *)
(* for any number of messages, callers and capabilities and any limits with*)
(* Ttl > 2 * Skew + MaxDelay.                                              *)
(***************************************************************************)
EXTENDS Gateway, TLAPS

USE ClockAssumption

\* The clock at which m's nonce may be gone.
Gone(m) == Stamp[m] - Skew + Ttl

Entering(h) == hpc[h] \in {"purge", "claim"}
Accepting(h, m) == hpc[h] = "accept" /\ msg[h] = m

\* A call under way has its argument.
Called ==
  /\ \A h \in Handler : hpc[h] # "idle" => msg[h] \in Message
  /\ \A e \in Executor : epc[e] # "idle" => cap[e] \in Capability

TypeInv == GwTypeOK /\ Called

\* A caller on its way to the INSERT is no older than MaxDelay.
Prompt ==
  \A h \in Handler :
    Entering(h) =>
         /\ at[h] <= clock
         /\ clock <= at[h] + MaxDelay
         /\ Stamp[msg[h]] - Skew <= at[h]
         /\ at[h] <= Stamp[msg[h]] + Skew

\* A nonce that was claimed is there, or out of every caller's reach.
Remembered ==
  \A m \in Message :
    /\ expires[m] # 0 => expires[m] >= Gone(m)
    /\ accepted[m] > 0 \/ (\E h \in Handler : Accepting(h, m)) =>
         expires[m] # 0 \/ clock >= Gone(m)

\* One caller at a time is past the INSERT with m, and none once m was accepted.
Alone ==
  /\ \A m \in Message, h \in Handler : Accepting(h, m) => accepted[m] = 0
  /\ \A m \in Message, h, g \in Handler : Accepting(h, m) /\ Accepting(g, m) => h = g

InInv == TypeInv /\ Prompt /\ Remembered /\ Alone /\ AcceptedOnce

Holding(e) == epc[e] \in {"consumed", "executed"}

\* A call that got its capability is the only one that has it.
OutAlone ==
  \A e \in Executor :
    /\ Holding(e) => cap[e] \in used
    /\ epc[e] = "consumed" => effects[cap[e]] = 0
    /\ epc[e] = "executed" => effects[cap[e]] = 1
    /\ \A f \in Executor : Holding(e) /\ Holding(f) /\ cap[e] = cap[f] => e = f

OutInv == TypeInv /\ OutAlone /\ EffectOnce /\ ReceiptsAgree
-----------------------------------------------------------------------------
LEMMA GwTypeInit == GwInit => TypeInv
  BY DEF GwInit, GwTypeOK, TypeInv, Called

LEMMA GwTypeStep == TypeInv /\ [GwNext]_gwVars => TypeInv'
<1> SUFFICES ASSUME TypeInv, [GwNext]_gwVars PROVE TypeInv'
  OBVIOUS
<1> USE DEF TypeInv, GwTypeOK, Called
<1>1. ASSUME NEW h \in Handler, NEW m \in Message, Verify(h, m) PROVE TypeInv'
  BY <1>1 DEF Verify, outVars
<1>2. ASSUME NEW h \in Handler, Purge(h) PROVE TypeInv'
  BY <1>2 DEF Purge, outVars
<1>3. ASSUME NEW h \in Handler, Claim(h) PROVE TypeInv'
  BY <1>3 DEF Claim, Rest, outVars
<1>4. ASSUME NEW h \in Handler, Accept(h) PROVE TypeInv'
  BY <1>4 DEF Accept, Rest, outVars
<1>5. ASSUME NEW h \in Handler, Abandon(h) PROVE TypeInv'
  BY <1>5 DEF Abandon, Rest, outVars
<1>6. ASSUME NEW c \in Capability, Issue(c) PROVE TypeInv'
  BY <1>6 DEF Issue, inVars
<1>7. ASSUME NEW e \in Executor, NEW c \in Capability, Admit(e, c) PROVE TypeInv'
  BY <1>7 DEF Admit, inVars
<1>8. ASSUME NEW e \in Executor, Consume(e) PROVE TypeInv'
  BY <1>8 DEF Consume, inVars
<1>9. ASSUME NEW e \in Executor, Refused(e) PROVE TypeInv'
  BY <1>9 DEF Refused, Done, inVars
<1>10. ASSUME NEW e \in Executor, Execute(e) PROVE TypeInv'
  BY <1>10 DEF Execute, inVars
<1>11. ASSUME NEW e \in Executor, Receipt(e) PROVE TypeInv'
  BY <1>11 DEF Receipt, Done, inVars
<1>12. ASSUME NEW e \in Executor, Fault(e) PROVE TypeInv'
  BY <1>12 DEF Fault, Done, inVars
<1>13. CASE TransitionMission
  BY <1>13 DEF TransitionMission, inVars
<1>14. CASE Tick
  BY <1>14 DEF Tick, inVars, outVars
<1>15. CASE UNCHANGED gwVars
  BY <1>15 DEF gwVars, inVars, outVars
<1> QED
  BY <1>1, <1>2, <1>3, <1>4, <1>5, <1>6, <1>7, <1>8, <1>9, <1>10, <1>11, <1>12,
     <1>13, <1>14, <1>15 DEF GwNext
-----------------------------------------------------------------------------
(* Ingress *)

LEMMA InInit == GwInit => InInv
  BY GwTypeInit
  DEF GwInit, InInv, Prompt, Remembered, Alone, AcceptedOnce, Entering, Accepting

\* What leaves the ingress state alone keeps its invariant.
LEMMA InStutter ==
  ASSUME InInv, UNCHANGED <<clock, inVars>>, TypeInv' PROVE InInv'
<1> USE DEF inVars, Entering, Accepting, Gone
<1>1. Prompt'
  BY DEF InInv, Prompt, TypeInv, Called
<1>2. Remembered'
  BY DEF InInv, Remembered
<1>3. Alone' /\ AcceptedOnce'
  BY DEF InInv, Alone, AcceptedOnce
<1> QED
  BY <1>1, <1>2, <1>3 DEF InInv

LEMMA InStep == InInv /\ [GwNext]_gwVars => InInv'
<1> SUFFICES ASSUME InInv, [GwNext]_gwVars PROVE InInv'
  OBVIOUS
<1>0. TypeInv /\ TypeInv'
  BY GwTypeStep DEF InInv
<1> USE <1>0 DEF Entering, Accepting, Gone
<1>1. ASSUME NEW h \in Handler, NEW m \in Message, Verify(h, m) PROVE InInv'
  <2>1. Prompt'
    BY <1>1 DEF Verify, InInv, Prompt, GwTypeOK, TypeInv, Called
  <2>2. Remembered'
    BY <1>1 DEF Verify, InInv, Remembered, GwTypeOK, TypeInv, Called
  <2>3. Alone' /\ AcceptedOnce'
    BY <1>1 DEF Verify, InInv, Alone, AcceptedOnce, GwTypeOK, TypeInv, Called
  <2> QED
    BY <2>1, <2>2, <2>3 DEF InInv
<1>2. ASSUME NEW h \in Handler, Purge(h) PROVE InInv'
  <2>1. Prompt'
    BY <1>2 DEF Purge, InInv, Prompt, GwTypeOK, TypeInv, Called
  <2>2. Remembered'
    <3> SUFFICES ASSUME NEW m \in Message
                 PROVE  /\ expires'[m] # 0 => expires'[m] >= Gone(m)
                        /\ accepted[m] > 0 \/ (\E g \in Handler : Accepting(g, m)') =>
                             expires'[m] # 0 \/ clock >= Gone(m)
      BY <1>2 DEF Purge, Remembered
    <3>1. at[h] <= clock
      BY <1>2 DEF Purge, InInv, Prompt, TypeInv, Called
    <3>2. \A g \in Handler : Accepting(g, m)' => Accepting(g, m)
      BY <1>2 DEF Purge, GwTypeOK, TypeInv, Called
    <3>3. expires'[m] = IF expires[m] <= at[h] THEN 0 ELSE expires[m]
      BY <1>2 DEF Purge
    <3>4. /\ expires[m] # 0 => expires[m] >= Gone(m)
          /\ accepted[m] > 0 \/ (\E g \in Handler : Accepting(g, m)) =>
               expires[m] # 0 \/ clock >= Gone(m)
      BY DEF InInv, Remembered
    <3> QED
      BY <3>1, <3>2, <3>3, <3>4 DEF GwTypeOK, TypeInv, Called
  <2>3. Alone' /\ AcceptedOnce'
    BY <1>2 DEF Purge, InInv, Alone, AcceptedOnce, GwTypeOK, TypeInv, Called
  <2> QED
    BY <2>1, <2>2, <2>3 DEF InInv
<1>3. ASSUME NEW h \in Handler, Claim(h) PROVE InInv'
  <2> DEFINE m == msg[h]
  <2>0. m \in Message /\ Stamp[m] \in Nat
    BY <1>3 DEF Claim, InInv, Prompt, TypeInv, Called
  <2>1. CASE expires[m] = 0 /\ expires' = [expires EXCEPT ![m] = at[h] + Ttl]
             /\ hpc' = [hpc EXCEPT ![h] = "accept"] /\ UNCHANGED <<msg, at>>
    <3>1. clock < Gone(m)
      <4>1. clock <= at[h] + MaxDelay /\ at[h] <= Stamp[m] + Skew
        BY <1>3 DEF Claim, InInv, Prompt, TypeInv, Called
      <4> QED
        BY <4>1, <2>0, NonceOutlivesMessage DEF GwTypeOK, TypeInv, Called
    <3>2. accepted[m] = 0 /\ \A g \in Handler : ~Accepting(g, m)
      BY <2>0, <2>1, <3>1 DEF InInv, Remembered, GwTypeOK, TypeInv, Called
    <3>3. at[h] + Ttl >= Gone(m) /\ at[h] + Ttl # 0
      <4>1. Stamp[m] - Skew <= at[h]
        BY <1>3 DEF Claim, InInv, Prompt, TypeInv, Called
      <4> QED
        BY <4>1, <2>0 DEF GwTypeOK, TypeInv, Called
    <3>4. Prompt'
      BY <1>3, <2>1 DEF Claim, InInv, Prompt, GwTypeOK, TypeInv, Called
    <3>5. \A n \in Message, g \in Handler : Accepting(g, n)' =>
            Accepting(g, n) \/ (g = h /\ n = m)
      BY <2>1 DEF GwTypeOK, TypeInv, Called
    <3>6. Remembered'
      <4> SUFFICES ASSUME NEW n \in Message
                   PROVE  /\ expires'[n] # 0 => expires'[n] >= Gone(n)
                          /\ accepted[n] > 0 \/ (\E g \in Handler : Accepting(g, n)') =>
                               expires'[n] # 0 \/ clock >= Gone(n)
        BY <1>3 DEF Claim, Remembered
      <4>1. CASE n = m
        BY <4>1, <2>0, <2>1, <3>3 DEF GwTypeOK, TypeInv, Called
      <4>2. CASE n # m
        <5>1. expires'[n] = expires[n]
          BY <4>2, <2>1 DEF GwTypeOK, TypeInv, Called
        <5>2. (\E g \in Handler : Accepting(g, n)') => \E g \in Handler : Accepting(g, n)
          BY <4>2, <3>5
        <5> QED
          BY <5>1, <5>2 DEF InInv, Remembered
      <4> QED
        BY <4>1, <4>2
    <3>7. Alone'
      BY <1>3, <3>2, <3>5, <2>0 DEF Claim, InInv, Alone
    <3>8. AcceptedOnce'
      BY <1>3 DEF Claim, InInv, AcceptedOnce
    <3> QED
      BY <3>4, <3>6, <3>7, <3>8 DEF InInv
  <2>2. CASE expires[m] # 0 /\ Rest(h) /\ UNCHANGED expires
    <3>1. Prompt'
      BY <1>3, <2>2 DEF Claim, Rest, InInv, Prompt, GwTypeOK, TypeInv, Called
    <3>2. Remembered'
      BY <1>3, <2>2 DEF Claim, Rest, InInv, Remembered, GwTypeOK, TypeInv, Called
    <3>3. Alone' /\ AcceptedOnce'
      BY <1>3, <2>2 DEF Claim, Rest, InInv, Alone, AcceptedOnce, GwTypeOK, TypeInv, Called
    <3> QED
      BY <3>1, <3>2, <3>3 DEF InInv
  <2> QED
    BY <1>3, <2>1, <2>2 DEF Claim
<1>4. ASSUME NEW h \in Handler, Accept(h) PROVE InInv'
  <2> DEFINE m == msg[h]
  <2>0. m \in Message /\ accepted[m] = 0 /\ Accepting(h, m)
    BY <1>4 DEF Accept, InInv, Prompt, Alone, TypeInv, Called
  <2>1. accepted' = [accepted EXCEPT ![m] = 1]
    BY <1>4, <2>0 DEF Accept, GwTypeOK, TypeInv, Called
  <2>2. \A n \in Message, g \in Handler : Accepting(g, n)' => Accepting(g, n) /\ g # h
    BY <1>4 DEF Accept, Rest, GwTypeOK, TypeInv, Called
  <2>3. Prompt'
    BY <1>4 DEF Accept, Rest, InInv, Prompt, GwTypeOK, TypeInv, Called
  <2>4. Remembered'
    BY <1>4, <2>0, <2>1, <2>2 DEF Accept, InInv, Remembered, GwTypeOK, TypeInv, Called
  <2>5. Alone'
    BY <2>0, <2>1, <2>2 DEF InInv, Alone, GwTypeOK, TypeInv, Called
  <2>6. AcceptedOnce'
    BY <2>1 DEF InInv, AcceptedOnce, GwTypeOK, TypeInv, Called
  <2> QED
    BY <2>3, <2>4, <2>5, <2>6 DEF InInv
<1>5. ASSUME NEW h \in Handler, Abandon(h) PROVE InInv'
  <2>1. Prompt'
    BY <1>5 DEF Abandon, Rest, InInv, Prompt, GwTypeOK, TypeInv, Called
  <2>2. Remembered'
    BY <1>5 DEF Abandon, Rest, InInv, Remembered, GwTypeOK, TypeInv, Called
  <2>3. Alone' /\ AcceptedOnce'
    BY <1>5 DEF Abandon, Rest, InInv, Alone, AcceptedOnce, GwTypeOK, TypeInv, Called
  <2> QED
    BY <2>1, <2>2, <2>3 DEF InInv
<1>6. CASE Tick
  <2>1. Prompt'
    BY <1>6 DEF Tick, inVars, InInv, Prompt, GwTypeOK, TypeInv, Called
  <2>2. Remembered'
    BY <1>6 DEF Tick, inVars, InInv, Remembered, GwTypeOK, TypeInv, Called
  <2>3. Alone' /\ AcceptedOnce'
    BY <1>6 DEF Tick, inVars, InInv, Alone, AcceptedOnce
  <2> QED
    BY <2>1, <2>2, <2>3 DEF InInv
<1>7. CASE UNCHANGED <<clock, inVars>>
  BY <1>7, InStutter
<1> QED
  BY <1>1, <1>2, <1>3, <1>4, <1>5, <1>6, <1>7
  DEF GwNext, Issue, Admit, Consume, Refused, Execute, Receipt, Fault,
      TransitionMission, gwVars
-----------------------------------------------------------------------------
(* Egress *)

LEMMA OutInit == GwInit => OutInv
  BY GwTypeInit DEF GwInit, OutInv, OutAlone, EffectOnce, ReceiptsAgree, Holding

LEMMA OutStep == OutInv /\ [GwNext]_gwVars => OutInv'
<1> SUFFICES ASSUME OutInv, [GwNext]_gwVars PROVE OutInv'
  OBVIOUS
<1>0. TypeInv /\ TypeInv'
  BY GwTypeStep DEF OutInv
<1> USE <1>0 DEF Holding
<1>1. CASE UNCHANGED <<epc, cap, used, effects, receipts, broken>>
  <2>1. OutAlone'
    BY <1>1 DEF OutInv, OutAlone, TypeInv, Called
  <2>2. EffectOnce' /\ ReceiptsAgree'
    BY <1>1 DEF OutInv, EffectOnce, ReceiptsAgree
  <2> QED
    BY <2>1, <2>2 DEF OutInv
<1>2. ASSUME NEW e \in Executor, NEW c \in Capability, Admit(e, c) PROVE OutInv'
  <2>1. OutAlone'
    BY <1>2 DEF Admit, OutInv, OutAlone, GwTypeOK, TypeInv, Called
  <2>2. EffectOnce' /\ ReceiptsAgree'
    BY <1>2 DEF Admit, OutInv, EffectOnce, ReceiptsAgree, GwTypeOK, TypeInv, Called
  <2> QED
    BY <2>1, <2>2 DEF OutInv
<1>3. ASSUME NEW e \in Executor, Consume(e) PROVE OutInv'
  <2>1. cap[e] \in Capability /\ effects[cap[e]] = 0
    BY <1>3 DEF Consume, OutInv, OutAlone, EffectOnce, GwTypeOK, TypeInv, Called
  <2>2. OutAlone'
    BY <1>3, <2>1 DEF Consume, OutInv, OutAlone, GwTypeOK, TypeInv, Called
  <2>3. EffectOnce' /\ ReceiptsAgree'
    BY <1>3 DEF Consume, OutInv, EffectOnce, ReceiptsAgree, GwTypeOK, TypeInv, Called
  <2> QED
    BY <2>2, <2>3 DEF OutInv
<1>4. ASSUME NEW e \in Executor, Refused(e) PROVE OutInv'
  <2>1. OutAlone'
    BY <1>4 DEF Refused, Done, OutInv, OutAlone, GwTypeOK, TypeInv, Called
  <2>2. EffectOnce' /\ ReceiptsAgree'
    BY <1>4 DEF Refused, Done, OutInv, EffectOnce, ReceiptsAgree, GwTypeOK, TypeInv, Called
  <2> QED
    BY <2>1, <2>2 DEF OutInv
<1>5. ASSUME NEW e \in Executor, Execute(e) PROVE OutInv'
  <2>1. cap[e] \in Capability /\ effects[cap[e]] = 0 /\ cap[e] \in used
    BY <1>5 DEF Execute, OutInv, OutAlone, TypeInv, Called
  <2>2. effects' = [effects EXCEPT ![cap[e]] = 1]
    BY <1>5, <2>1 DEF Execute, GwTypeOK, TypeInv, Called
  <2>3. OutAlone'
    BY <1>5, <2>1, <2>2 DEF Execute, OutInv, OutAlone, GwTypeOK, TypeInv, Called
  <2>4. EffectOnce'
    BY <1>5, <2>1, <2>2 DEF Execute, OutInv, EffectOnce, GwTypeOK, TypeInv, Called
  <2>5. ReceiptsAgree'
    BY <1>5, <2>1, <2>2 DEF Execute, OutInv, ReceiptsAgree, GwTypeOK, TypeInv, Called
  <2> QED
    BY <2>3, <2>4, <2>5 DEF OutInv
<1>6. ASSUME NEW e \in Executor, Receipt(e) PROVE OutInv'
  <2>1. cap[e] \in Capability /\ effects[cap[e]] = 1
    BY <1>6 DEF Receipt, OutInv, OutAlone, TypeInv, Called
  <2>2. OutAlone'
    BY <1>6 DEF Receipt, Done, OutInv, OutAlone, GwTypeOK, TypeInv, Called
  <2>3. EffectOnce' /\ ReceiptsAgree'
    BY <1>6, <2>1 DEF Receipt, Done, OutInv, EffectOnce, ReceiptsAgree, GwTypeOK, TypeInv, Called
  <2> QED
    BY <2>2, <2>3 DEF OutInv
<1>7. ASSUME NEW e \in Executor, Fault(e) PROVE OutInv'
  <2>1. OutAlone'
    BY <1>7 DEF Fault, Done, OutInv, OutAlone, GwTypeOK, TypeInv, Called
  <2>2. EffectOnce' /\ ReceiptsAgree'
    BY <1>7 DEF Fault, Done, OutInv, EffectOnce, ReceiptsAgree, GwTypeOK, TypeInv, Called
  <2> QED
    BY <2>1, <2>2 DEF OutInv
<1> QED
  BY <1>1, <1>2, <1>3, <1>4, <1>5, <1>6, <1>7
  DEF GwNext, Verify, Purge, Claim, Accept, Abandon, Issue, TransitionMission, Tick,
      outVars, gwVars
-----------------------------------------------------------------------------
\* Type correctness of the gateway (ingress.py, egress.py, capability.py).
THEOREM GwTypeCorrect == GwSpec => []GwTypeOK
<1>1. TypeInv => GwTypeOK
  BY DEF TypeInv
<1> QED
  BY GwTypeInit, GwTypeStep, <1>1, PTL DEF GwSpec

\* A signed message is accepted at most once by GatewayIngress, for any skew and
\* nonce_ttl with nonce_ttl > 2 * skew + the longest delay of a caller.
THEOREM AcceptedOnceHolds == GwSpec => []AcceptedOnce
<1>1. InInv => AcceptedOnce
  BY DEF InInv
<1> QED
  BY InInit, InStep, <1>1, PTL DEF GwSpec

\* One capability, one effect on the protected system (GatewayEgress.execute).
THEOREM EffectOnceHolds == GwSpec => []EffectOnce
<1>1. OutInv => EffectOnce
  BY DEF OutInv
<1> QED
  BY OutInit, OutStep, <1>1, PTL DEF GwSpec

\* Receipts and effects agree but for calls cut short (GatewayEgress.execute).
THEOREM ReceiptsAgreeHolds == GwSpec => []ReceiptsAgree
<1>1. OutInv => ReceiptsAgree
  BY DEF OutInv
<1> QED
  BY OutInit, OutStep, <1>1, PTL DEF GwSpec
=============================================================================
