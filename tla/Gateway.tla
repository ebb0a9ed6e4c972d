------------------------------ MODULE Gateway ------------------------------
(***************************************************************************)
(* The two directions of the immune gateway.                               *)
(*                                                                         *)
(* In: GatewayIngress (immune_gateway/ingress.py) takes signed messages    *)
(* whose timestamp is close to its clock and remembers their nonces for a  *)
(* while.  A caller reads the clock once, deletes the nonces that are out  *)
(* of date by that reading, inserts its own, and only then hands the       *)
(* observation on; every statement is a transaction of its own.            *)
(*                                                                         *)
(* Out: GatewayEgress (immune_gateway/egress.py) lets an adapter act on the*)
(* protected system for a capability that SovereignPolicyAuthority issued  *)
(* and ActionCapabilityAuthority lets be used once.                        *)
(*                                                                         *)
(* The callers are processes with a database connection of their own: the  *)
(* request threads of server.py share one, which sqlite3 refuses.          *)
(* Signatures, parameters and adapters' policies are left out.             *)
(***************************************************************************)
EXTENDS Integers

CONSTANTS
  Message,     \* signed messages, each with a nonce of its own
  Stamp,       \* Stamp[m]: the timestamp signed into m
  Handler,     \* processes that call ingest_signed
  Skew,        \* max_clock_skew_seconds
  Ttl,         \* nonce_ttl_seconds
  MaxDelay,    \* longest time from a caller's clock reading to its INSERT
  Capability,  \* capability ids (jti)
  Executor,    \* processes that call GatewayEgress.execute
  CapTtl,      \* ttl_seconds of a capability
  MaxClock,    \* bound: the clock stops here
  NULL

ASSUME ClockAssumption ==
  /\ Stamp \in [Message -> Nat]
  /\ Skew \in Nat /\ Ttl \in Nat \ {0} /\ MaxDelay \in Nat
  /\ CapTtl \in Nat \ {0} /\ MaxClock \in Nat
  /\ NULL \notin Message /\ NULL \notin Capability

\* A nonce outlives its message: the gateway's limits (60 s and 300 s unless
\* configured otherwise) leave a caller 180 s from its clock reading to its INSERT.
\* GatewayRuntimeConfig.load bounds the two apart from each other and does not ask
\* for this.
ASSUME NonceOutlivesMessage == Ttl > 2 * Skew + MaxDelay

VARIABLES
  clock,
  expires,   \* expires[m]: expires_at of m's row in gateway_nonces, 0 without one
  hpc,       \* hpc[h]: where h is in ingest_signed
  msg,       \* msg[h]: the message h handles
  at,        \* at[h]: h's reading of the clock
  accepted,  \* accepted[m]: how often m was handed on as an observation
  active,    \* the mission's state is one that execute accepts
  exp,       \* exp[c]: expiry of c, 0 before it is issued
  used,      \* table used_action_capabilities
  epc,       \* epc[e]: where e is in execute
  cap,       \* cap[e]: the capability e was called with
  effects,   \* effects[c]: how often the protected system was acted on for c
  receipts,  \* capabilities of gateway_egress_receipts
  broken     \* history: capabilities whose call of execute ended by an exception

inVars == <<expires, hpc, msg, at, accepted>>
outVars == <<active, exp, used, epc, cap, effects, receipts, broken>>
gwVars == <<clock, inVars, outVars>>

GwInit ==
  /\ clock = 0
  /\ expires = [m \in Message |-> 0]
  /\ hpc = [h \in Handler |-> "idle"]
  /\ msg = [h \in Handler |-> NULL]
  /\ at = [h \in Handler |-> 0]
  /\ accepted = [m \in Message |-> 0]
  /\ active = TRUE
  /\ exp = [c \in Capability |-> 0]
  /\ used = {}
  /\ epc = [e \in Executor |-> "idle"]
  /\ cap = [e \in Executor |-> NULL]
  /\ effects = [c \in Capability |-> 0]
  /\ receipts = {}
  /\ broken = {}
-----------------------------------------------------------------------------
(* Ingress *)

Rest(h) ==
  /\ hpc' = [hpc EXCEPT ![h] = "idle"]
  /\ msg' = [msg EXCEPT ![h] = NULL]
  /\ at' = [at EXCEPT ![h] = 0]

\* verify_signature up to the nonce: the clock is read and the timestamp is within
\* the skew of it.  Outside of it the call changes nothing.
Verify(h, m) ==
  /\ hpc[h] = "idle"
  /\ Stamp[m] - Skew <= clock
  /\ clock <= Stamp[m] + Skew
  /\ hpc' = [hpc EXCEPT ![h] = "purge"]
  /\ msg' = [msg EXCEPT ![h] = m]
  /\ at' = [at EXCEPT ![h] = clock]
  /\ UNCHANGED <<clock, expires, accepted, outVars>>

\* Mutant of Purge: a nonce is forgotten one tick early.
PurgeEarly(h) ==
  /\ hpc[h] = "purge"
  /\ expires' = [m \in Message |-> IF expires[m] <= at[h] + 1 THEN 0 ELSE expires[m]]
  /\ hpc' = [hpc EXCEPT ![h] = "claim"]
  /\ UNCHANGED <<clock, msg, at, accepted, outVars>>

\* _claim_nonce, DELETE ... WHERE expires_at <= now
Purge(h) ==
  /\ hpc[h] = "purge"
  /\ expires' = [m \in Message |-> IF expires[m] <= at[h] THEN 0 ELSE expires[m]]
  /\ hpc' = [hpc EXCEPT ![h] = "claim"]
  /\ UNCHANGED <<clock, msg, at, accepted, outVars>>

\* _claim_nonce, the INSERT: the primary key refuses a nonce that is there.
Claim(h) ==
  /\ hpc[h] = "claim"
  /\ \/ /\ expires[msg[h]] = 0
        /\ expires' = [expires EXCEPT ![msg[h]] = at[h] + Ttl]
        /\ hpc' = [hpc EXCEPT ![h] = "accept"]
        /\ UNCHANGED <<msg, at>>
     \/ /\ expires[msg[h]] # 0
        /\ Rest(h)
        /\ UNCHANGED expires
  /\ UNCHANGED <<clock, accepted, outVars>>

\* decode_observation and _accept: signal, evidence and audit event.
Accept(h) ==
  /\ hpc[h] = "accept"
  /\ accepted' = [accepted EXCEPT ![msg[h]] = @ + 1]
  /\ Rest(h)
  /\ UNCHANGED <<clock, expires, outVars>>

\* A body that does not decode, or a crash: the nonce, if claimed, stays claimed.
Abandon(h) ==
  /\ hpc[h] # "idle"
  /\ Rest(h)
  /\ UNCHANGED <<clock, expires, accepted, outVars>>
-----------------------------------------------------------------------------
(* Egress *)

\* SovereignPolicyAuthority.authorize and ActionCapabilityAuthority.issue
Issue(c) ==
  /\ active
  /\ exp[c] = 0
  /\ exp' = [exp EXCEPT ![c] = clock + CapTtl]
  /\ UNCHANGED <<clock, inVars, active, used, epc, cap, effects, receipts, broken>>

\* execute up to the capability: identity, mission, adapter, checkpoint.
Admit(e, c) ==
  /\ epc[e] = "idle"
  /\ active
  /\ exp[c] # 0
  /\ epc' = [epc EXCEPT ![e] = "admitted"]
  /\ cap' = [cap EXCEPT ![e] = c]
  /\ UNCHANGED <<clock, inVars, active, exp, used, effects, receipts, broken>>

Done(e) ==
  /\ epc' = [epc EXCEPT ![e] = "idle"]
  /\ cap' = [cap EXCEPT ![e] = NULL]

\* Mutant of Consume: the receipt is written before the adapter acts.
ConsumeReceipted(e) ==
  /\ epc[e] = "admitted"
  /\ clock < exp[cap[e]]
  /\ cap[e] \notin used
  /\ used' = used \cup {cap[e]}
  /\ receipts' = receipts \cup {cap[e]}
  /\ epc' = [epc EXCEPT ![e] = "consumed"]
  /\ UNCHANGED <<clock, inVars, active, exp, cap, effects, broken>>

\* consume: not expired, and not in the table when it is inserted there.
Consume(e) ==
  /\ epc[e] = "admitted"
  /\ clock < exp[cap[e]]
  /\ cap[e] \notin used
  /\ used' = used \cup {cap[e]}
  /\ epc' = [epc EXCEPT ![e] = "consumed"]
  /\ UNCHANGED <<clock, inVars, active, exp, cap, effects, receipts, broken>>

\* Mutant of Refused: the call is left in a state nothing follows.
RefusedHanging(e) ==
  /\ epc[e] = "admitted"
  /\ clock >= exp[cap[e]] \/ cap[e] \in used
  /\ epc' = [epc EXCEPT ![e] = "refused"]
  /\ UNCHANGED <<clock, inVars, active, exp, used, cap, effects, receipts, broken>>

\* "capability expired", "capability already consumed"
Refused(e) ==
  /\ epc[e] = "admitted"
  /\ clock >= exp[cap[e]] \/ cap[e] \in used
  /\ Done(e)
  /\ UNCHANGED <<clock, inVars, active, exp, used, effects, receipts, broken>>

\* adapter.execute; the mission is not looked at again.
Execute(e) ==
  /\ epc[e] = "consumed"
  /\ effects' = [effects EXCEPT ![cap[e]] = @ + 1]
  /\ epc' = [epc EXCEPT ![e] = "executed"]
  /\ UNCHANGED <<clock, inVars, active, exp, used, cap, receipts, broken>>

\* Evidence, receipt and audit event of the result.
Receipt(e) ==
  /\ epc[e] = "executed"
  /\ receipts' = receipts \cup {cap[e]}
  /\ Done(e)
  /\ UNCHANGED <<clock, inVars, active, exp, used, effects, broken>>

\* Mutant of Fault: a call that fails gives its capability back.
FaultReleased(e) ==
  /\ epc[e] # "idle"
  /\ broken' = broken \cup {cap[e]}
  /\ used' = used \ {cap[e]}
  /\ Done(e)
  /\ UNCHANGED <<clock, inVars, active, exp, effects, receipts>>

\* The adapter raises, before or after it acted, or returns something that is not an
\* object; or the process dies.
Fault(e) ==
  /\ epc[e] # "idle"
  /\ broken' = broken \cup {cap[e]}
  /\ Done(e)
  /\ UNCHANGED <<clock, inVars, active, exp, used, effects, receipts>>

\* The mission leaves the active states, or comes back to them.
TransitionMission ==
  /\ active' = ~active
  /\ UNCHANGED <<clock, inVars, exp, used, epc, cap, effects, receipts, broken>>
-----------------------------------------------------------------------------
\* Time passes; no caller is longer than MaxDelay on its way to the INSERT.
Tick ==
  /\ clock < MaxClock
  /\ \A h \in Handler : hpc[h] \in {"purge", "claim"} => clock - at[h] < MaxDelay
  /\ clock' = clock + 1
  /\ UNCHANGED <<inVars, outVars>>

GwNext ==
  \/ \E h \in Handler :
       \/ \E m \in Message : Verify(h, m)
       \/ Purge(h) \/ Claim(h) \/ Accept(h) \/ Abandon(h)
  \/ \E c \in Capability : Issue(c)
  \/ \E e \in Executor :
       \/ \E c \in Capability : Admit(e, c)
       \/ Consume(e) \/ Refused(e) \/ Execute(e) \/ Receipt(e) \/ Fault(e)
  \/ TransitionMission
  \/ Tick

GwSpec == GwInit /\ [][GwNext]_gwVars
-----------------------------------------------------------------------------
(* Properties *)

\* Type invariant of the gateway's tables and callers.
GwTypeOK ==
  /\ clock \in Nat
  /\ expires \in [Message -> Nat]
  /\ hpc \in [Handler -> {"idle", "purge", "claim", "accept"}]
  /\ msg \in [Handler -> Message \cup {NULL}]
  /\ at \in [Handler -> Nat]
  /\ accepted \in [Message -> Nat]
  /\ active \in BOOLEAN
  /\ exp \in [Capability -> Nat]
  /\ used \subseteq Capability
  /\ epc \in [Executor -> {"idle", "admitted", "consumed", "executed"}]
  /\ cap \in [Executor -> Capability \cup {NULL}]
  /\ effects \in [Capability -> Nat]
  /\ receipts \subseteq Capability
  /\ broken \subseteq Capability

\* A message delivered any number of times, to several callers at once, becomes an
\* observation at most once: its nonce is still there for as long as any caller,
\* however old its clock reading, can get past the timestamp test with it.
AcceptedOnce == \A m \in Message : accepted[m] <= 1

\* A capability moves the protected system at most once, whoever retries it after
\* whatever error, and never before it is in the table of used ones.
EffectOnce == \A c \in Capability : effects[c] <= 1 /\ (effects[c] = 1 => c \in used)

\* Receipts and effects agree: no receipt without an effect, and an effect without a
\* receipt is one whose call is still under way or ended by an exception.
ReceiptsAgree ==
  \A c \in Capability :
    /\ c \in receipts => effects[c] = 1
    /\ effects[c] = 1 /\ c \notin receipts =>
         c \in broken \/ \E e \in Executor : epc[e] = "executed" /\ cap[e] = c
=============================================================================
