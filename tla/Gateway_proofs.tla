--------------------------- MODULE Gateway_proofs ---------------------------
(***************************************************************************)
(* Proofs about the gateway, for any clients, keys and orders and with     *)
(* restarts: type correctness, the key a request is verified under, the    *)
(* effect of an order, the order of reservations, the limit of a day, and  *)
(* that the gateway keeps the mandates of its agents (module Mandate).     *)
(*                                                                         *)
(* All rest on SerialInv: a request inside verify_intent holds the event   *)
(* loop, so there is at most one.                                          *)
(***************************************************************************)
EXTENDS Lender, VerifyIntent_proofs

(* The key an accepted request looked up is still the registered one, and  *)
(* whoever passed the signature check is signed with it.                   *)
KeyInv ==
  \A r \in Requests :
    /\ at[r] = "oracle" \/ pc[r] # "idle" =>
         key[r] = keys[env[r].of.agent] /\ key[r] # NoKey
    /\ pc[r] \notin {"idle", "done"} \/ verdict[r] = "allow" =>
         env[r].signedBy = key[r]

SerialInv ==
  /\ \A r \in Requests :
       /\ pc[r] \notin {"idle", "done"} => at[r] = "verifying"
       /\ at[r] \in {"new", "oracle"} => pc[r] = "idle"
       /\ verdict[r] = "allow" => pc[r] = "done"
  /\ \A r, q \in Requests :
       at[r] = "verifying" /\ at[q] = "verifying" => r = q

(* Whoever has passed a look-up is not barred: no order comes in between.  *)
ClearInv ==
  \A r \in Requests :
    /\ pc[r] \in {"issuer", "trust", "succeed"} => ~Live(call[r].agent)
    /\ pc[r] \in {"trust", "succeed"} /\ call[r].issuer \in Subjects
         => ~Live(call[r].issuer)

ClockOrderInv ==
  \A r \in Requests :
    /\ now[r] <= clock
    /\ pc[r] \notin {"idle", "done"} =>
         \A q \in Requests : pc[q] # "idle" => now[q] <= now[r]

(* Whoever is inside verify_intent was judged by what is registered now,   *)
(* and who has passed the last steps above Tier 0 was not found wanting.   *)
AttestInv ==
  \A r \in Requests :
    /\ pc[r] \notin {"idle", "done"} =>
         /\ call[r].tier = env[r].of.tier
         /\ Attested(env[r]) \/ "attestation" \in call[r].flaws
    /\ pc[r] \in {"trust", "succeed"} /\ call[r].tier > 0 =>
         "attestation" \notin call[r].flaws

(* The routes of the attestation registries.                               *)
RegisterAttestation ==
  \/ \E f \in Frameworks : RegisterFramework(f)
  \/ \E b \in Bodies : RegisterHashes(b)

GatewayInv ==
  GatewayTypeOK /\ SerialInv /\ KeyInv /\ ClearInv /\ ClockOrderInv /\ AttestInv

-----------------------------------------------------------------------------
(* What the steps of the gateway do to verify_intent.                      *)

LEMMA EnvelopeFields ==
  ASSUME NEW e \in Envelopes
  PROVE  e.of \in Call /\ e.of.agent \in Agents /\ e.signedBy \in Keys
  BY GatewayAssumption DEF Envelope, Call

LEMMA VerifiedIsCall ==
  ASSUME NEW e \in Envelopes, NEW k \in Keys, NEW observed \in BOOLEAN,
         NEW attested \in BOOLEAN
  PROVE  /\ Verified(e, k, observed, attested) \in Calls
         /\ e.signedBy # k => "signature" \in Verified(e, k, observed, attested).flaws
<1>1. e.of \in Call
  BY EnvelopeFields
<1> QED
  BY <1>1, GatewayAssumption DEF Verified, Call

LEMMA VerifiedKeepsTier ==
  ASSUME NEW e \in Envelopes, NEW k \in Keys, NEW observed \in BOOLEAN,
         NEW attested \in BOOLEAN
  PROVE  /\ Verified(e, k, observed, attested).tier = e.of.tier
         /\ attested \/ "attestation" \in Verified(e, k, observed, attested).flaws
<1>1. e.of \in Call
  BY EnvelopeFields
<1> QED
  BY <1>1 DEF Verified, Call

(* Whoever enters passes the signature check, or is done.                  *)
LEMMA VerifyEnters ==
  ASSUME GatewayTypeOK, NEW r \in Requests, NEW e \in Envelopes, NEW k \in Keys,
         NEW observed \in BOOLEAN, Verify(r, e, k, observed)
  PROVE  /\ TypeOK'
         /\ pc[r] = "idle" /\ pc' = [pc EXCEPT ![r] = pc'[r]]
         /\ pc'[r] \in {"attest", "done"}
         /\ verdict' = [verdict EXCEPT ![r] = verdict'[r]]
         /\ verdict'[r] = verdict[r] \/ verdict'[r] # "allow"
         /\ now' = [now EXCEPT ![r] = clock]
         /\ pc'[r] = "attest" => e.signedBy = k
         /\ call' = [call EXCEPT ![r] = call'[r]]
         /\ call'[r].tier = e.of.tier
         /\ Attested(e) \/ "attestation" \in call'[r].flaws
         /\ at' = [at EXCEPT ![r] = "verifying"]
         /\ UNCHANGED <<clock, records, answer>>
<1> DEFINE c == Verified(e, k, observed, Attested(e))
<1>0. /\ TypeOK /\ VerifyTypeOK /\ Attested(e) \in BOOLEAN
      /\ c \in Calls /\ (Reject(r, c) \/ Authenticate(r, c))
  <2>1. Attested(e) \in BOOLEAN
    BY DEF Attested
  <2> QED
    BY <2>1, VerifiedIsCall DEF GatewayTypeOK, TypeOK, Verify
<1>1. TypeOK'
  BY <1>0, ReceiveTypes
<1>2. ASSUME e.signedBy # k PROVE ~Authenticate(r, c)
  <2>1. Fails(c, EarlySteps[5], clock)
    BY <1>0, <1>2, VerifiedIsCall DEF Fails, EarlySteps
  <2> QED
    BY <2>1 DEF Authenticate, PassesAll, EarlySteps
<1>5. c.tier = e.of.tier /\ (Attested(e) \/ "attestation" \in c.flaws)
  BY <1>0, VerifiedKeepsTier
<1> HIDE DEF c
<1>3. CASE Reject(r, c)
  <2>1. \E v \in StaticSteps \cup {"expiry", "clock_skew"} : Refuse(r, v)
    BY <1>3 DEF Reject, EarlySteps, StaticSteps
  <2>2. /\ pc[r] = "idle" /\ Goto(r, "done") /\ call' = [call EXCEPT ![r] = c]
        /\ now' = [now EXCEPT ![r] = clock] /\ UNCHANGED <<clock, records>>
    BY <1>3 DEF Reject, Receive, storeVars
  <2> QED
    BY <1>0, <1>1, <1>5, <2>1, <2>2
       DEF Verify, Enter, Goto, Refuse, VerifyTypeOK, StaticSteps
<1>4. CASE Authenticate(r, c)
  <2>1. e.signedBy = k
    BY <1>2, <1>4 DEF c
  <2>2. /\ pc[r] = "idle" /\ Goto(r, "attest") /\ call' = [call EXCEPT ![r] = c]
        /\ now' = [now EXCEPT ![r] = clock] /\ UNCHANGED <<clock, records, verdict>>
    BY <1>4 DEF Authenticate, Receive, storeVars
  <2> QED
    BY <1>0, <1>1, <1>5, <2>1, <2>2 DEF Verify, Enter, Goto, VerifyTypeOK
<1> QED
  BY <1>0, <1>3, <1>4

(* A step of verify_intent moves one request, that is in flight.           *)
LEMMA StepMovesOne ==
  ASSUME TypeOK, NEW r \in Requests, Step(r)
  PROVE  /\ TypeOK'
         /\ pc[r] \notin {"idle", "done"} /\ pc'[r] # "idle"
         /\ pc' = [pc EXCEPT ![r] = pc'[r]]
         /\ verdict' = [verdict EXCEPT ![r] = verdict'[r]]
         /\ verdict'[r] # "allow" \/ verdict'[r] = verdict[r] \/ Succeed(r)
         /\ UNCHANGED <<clock, call, now>>
<1>0. VerifyTypeOK /\ TypeOK'
  BY StepMoves, RequestTypes, SharedTypes DEF TypeOK, ClockTypeOK
<1>1. pc[r] \notin {"idle", "done"}
  BY DEF Step, Attest, Depth, SpendNonceOf, Reserve, Violation, Freshness,
         CheckAgent, CheckSuspended, CheckIssuer, CheckTrust, Release,
         RecordFailure, Succeed
<1>2. pc'[r] # "idle"
  <2>1. CASE \/ Attest(r) \/ Depth(r) \/ SpendNonceOf(r) \/ Reserve(r) \/ Violation(r)
             \/ Freshness(r) \/ CheckSuspended(r) \/ CheckTrust(r) \/ Release(r)
             \/ RecordFailure(r) \/ Succeed(r)
    BY <1>0, <2>1
       DEF VerifyTypeOK, Attest, Depth, SpendNonceOf, Reserve, Violation, Freshness,
           CheckSuspended, CheckTrust, Release, RecordFailure, Succeed, Goto,
           FailAuthenticated
  <2>2. ASSUME MeetsMarket(r) PROVE pc'[r] # "idle"
    BY <1>0, <2>2, MarketMoves DEF VerifyTypeOK, Goto, FailAuthenticated
  <2>3. CASE CheckAgent(r) \/ CheckIssuer(r)
    BY <1>0, <2>2, <2>3
       DEF VerifyTypeOK, CheckAgent, CheckIssuer, Goto, FailAuthenticated
  <2> QED
    BY <2>1, <2>3 DEF Step
<1>3. UNCHANGED <<clock, call, now>>
  BY <1>0, StepMoves
<1>4. verdict'[r] # "allow" \/ verdict'[r] = verdict[r] \/ Succeed(r)
  <2>1. CASE \/ Attest(r) \/ Depth(r) \/ SpendNonceOf(r) \/ Reserve(r) \/ Violation(r)
             \/ Freshness(r) \/ CheckSuspended(r) \/ CheckTrust(r) \/ Release(r)
             \/ RecordFailure(r)
    BY <1>0, <2>1
       DEF VerifyTypeOK, Attest, Depth, SpendNonceOf, Reserve, Violation, Freshness,
           CheckSuspended, CheckTrust, Release, RecordFailure, FailAuthenticated,
           Refuse
  <2>2. ASSUME MeetsMarket(r) PROVE verdict'[r] # "allow" \/ verdict'[r] = verdict[r]
    BY <1>0, <2>2, MarketMoves DEF VerifyTypeOK, FailAuthenticated, Refuse, StaticSteps
  <2>3. CASE CheckAgent(r) \/ CheckIssuer(r)
    BY <1>0, <2>2, <2>3
       DEF VerifyTypeOK, CheckAgent, CheckIssuer, FailAuthenticated, Refuse
  <2> QED
    BY <2>1, <2>3 DEF Step
<1>5. /\ pc' = [pc EXCEPT ![r] = pc'[r]]
      /\ verdict' = [verdict EXCEPT ![r] = verdict'[r]]
  BY <1>0, StepMoves DEF VerifyTypeOK, Goto, FailAuthenticated, Refuse, Succeed
<1> QED
  BY <1>0, <1>1, <1>2, <1>3, <1>4, <1>5

-----------------------------------------------------------------------------
(* Type correctness.                                                       *)

LEMMA GatewayTypeStep ==
  ASSUME GatewayTypeOK, KeyInv, [GatewayNext]_gatewayVars
  PROVE  GatewayTypeOK'
<1> DEFINE Handlers ==
      /\ at \in [Requests -> Places]
      /\ env \in [Requests -> Envelopes]
      /\ key \in [Requests -> Keys \cup {NoKey}]
      /\ answer \in [Requests -> Answers]
      /\ posted \in SUBSET Requests /\ dealt \in SUBSET Requests
      /\ keys \in [Agents -> Keys \cup {NoKey}]
      /\ frameworks \in SUBSET Frameworks
      /\ buildHashes \in [Frameworks -> Hashes \cup {NoHash}]
      /\ promptHashes \in [Agents -> Hashes \cup {NoHash}]
      /\ orders \in Nat /\ restarts \in Nat
<1>0. TypeOK /\ Handlers
  BY DEF GatewayTypeOK
<1>1. /\ clock \in Nat /\ ClockTypeOK /\ StoreTypeOK /\ TrustTypeOK /\ VerifyTypeOK
      /\ barred \in [Requests -> SUBSET Subjects]
      /\ outdated \in [Requests -> BOOLEAN]
  BY <1>0, ClockAssumption DEF TypeOK, ClockTypeOK, VerifyTypeOK
<1>2. ASSUME UNCHANGED verifyVars PROVE TypeOK'
  BY <1>1, <1>2
     DEF verifyVars, storeVars, trustVars, requestVars, TypeOK, ClockTypeOK,
         StoreTypeOK, TrustTypeOK, VerifyTypeOK
<1>3. ASSUME UNCHANGED <<handlerVars, downstreamVars, registryVars, boundVars>>
      PROVE  Handlers'
  BY <1>0, <1>3 DEF handlerVars, downstreamVars, registryVars, attestationVars, boundVars
<1>4. CASE TimePasses
  <2>1. TypeOK'
    BY <1>0, <1>4, TypeStep DEF TimePasses, Next
  <2> QED
    BY <1>3, <1>4, <2>1 DEF TimePasses, GatewayTypeOK
<1>5. CASE Restart
  <2>1. StoreTypeOK'
    BY <1>1, <1>5, EmptySeq DEF Restart, StoreTypeOK, Unrecorded, Standing
  <2>2. TrustTypeOK'
    BY <1>5 DEF Restart, TrustTypeOK, NewHistory, History
  <2>3. VerifyTypeOK'
    BY <1>1, <1>5 DEF Restart, VerifyTypeOK, PCs, Verdicts
  <2>4. ClockTypeOK'
    BY <1>1, <1>5 DEF Restart, ClockTypeOK
  <2>5. Handlers'
    BY <1>0, <1>5 DEF Restart, Places, downstreamVars
  <2> QED
    BY <2>1, <2>2, <2>3, <2>4, <2>5 DEF TypeOK, GatewayTypeOK
<1>6. ASSUME NEW a \in Agents, NEW k \in Keys, Register(a, k) PROVE GatewayTypeOK'
  <2>1. Handlers'
    BY <1>0, <1>6 DEF Register, handlerVars, downstreamVars, attestationVars, boundVars
  <2> QED
    BY <1>2, <1>6, <2>1 DEF Register, GatewayTypeOK
<1>7. ASSUME NEW s \in Targets, CreateRevocation(s) \/ DeleteRevocation(s)
      PROVE  GatewayTypeOK'
  <2>1. Administer /\ Watch /\ s \in Subjects
    BY <1>7, VerifyAssumption DEF CreateRevocation, DeleteRevocation
  <2>2. StoreTypeOK'
    BY <1>1, <1>7, <2>1, StoreMethodTypes DEF CreateRevocation, DeleteRevocation
  <2>3. TrustTypeOK'
    <3>1. CASE UNCHANGED trustVars
      BY <1>1, <3>1 DEF TrustTypeOK, trustVars
    <3>2. CASE s \in Agents /\ RecordRevocation(s)
      BY <1>1, <3>2 DEF TrustTypeOK, RecordRevocation, History
    <3> QED
      BY <1>7, <3>1, <3>2 DEF CreateRevocation, DeleteRevocation
  <2>4. VerifyTypeOK' /\ ClockTypeOK'
    BY <1>1, <2>1, WatchType DEF Administer, requestVars, VerifyTypeOK, ClockTypeOK
  <2>5. Handlers'
    BY <1>0, <1>7, <2>1
       DEF CreateRevocation, DeleteRevocation, Administer, handlerVars, downstreamVars,
           attestationVars
  <2> QED
    BY <2>2, <2>3, <2>4, <2>5 DEF TypeOK, GatewayTypeOK
<1>8. ASSUME NEW r \in Requests, NEW e \in Envelopes, Arrive(r, e)
      PROVE  GatewayTypeOK'
  <2>1. keys[e.of.agent] \in Keys \cup {NoKey}
    BY <1>0, EnvelopeFields
  <2>2. \/ UNCHANGED verifyVars /\ Respond(r, "no_key")
        \/ UNCHANGED verifyVars /\ Enter(r, "oracle") /\ UNCHANGED answer
        \/ UNCHANGED verifyVars /\ Respond(r, "tenor")
        \/ keys[e.of.agent] # NoKey /\ Verify(r, e, keys[e.of.agent], TRUE)
    BY <1>8 DEF Arrive
  <2>3. TypeOK'
    BY <1>2, <2>1, <2>2, VerifyEnters
  <2>4. at' \in [Requests -> Places] /\ answer' \in [Requests -> Answers]
    BY <1>0, <2>2 DEF Respond, Enter, Verify, Places, Answers
  <2> QED
    BY <1>0, <1>8, <2>1, <2>3, <2>4
       DEF Arrive, GatewayTypeOK, downstreamVars, registryVars, attestationVars, boundVars
<1>9. ASSUME NEW r \in Requests, Resume(r) PROVE GatewayTypeOK'
  <2>1. env[r] \in Envelopes /\ key[r] \in Keys
    BY <1>0, <1>9 DEF Resume, KeyInv
  <2>2. PICK observed \in BOOLEAN : Verify(r, env[r], key[r], observed)
    BY <1>9 DEF Resume
  <2>3. TypeOK'
    BY <2>1, <2>2, VerifyEnters
  <2>4. at' \in [Requests -> Places] /\ answer' = answer
    BY <1>0, <2>2 DEF Verify, Enter, Places
  <2> QED
    BY <1>0, <1>9, <2>3, <2>4
       DEF Resume, GatewayTypeOK, downstreamVars, registryVars, attestationVars, boundVars
<1>10. ASSUME NEW r \in Requests, Proceed(r) PROVE GatewayTypeOK'
  BY <1>0, <1>3, <1>10, StepMovesOne DEF Proceed, GatewayTypeOK
<1>11. ASSUME NEW r \in Requests,
              Conclude(r) \/ Deal(r) \/ Forwarded(r) \/ Unreachable(r)
       PROVE  GatewayTypeOK'
  <2>1. Handlers'
    BY <1>0, <1>11
       DEF Conclude, Deal, Forwarded, Unreachable, Respond, Enter, Places, Answers,
           handlerVars, downstreamVars, registryVars, attestationVars, boundVars
  <2> QED
    BY <1>2, <1>11, <2>1 DEF Conclude, Deal, Forwarded, Unreachable, GatewayTypeOK
<1>12. CASE UNCHANGED gatewayVars
  BY <1>2, <1>3, <1>12 DEF gatewayVars, GatewayTypeOK
<1>13. CASE RegisterAttestation
  <2>1. UNCHANGED verifyVars
    BY <1>13
       DEF RegisterAttestation, RegisterFramework, RegisterHashes, Administer, verifyVars
  <2>2. /\ frameworks' \in SUBSET Frameworks
        /\ buildHashes' \in [Frameworks -> Hashes \cup {NoHash}]
        /\ promptHashes' \in [Agents -> Hashes \cup {NoHash}]
    BY <1>0, <1>13, GatewayAssumption
       DEF RegisterAttestation, RegisterFramework, RegisterHashes, Body
  <2>3. /\ UNCHANGED <<handlerVars, downstreamVars, keys, restarts>>
        /\ orders' = orders + 1
    BY <1>13 DEF RegisterAttestation, RegisterFramework, RegisterHashes, Administer
  <2> QED
    BY <1>0, <1>2, <2>1, <2>2, <2>3 DEF GatewayTypeOK, handlerVars, downstreamVars
<1> QED
  BY <1>4, <1>5, <1>6, <1>7, <1>8, <1>9, <1>10, <1>11, <1>12, <1>13
     DEF GatewayNext, RegisterAttestation

-----------------------------------------------------------------------------
(* The event loop: while it is not busy nobody is inside verify_intent, and *)
(* while it is, only the one who is.                                       *)

LEMMA NobodyInside ==
  ASSUME SerialInv, ~Busy, NEW q \in Requests
  PROVE  pc[q] \in {"idle", "done"}
  BY DEF SerialInv, Busy

LEMMA OnlyOneInside ==
  ASSUME TypeOK, SerialInv, NEW r \in Requests, Step(r), NEW q \in Requests, q # r
  PROVE  pc[q] \in {"idle", "done"}
  BY StepMovesOne DEF SerialInv

(* The steps that leave verify_intent alone.                               *)
LEMMA QuietSteps ==
  ASSUME \/ \E a \in Agents, k \in Keys : Register(a, k)
         \/ \E s \in Targets : CreateRevocation(s) \/ DeleteRevocation(s)
         \/ \E r \in Requests :
              Conclude(r) \/ Deal(r) \/ Forwarded(r) \/ Unreachable(r)
         \/ RegisterAttestation \/ TimePasses
         \/ UNCHANGED gatewayVars
  PROVE  UNCHANGED <<pc, verdict, call, now>>
  BY DEF Register, CreateRevocation, DeleteRevocation, Administer, Conclude, Deal,
         Forwarded, Unreachable, TimePasses, Pass, gatewayVars, verifyVars, requestVars,
         RegisterAttestation, RegisterFramework, RegisterHashes

(* What Arrive comes to: verification starts, or it does not.              *)
LEMMA ArriveMeans ==
  ASSUME GatewayTypeOK, NEW r \in Requests, NEW e \in Envelopes, Arrive(r, e)
  PROVE  /\ ~Busy /\ at[r] = "new" /\ UNCHANGED keys
         /\ env' = [env EXCEPT ![r] = e]
         /\ key' = [key EXCEPT ![r] = keys[e.of.agent]]
         /\ \/ /\ UNCHANGED verifyVars
               /\ at' = [at EXCEPT ![r] = at'[r]]
               /\ \/ at'[r] = "oracle" /\ keys[e.of.agent] # NoKey
                  \/ at'[r] = "answered"
            \/ /\ keys[e.of.agent] \in Keys
               /\ Verify(r, e, keys[e.of.agent], TRUE)
<1>1. keys[e.of.agent] \in Keys \cup {NoKey}
  BY EnvelopeFields DEF GatewayTypeOK
<1> QED
  BY <1>1 DEF Arrive, Respond, Enter, GatewayTypeOK, registryVars

LEMMA ResumeMeans ==
  ASSUME GatewayTypeOK, KeyInv, NEW r \in Requests, Resume(r)
  PROVE  /\ ~Busy /\ at[r] = "oracle" /\ UNCHANGED <<env, key, keys>>
         /\ env[r] \in Envelopes /\ key[r] \in Keys
         /\ \E observed \in BOOLEAN : Verify(r, env[r], key[r], observed)
  BY DEF Resume, KeyInv, GatewayTypeOK, registryVars

LEMMA SerialStep ==
  ASSUME GatewayTypeOK, SerialInv, KeyInv, [GatewayNext]_gatewayVars
  PROVE  SerialInv'
<1>0. /\ TypeOK /\ at \in [Requests -> Places]
      /\ pc \in [Requests -> PCs] /\ verdict \in [Requests -> Verdicts]
  BY DEF GatewayTypeOK, TypeOK, VerifyTypeOK
<1>1. ASSUME UNCHANGED <<pc, verdict>>,
             \A q \in Requests : at'[q] = "verifying" => at[q] = "verifying",
             \A q \in Requests :
               \/ at'[q] = at[q]
               \/ pc[q] \in {"idle", "done"} /\ at'[q] \notin {"new", "oracle"}
               \/ pc[q] = "idle"
      PROVE  SerialInv'
  BY <1>1 DEF SerialInv
<1>2. ASSUME NEW r \in Requests, NEW e \in Envelopes, NEW k \in Keys,
             NEW observed \in BOOLEAN, ~Busy, Verify(r, e, k, observed)
      PROVE  SerialInv'
  <2>1. \A q \in Requests : at[q] # "verifying" /\ pc[q] \in {"idle", "done"}
    BY <1>2, NobodyInside DEF Busy
  <2> QED
    BY <1>0, <1>2, <2>1, VerifyEnters DEF SerialInv
<1>3. CASE \/ TimePasses \/ RegisterAttestation \/ UNCHANGED gatewayVars
           \/ \E a \in Agents, k \in Keys : Register(a, k)
           \/ \E s \in Targets : CreateRevocation(s) \/ DeleteRevocation(s)
           \/ \E r \in Requests : Deal(r)
  <2>1. at' = at
    BY <1>3
       DEF TimePasses, Register, CreateRevocation, DeleteRevocation, Administer,
           RegisterAttestation, RegisterFramework, RegisterHashes, Deal,
           handlerVars, gatewayVars
  <2> QED
    BY <1>1, <1>3, <2>1, QuietSteps
<1>4. CASE Restart
  BY <1>4 DEF Restart, SerialInv
<1>5. ASSUME NEW r \in Requests, Conclude(r) \/ Forwarded(r) \/ Unreachable(r)
      PROVE  SerialInv'
  <2>1. pc[r] \in {"idle", "done"}
    BY <1>5, NobodyInside DEF Conclude, Forwarded, Unreachable, Done
  <2>2. at' = [at EXCEPT ![r] = at'[r]] /\ at'[r] # "verifying"
    BY <1>0, <1>5 DEF Conclude, Forwarded, Unreachable, Respond, Enter
  <2>3. at'[r] \notin {"new", "oracle"}
    BY <1>0, <1>5 DEF Conclude, Forwarded, Unreachable, Respond, Enter
  <2> QED
    BY <1>0, <1>1, <1>5, <2>1, <2>2, <2>3, QuietSteps
<1>6. ASSUME NEW r \in Requests, NEW e \in Envelopes, Arrive(r, e) PROVE SerialInv'
  <2>1. CASE UNCHANGED verifyVars
    <3>1. pc[r] = "idle" /\ UNCHANGED <<pc, verdict>>
      BY <1>6, <2>1, ArriveMeans DEF SerialInv, verifyVars, requestVars
    <3>2. CASE Verify(r, e, keys[e.of.agent], TRUE) /\ keys[e.of.agent] \in Keys
      BY <1>2, <1>6, <3>2, ArriveMeans
    <3>3. CASE at' = [at EXCEPT ![r] = at'[r]] /\ at'[r] \in {"oracle", "answered"}
      BY <1>0, <1>1, <3>1, <3>3
    <3> QED
      BY <1>6, <3>2, <3>3, ArriveMeans
  <2> QED
    BY <1>2, <1>6, <2>1, ArriveMeans
<1>7. ASSUME NEW r \in Requests, Resume(r) PROVE SerialInv'
  BY <1>2, <1>7, ResumeMeans
<1>8. ASSUME NEW r \in Requests, Proceed(r) PROVE SerialInv'
  <2>1. at' = at /\ Step(r)
    BY <1>8 DEF Proceed, handlerVars
  <2>2. Succeed(r) => pc'[r] = "done"
    BY <1>0 DEF Succeed, Goto
  <2>3. verdict[r] # "allow"
    BY <1>0, <2>1, StepMovesOne DEF SerialInv
  <2> QED
    BY <1>0, <2>1, <2>2, <2>3, StepMovesOne DEF SerialInv
<1> QED
  BY <1>3, <1>4, <1>5, <1>6, <1>7, <1>8 DEF GatewayNext, RegisterAttestation

LEMMA KeyStep ==
  ASSUME GatewayTypeOK, SerialInv, KeyInv, [GatewayNext]_gatewayVars
  PROVE  KeyInv'
<1>0. /\ TypeOK /\ at \in [Requests -> Places] /\ keys \in [Agents -> Keys \cup {NoKey}]
      /\ env \in [Requests -> Envelopes] /\ key \in [Requests -> Keys \cup {NoKey}]
      /\ pc \in [Requests -> PCs] /\ verdict \in [Requests -> Verdicts]
  BY DEF GatewayTypeOK, TypeOK, VerifyTypeOK
<1>1. ASSUME UNCHANGED <<pc, verdict, env, key, keys>>,
             \A q \in Requests : at'[q] = "oracle" => at[q] = "oracle"
      PROVE  KeyInv'
  BY <1>1 DEF KeyInv
<1>2. ASSUME NEW r \in Requests, NEW e \in Envelopes, NEW k \in Keys,
             NEW observed \in BOOLEAN, ~Busy, Verify(r, e, k, observed),
             env' = [env EXCEPT ![r] = e], key' = [key EXCEPT ![r] = k],
             k = keys[e.of.agent], UNCHANGED keys
      PROVE  KeyInv'
  <2>1. \A q \in Requests \ {r} :
           /\ at'[q] = at[q] /\ pc'[q] = pc[q] /\ verdict'[q] = verdict[q]
           /\ env'[q] = env[q] /\ key'[q] = key[q]
    BY <1>0, <1>2, VerifyEnters
  <2>2. k # NoKey /\ pc[r] = "idle" /\ verdict[r] # "allow"
    BY <1>2, GatewayAssumption, VerifyEnters DEF SerialInv
  <2>3. env'[r] = e /\ key'[r] = k /\ verdict'[r] # "allow"
    BY <1>0, <1>2, <2>2, VerifyEnters
  <2> QED
    BY <1>2, <2>1, <2>2, <2>3, VerifyEnters DEF KeyInv
<1>3. CASE \/ TimePasses \/ RegisterAttestation \/ UNCHANGED gatewayVars
           \/ \E s \in Targets : CreateRevocation(s) \/ DeleteRevocation(s)
           \/ \E r \in Requests : Deal(r)
  <2>1. UNCHANGED <<at, env, key, keys>>
    BY <1>3
       DEF TimePasses, CreateRevocation, DeleteRevocation, Administer, Deal,
           RegisterAttestation, RegisterFramework, RegisterHashes, handlerVars,
           registryVars, gatewayVars
  <2> QED
    BY <1>1, <1>3, <2>1, QuietSteps
<1>4. CASE Restart
  BY <1>4 DEF Restart, KeyInv
<1>5. ASSUME NEW r \in Requests, Conclude(r) \/ Forwarded(r) \/ Unreachable(r)
      PROVE  KeyInv'
  <2>1. at' = [at EXCEPT ![r] = at'[r]] /\ at'[r] # "oracle"
    BY <1>0, <1>5 DEF Conclude, Forwarded, Unreachable, Respond, Enter
  <2>2. UNCHANGED <<env, key, keys>>
    BY <1>5 DEF Conclude, Forwarded, Unreachable, registryVars
  <2> QED
    BY <1>0, <1>1, <1>5, <2>1, <2>2, QuietSteps
<1>6. ASSUME NEW a \in Agents, NEW k \in Keys, Register(a, k) PROVE KeyInv'
  <2>1. \A b \in Agents : keys[b] # NoKey => keys'[b] = keys[b]
    BY <1>0, <1>6 DEF Register
  <2>2. \A q \in Requests : env[q].of.agent \in Agents
    BY <1>0, EnvelopeFields
  <2> QED
    BY <1>6, <2>1, <2>2, QuietSteps DEF Register, handlerVars, KeyInv
<1>7. ASSUME NEW r \in Requests, NEW e \in Envelopes, Arrive(r, e) PROVE KeyInv'
  <2>1. CASE UNCHANGED verifyVars
    <3>1. /\ pc[r] = "idle" /\ verdict[r] # "allow" /\ UNCHANGED <<pc, verdict, keys>>
          /\ env' = [env EXCEPT ![r] = e] /\ key' = [key EXCEPT ![r] = keys[e.of.agent]]
      BY <1>7, <2>1, ArriveMeans DEF SerialInv, verifyVars, requestVars
    <3>2. CASE Verify(r, e, keys[e.of.agent], TRUE) /\ keys[e.of.agent] \in Keys
      BY <1>2, <1>7, <3>2, ArriveMeans
    <3>3. CASE /\ at' = [at EXCEPT ![r] = at'[r]]
               /\ \/ at'[r] = "oracle" /\ keys[e.of.agent] # NoKey
                  \/ at'[r] = "answered"
      <4>1. KeyInv!(r)'
        BY <1>0, <3>1, <3>3
      <4>2. ASSUME NEW q \in Requests, q # r PROVE KeyInv!(q)'
        <5>1. /\ at'[q] = at[q] /\ env'[q] = env[q] /\ key'[q] = key[q]
              /\ UNCHANGED <<pc, verdict, keys>>
          BY <1>0, <3>1, <3>3, <4>2
        <5> QED
          BY <5>1 DEF KeyInv
      <4> QED
        BY <4>1, <4>2 DEF KeyInv
    <3> QED
      BY <1>7, <3>2, <3>3, ArriveMeans
  <2> QED
    BY <1>2, <1>7, <2>1, ArriveMeans
<1>8. ASSUME NEW r \in Requests, Resume(r) PROVE KeyInv'
  <2>1. /\ env' = [env EXCEPT ![r] = env[r]] /\ key' = [key EXCEPT ![r] = key[r]]
        /\ key[r] = keys[env[r].of.agent]
    BY <1>0, <1>8, ResumeMeans DEF KeyInv
  <2> QED
    BY <1>2, <1>8, <2>1, ResumeMeans
<1>9. ASSUME NEW r \in Requests, Proceed(r) PROVE KeyInv'
  <2>1. UNCHANGED <<at, env, key, keys>> /\ Step(r)
    BY <1>9 DEF Proceed, handlerVars, registryVars
  <2> QED
    BY <1>0, <2>1, StepMovesOne DEF KeyInv
<1> QED
  BY <1>3, <1>4, <1>5, <1>6, <1>7, <1>8, <1>9 DEF GatewayNext, RegisterAttestation

-----------------------------------------------------------------------------
(* Orders.                                                                 *)

(* Reading a record and letting time pass bar nobody.                      *)
LEMMA NobodyBarred ==
  ASSUME StoreTypeOK, clock \in Nat, clock' \in {clock, clock + 1},
         records' = records \/ \E t \in Subjects : records' = DropLapsed(t),
         NEW s \in Subjects, ~Live(s)
  PROVE  ~Live(s)'
<1>0. records \in [Subjects -> Standing]
  BY DEF StoreTypeOK
<1>1. records'[s] = records[s] \/ records'[s] = Unrecorded
  BY <1>0 DEF DropLapsed
<1>2. records'[s] = Unrecorded => ~Live(s)'
  BY DEF Live, Unrecorded
<1>3. CASE records'[s] = records[s]
  <2>1. records[s].until \in Nat
    BY <1>0 DEF Standing
  <2> QED
    BY <1>3, <2>1 DEF Live, Lapsed
<1> QED
  BY <1>1, <1>2, <1>3

LEMMA StepReadsRecords ==
  ASSUME TypeOK, NEW r \in Requests, Step(r)
  PROVE  records' = records \/ \E t \in Subjects : records' = DropLapsed(t)
<1>0. StoreTypeOK /\ VerifyTypeOK
  BY DEF TypeOK
<1>1. CASE CheckAgent(r) \/ CheckSuspended(r)
  BY <1>0, <1>1, CallFields DEF CheckAgent, CheckSuspended, ReadStanding
<1>2. CASE CheckIssuer(r)
  <2>1. CASE call[r].issuer \in Subjects
    BY <1>2, <2>1 DEF CheckIssuer, ReadStanding
  <2>2. CASE call[r].issuer \notin Subjects
    BY <1>0, <1>2, <2>2 DEF CheckIssuer, ReadStanding, DropLapsed, StoreTypeOK
  <2> QED
    BY <2>1, <2>2
<1>3. CASE SpendNonceOf(r)
  BY <1>3 DEF SpendNonceOf, CheckNonce
<1>4. CASE \/ Attest(r) \/ Depth(r) \/ Reserve(r) \/ Violation(r) \/ Freshness(r)
           \/ CheckTrust(r) \/ Release(r) \/ RecordFailure(r) \/ Succeed(r)
  BY <1>4
     DEF Attest, Depth, Reserve, Violation, Freshness, CheckTrust, Release,
         RecordFailure, Succeed, storeVars
<1> QED
  BY <1>1, <1>2, <1>3, <1>4 DEF Step

(* A step of r that brings it past a look-up found nobody.                 *)
LEMMA OwnStepClear ==
  ASSUME GatewayTypeOK, ClearInv, NEW r \in Requests, Step(r)
  PROVE  ClearInv!(r)'
<1>0. TypeOK /\ VerifyTypeOK /\ StoreTypeOK /\ clock \in Nat /\ UNCHANGED <<clock, call>>
  BY StepMovesOne, ClockAssumption DEF GatewayTypeOK, TypeOK, ClockTypeOK
<1>1. \A s \in Subjects : ~Live(s) => ~Live(s)'
  BY <1>0, StepReadsRecords, NobodyBarred
<1>2. call[r].agent \in Subjects /\ call'[r] = call[r]
  BY <1>0, CallFields
<1>3. CASE CheckAgent(r)
  <2>1. CASE Live(call[r].agent)
    BY <1>0, <1>3, <2>1 DEF CheckAgent, Goto, VerifyTypeOK
  <2>2. CASE ~Live(call[r].agent) /\ call[r].issuer # NoIssuer
    <3>1. pc'[r] = "issuer"
      BY <1>0, <1>3, <2>2 DEF CheckAgent, Goto, VerifyTypeOK
    <3> QED
      BY <1>1, <1>2, <2>2, <3>1
  <2>3. CASE ~Live(call[r].agent) /\ call[r].issuer = NoIssuer
    BY <1>1, <1>2, <2>3, VerifyAssumption
  <2> QED
    BY <2>1, <2>2, <2>3
<1>4. CASE CheckIssuer(r)
  <2>1. CASE Live(call[r].issuer)
    BY <1>0, <1>4, <2>1 DEF CheckIssuer, FailAuthenticated, Goto, VerifyTypeOK
  <2>2. CASE ~Live(call[r].issuer)
    BY <1>1, <1>2, <1>4, <2>2 DEF CheckIssuer, ClearInv
  <2> QED
    BY <2>1, <2>2
<1>5. CASE CheckTrust(r)
  BY <1>1, <1>2, <1>5 DEF CheckTrust, ClearInv
<1>6. CASE \/ Attest(r) \/ Depth(r) \/ SpendNonceOf(r) \/ Reserve(r) \/ Violation(r)
           \/ Freshness(r) \/ CheckSuspended(r) \/ Release(r) \/ RecordFailure(r)
           \/ Succeed(r)
  BY <1>0, <1>6
     DEF VerifyTypeOK, Attest, Depth, SpendNonceOf, Reserve, Violation, Freshness,
         CheckSuspended, Release, RecordFailure, Succeed, Goto, FailAuthenticated
<1> QED
  BY <1>3, <1>4, <1>5, <1>6 DEF Step

LEMMA ClearStep ==
  ASSUME GatewayTypeOK, SerialInv, KeyInv, ClearInv, [GatewayNext]_gatewayVars
  PROVE  ClearInv'
<1>0. /\ TypeOK /\ VerifyTypeOK /\ StoreTypeOK /\ clock \in Nat
      /\ pc \in [Requests -> PCs]
  BY ClockAssumption DEF GatewayTypeOK, TypeOK, ClockTypeOK, VerifyTypeOK
<1>1. ASSUME UNCHANGED <<pc, call, records>>, clock' \in {clock, clock + 1}
      PROVE  ClearInv'
  <2>1. \A s \in Subjects : ~Live(s) => ~Live(s)'
    BY <1>0, <1>1, NobodyBarred
  <2>2. \A r \in Requests : call[r].agent \in Subjects
    BY <1>0, CallFields
  <2> QED
    BY <1>1, <2>1, <2>2 DEF ClearInv
<1>2. ASSUME \A q \in Requests : pc'[q] \in {"idle", "attest", "done"} PROVE ClearInv'
  BY <1>2 DEF ClearInv
<1>3. ASSUME NEW r \in Requests, NEW e \in Envelopes, NEW k \in Keys,
             NEW observed \in BOOLEAN, ~Busy, Verify(r, e, k, observed)
      PROVE  ClearInv'
  BY <1>0, <1>2, <1>3, NobodyInside, VerifyEnters
<1>4. CASE \/ TimePasses \/ RegisterAttestation \/ UNCHANGED gatewayVars
           \/ \E a \in Agents, k \in Keys : Register(a, k)
           \/ \E r \in Requests :
                Conclude(r) \/ Deal(r) \/ Forwarded(r) \/ Unreachable(r)
  <2>1. records' = records /\ clock' \in {clock, clock + 1}
    BY <1>4
       DEF TimePasses, Pass, Tick, Register, Conclude, Deal, Forwarded, Unreachable,
           RegisterAttestation, RegisterFramework, RegisterHashes, Administer,
           gatewayVars, verifyVars, storeVars
  <2> QED
    BY <1>1, <1>4, <2>1, QuietSteps
<1>5. ASSUME NEW s \in Targets, CreateRevocation(s) \/ DeleteRevocation(s)
      PROVE  ClearInv'
  <2>1. ~Busy
    BY <1>5 DEF CreateRevocation, DeleteRevocation, Administer
  <2> QED
    BY <1>2, <1>5, <2>1, NobodyInside, QuietSteps
<1>6. CASE Restart
  BY <1>2, <1>6 DEF Restart
<1>7. ASSUME NEW r \in Requests, NEW e \in Envelopes, Arrive(r, e) PROVE ClearInv'
  <2>1. CASE UNCHANGED verifyVars
    BY <1>1, <2>1 DEF verifyVars, requestVars, storeVars
  <2> QED
    BY <1>3, <1>7, <2>1, ArriveMeans
<1>8. ASSUME NEW r \in Requests, Resume(r) PROVE ClearInv'
  BY <1>3, <1>8, ResumeMeans
<1>9. ASSUME NEW r \in Requests, Proceed(r) PROVE ClearInv'
  <2>1. Step(r)
    BY <1>9 DEF Proceed
  <2>2. ASSUME NEW q \in Requests, q # r PROVE ClearInv!(q)'
    BY <1>0, <2>1, <2>2, StepMovesOne, OnlyOneInside
  <2> QED
    BY <2>1, <2>2, OwnStepClear DEF ClearInv
<1> QED
  BY <1>4, <1>5, <1>6, <1>7, <1>8, <1>9 DEF GatewayNext, RegisterAttestation

-----------------------------------------------------------------------------
(* The order of reservations.                                              *)

LEMMA ClockOrderStep ==
  ASSUME GatewayTypeOK, SerialInv, KeyInv, ClockOrderInv, [GatewayNext]_gatewayVars
  PROVE  ClockOrderInv'
<1>0. /\ TypeOK /\ clock \in Nat /\ now \in [Requests -> Nat]
      /\ pc \in [Requests -> PCs]
  BY ClockAssumption DEF GatewayTypeOK, TypeOK, ClockTypeOK, VerifyTypeOK
<1>1. ASSUME UNCHANGED <<pc, now>>, clock' \in {clock, clock + 1} PROVE ClockOrderInv'
  BY <1>0, <1>1 DEF ClockOrderInv
<1>2. ASSUME NEW r \in Requests, NEW e \in Envelopes, NEW k \in Keys,
             NEW observed \in BOOLEAN, ~Busy, Verify(r, e, k, observed)
      PROVE  ClockOrderInv'
  <2>1. /\ now' = [now EXCEPT ![r] = clock] /\ clock' = clock
        /\ pc' = [pc EXCEPT ![r] = pc'[r]]
    BY <1>2, VerifyEnters
  <2>2. \A q \in Requests : now'[q] <= clock'
    BY <1>0, <2>1 DEF ClockOrderInv
  <2>3. \A q \in Requests \ {r} : pc'[q] \in {"idle", "done"}
    BY <1>0, <1>2, <2>1, NobodyInside
  <2> QED
    BY <1>0, <2>1, <2>2, <2>3 DEF ClockOrderInv
<1>3. CASE \/ TimePasses \/ RegisterAttestation \/ UNCHANGED gatewayVars
           \/ \E a \in Agents, k \in Keys : Register(a, k)
           \/ \E s \in Targets : CreateRevocation(s) \/ DeleteRevocation(s)
           \/ \E r \in Requests :
                Conclude(r) \/ Deal(r) \/ Forwarded(r) \/ Unreachable(r)
  <2>1. clock' \in {clock, clock + 1}
    BY <1>3
       DEF TimePasses, Pass, Tick, Register, CreateRevocation, DeleteRevocation,
           RegisterAttestation, RegisterFramework, RegisterHashes, Administer, Conclude,
           Deal, Forwarded, Unreachable, gatewayVars, verifyVars
  <2> QED
    BY <1>1, <1>3, <2>1, QuietSteps
<1>4. CASE Restart
  BY <1>4 DEF Restart, ClockOrderInv
<1>5. ASSUME NEW r \in Requests, NEW e \in Envelopes, Arrive(r, e) PROVE ClockOrderInv'
  <2>1. CASE UNCHANGED verifyVars
    BY <1>1, <2>1 DEF verifyVars, requestVars
  <2> QED
    BY <1>2, <1>5, <2>1, ArriveMeans
<1>6. ASSUME NEW r \in Requests, Resume(r) PROVE ClockOrderInv'
  BY <1>2, <1>6, ResumeMeans
<1>7. ASSUME NEW r \in Requests, Proceed(r) PROVE ClockOrderInv'
  <2>1. Step(r)
    BY <1>7 DEF Proceed
  <2> QED
    BY <1>0, <2>1, StepMovesOne, OnlyOneInside DEF ClockOrderInv
<1> QED
  BY <1>3, <1>4, <1>5, <1>6, <1>7 DEF GatewayNext, RegisterAttestation

-----------------------------------------------------------------------------
(* The attestation registries.                                             *)

LEMMA AttestationPassed ==
  ASSUME VerifyTypeOK, NEW r \in Requests, MeetsMarket(r)
  PROVE  \/ \E v \in StaticSteps : FailAuthenticated(r, v)
         \/ call[r].tier = 0 \/ "attestation" \notin call[r].flaws
<1>1. CASE PassesAll(LateSteps(call[r]), call[r], now[r]) /\ call[r].tier # 0
  <2>1. call[r].tier \in {1, 2}
    BY <1>1, CallFields
  <2>2. 2 \in 1..Len(LateSteps(call[r])) /\ LateSteps(call[r])[2] = "attestation"
    BY <2>1 DEF LateSteps
  <2>3. ~Fails(call[r], "attestation", now[r])
    BY <1>1, <2>2 DEF PassesAll
  <2> QED
    BY <2>3 DEF Fails
<1> QED
  BY <1>1, LateStepsAreVerdicts DEF MeetsMarket

LEMMA OwnStepAttested ==
  ASSUME GatewayTypeOK, AttestInv, NEW r \in Requests, Step(r),
         UNCHANGED <<env, attestationVars>>
  PROVE  AttestInv!(r)'
<1>0. /\ TypeOK /\ VerifyTypeOK /\ UNCHANGED call
      /\ pc[r] \notin {"idle", "done"} /\ Attested(env[r])' = Attested(env[r])
  BY StepMovesOne DEF GatewayTypeOK, TypeOK, attestationVars, Attested
<1>1. ASSUME pc'[r] \notin {"trust", "succeed"} PROVE AttestInv!(r)'
  BY <1>0, <1>1 DEF AttestInv, attestationVars
<1>2. ASSUME MeetsMarket(r) PROVE AttestInv!(r)'
  <2>1. CASE \E v \in StaticSteps : FailAuthenticated(r, v)
    BY <1>0, <1>1, <2>1 DEF FailAuthenticated, Goto, VerifyTypeOK
  <2>2. CASE call[r].tier = 0 \/ "attestation" \notin call[r].flaws
    BY <1>0, <2>2 DEF AttestInv, attestationVars
  <2> QED
    BY <1>0, <1>2, <2>1, <2>2, AttestationPassed
<1>3. CASE CheckAgent(r) \/ CheckIssuer(r)
  <2>1. MeetsMarket(r) \/ pc'[r] \notin {"trust", "succeed"}
    BY <1>0, <1>3 DEF CheckAgent, CheckIssuer, FailAuthenticated, Goto, VerifyTypeOK
  <2> QED
    BY <1>1, <1>2, <2>1
<1>4. CASE CheckTrust(r)
  BY <1>0, <1>4 DEF CheckTrust, AttestInv, attestationVars
<1>5. CASE \/ Attest(r) \/ Depth(r) \/ SpendNonceOf(r) \/ Reserve(r) \/ Violation(r)
           \/ Freshness(r) \/ CheckSuspended(r) \/ Release(r) \/ RecordFailure(r)
           \/ Succeed(r)
  <2>1. pc'[r] \notin {"trust", "succeed"}
    BY <1>0, <1>5
       DEF VerifyTypeOK, Attest, Depth, SpendNonceOf, Reserve, Violation, Freshness,
           CheckSuspended, Release, RecordFailure, Succeed, Goto, FailAuthenticated
  <2> QED
    BY <1>1, <2>1
<1> QED
  BY <1>3, <1>4, <1>5 DEF Step

LEMMA AttestStep ==
  ASSUME GatewayTypeOK, SerialInv, KeyInv, AttestInv, [GatewayNext]_gatewayVars
  PROVE  AttestInv'
<1>0. /\ TypeOK /\ pc \in [Requests -> PCs] /\ env \in [Requests -> Envelopes]
      /\ call \in [Requests -> Calls]
  BY DEF GatewayTypeOK, TypeOK, VerifyTypeOK
<1>1. ASSUME NEW q \in Requests, pc'[q] = pc[q], call'[q] = call[q], env'[q] = env[q],
             UNCHANGED attestationVars
      PROVE  AttestInv!(q)'
  <2>1. Attested(env[q])' = Attested(env[q])
    BY <1>1 DEF Attested, attestationVars
  <2> QED
    BY <1>1, <2>1 DEF AttestInv
<1>2. ASSUME NEW q \in Requests, pc'[q] \in {"idle", "done"} PROVE AttestInv!(q)'
  BY <1>2
<1>3. ASSUME NEW r \in Requests, NEW e \in Envelopes, NEW k \in Keys,
             NEW observed \in BOOLEAN, ~Busy, Verify(r, e, k, observed),
             env' = [env EXCEPT ![r] = e], UNCHANGED attestationVars
      PROVE  AttestInv'
  <2>1. env'[r] = e /\ Attested(e)' = Attested(e)
    BY <1>0, <1>3 DEF Attested, attestationVars
  <2>2. AttestInv!(r)'
    BY <1>0, <1>3, <2>1, VerifyEnters DEF AttestInv
  <2>3. ASSUME NEW q \in Requests, q # r PROVE AttestInv!(q)'
    <3>1. pc'[q] = pc[q]
      BY <1>0, <1>3, <2>3, VerifyEnters
    <3> QED
      BY <1>2, <1>3, <3>1, NobodyInside
  <2> QED
    BY <2>2, <2>3 DEF AttestInv
<1>4. CASE \/ TimePasses \/ UNCHANGED gatewayVars
           \/ \E a \in Agents, k \in Keys : Register(a, k)
           \/ \E s \in Targets : CreateRevocation(s) \/ DeleteRevocation(s)
           \/ \E r \in Requests :
                Conclude(r) \/ Deal(r) \/ Forwarded(r) \/ Unreachable(r)
  <2>1. UNCHANGED <<env, attestationVars>>
    BY <1>4
       DEF TimePasses, Register, CreateRevocation, DeleteRevocation, Administer,
           Conclude, Deal, Forwarded, Unreachable, handlerVars, registryVars,
           gatewayVars
  <2> QED
    BY <1>1, <1>4, <2>1, QuietSteps DEF AttestInv
<1>5. CASE RegisterAttestation
  <2>1. ~Busy
    BY <1>5 DEF RegisterAttestation, RegisterFramework, RegisterHashes, Administer
  <2> QED
    BY <1>2, <1>5, <2>1, NobodyInside, QuietSteps DEF AttestInv
<1>6. CASE Restart
  BY <1>2, <1>6 DEF Restart, AttestInv
<1>7. ASSUME NEW r \in Requests, NEW e \in Envelopes, Arrive(r, e) PROVE AttestInv'
  <2>1. UNCHANGED attestationVars /\ env' = [env EXCEPT ![r] = e] /\ ~Busy
    BY <1>7 DEF Arrive, registryVars
  <2>2. CASE UNCHANGED verifyVars
    <3>1. UNCHANGED pc
      BY <2>2 DEF verifyVars, requestVars
    <3> QED
      BY <1>2, <2>1, <3>1, NobodyInside DEF AttestInv
  <2> QED
    BY <1>3, <1>7, <2>1, <2>2, ArriveMeans
<1>8. ASSUME NEW r \in Requests, Resume(r) PROVE AttestInv'
  <2>1. UNCHANGED attestationVars /\ env' = [env EXCEPT ![r] = env[r]]
    BY <1>0, <1>8 DEF Resume, registryVars
  <2> QED
    BY <1>3, <1>8, <2>1, ResumeMeans
<1>9. ASSUME NEW r \in Requests, Proceed(r) PROVE AttestInv'
  <2>1. Step(r) /\ UNCHANGED <<env, attestationVars>>
    BY <1>9 DEF Proceed, handlerVars, registryVars
  <2>2. ASSUME NEW q \in Requests, q # r PROVE AttestInv!(q)'
    <3>1. pc'[q] = pc[q] /\ UNCHANGED call
      BY <1>0, <2>1, <2>2, StepMovesOne
    <3> QED
      BY <1>1, <2>1, <3>1
  <2> QED
    BY <2>1, <2>2, OwnStepAttested DEF AttestInv
<1> QED
  BY <1>4, <1>5, <1>6, <1>7, <1>8, <1>9 DEF GatewayNext, RegisterAttestation

-----------------------------------------------------------------------------
(* The theorems.                                                           *)

LEMMA GatewayInitially ==
  ASSUME GatewayInit
  PROVE  GatewayInv
<1>1. TypeOK
  BY InitialTypes, VerifyAssumption DEF GatewayInit
<1>2. GatewayTypeOK
  BY <1>1, GatewayAssumption DEF GatewayInit, GatewayTypeOK, Places, Answers
<1>3. SerialInv /\ KeyInv /\ ClearInv /\ AttestInv
  BY DEF GatewayInit, Init, SerialInv, KeyInv, ClearInv, AttestInv
<1>4. ClockOrderInv
  BY DEF GatewayInit, Init, ClockInit, ClockOrderInv
<1> QED
  BY <1>2, <1>3, <1>4 DEF GatewayInv

LEMMA GatewayInvStep ==
  ASSUME GatewayInv, [GatewayNext]_gatewayVars
  PROVE  GatewayInv'
  BY GatewayTypeStep, SerialStep, KeyStep, ClearStep, ClockOrderStep, AttestStep
     DEF GatewayInv

(* The strengthened invariant of the gateway holds in every reachable      *)
(* state: at most one request is inside verify_intent (post_intent).       *)
THEOREM GatewayInvariant == GatewaySpec => []GatewayInv
<1>1. GatewayInit => GatewayInv
  BY GatewayInitially, GatewayAssumption
<1>2. GatewayInv /\ [GatewayNext]_gatewayVars => GatewayInv'
  BY GatewayInvStep
<1> QED
  BY <1>1, <1>2, PTL DEF GatewaySpec

(* Every variable of the gateway keeps its type (post_intent and the admin *)
(* routes), whatever clients and operators do.                             *)
THEOREM GatewayTypeCorrect == GatewaySpec => []GatewayTypeOK
<1>1. GatewayInv => GatewayTypeOK
  BY DEF GatewayInv
<1> QED
  BY <1>1, GatewayInvariant, PTL

(* No request is allowed under a key that is not its agent's registered    *)
(* one now (post_intent, AgentKeyRegistry.register).                       *)
THEOREM KeyStaysRegistered == GatewaySpec => []VerifiedUnderRegisteredKey
<1>1. GatewayInv => VerifiedUnderRegisteredKey
  BY DEF GatewayInv, SerialInv, KeyInv, VerifiedUnderRegisteredKey, Allowed, Done
<1> QED
  BY <1>1, GatewayInvariant, PTL

(* Requests reach the ledger in the order in which they read the clock     *)
(* (post_intent, reserve_amount).                                          *)
THEOREM ReservationsInOrder == GatewaySpec => []ReservesInClockOrder
<1>1. GatewayInv => ReservesInClockOrder
  BY DEF GatewayInv, ClockOrderInv, ReservesInClockOrder, PastReserve
<1> QED
  BY <1>1, GatewayInvariant, PTL

(* A request becomes allowed by Succeed, and by nothing else.              *)
LEMMA AllowedBySucceeding ==
  ASSUME GatewayInv, [GatewayNext]_gatewayVars,
         NEW r \in Requests, Allowed(r)', ~Allowed(r)
  PROVE  Succeed(r)
<1>0. /\ TypeOK /\ GatewayTypeOK /\ SerialInv /\ KeyInv
      /\ verdict \in [Requests -> Verdicts] /\ pc \in [Requests -> PCs]
  BY DEF GatewayInv, GatewayTypeOK, TypeOK, VerifyTypeOK
<1>1. verdict[r] # "allow"
  BY <1>0 DEF SerialInv, Allowed, Done
<1>2. verdict'[r] = "allow"
  BY DEF Allowed
<1>3. ASSUME NEW q \in Requests, NEW e \in Envelopes, NEW k \in Keys,
             NEW observed \in BOOLEAN, Verify(q, e, k, observed)
      PROVE  FALSE
  BY <1>0, <1>1, <1>2, <1>3, VerifyEnters
<1>4. ~UNCHANGED verdict
  BY <1>1, <1>2
<1>5. ~Restart
  BY <1>2 DEF Restart
<1>6. ASSUME NEW q \in Requests, NEW e \in Envelopes, Arrive(q, e) PROVE FALSE
  <2>1. ~UNCHANGED verifyVars
    BY <1>4 DEF verifyVars, requestVars
  <2>2. keys[e.of.agent] \in Keys /\ Verify(q, e, keys[e.of.agent], TRUE)
    BY <1>0, <1>6, <2>1, ArriveMeans
  <2> QED
    BY <1>3, <2>2
<1>7. ASSUME NEW q \in Requests, Resume(q) PROVE FALSE
  BY <1>0, <1>3, <1>7, ResumeMeans
<1>8. PICK q \in Requests : Proceed(q)
  BY <1>4, <1>5, <1>6, <1>7, QuietSteps DEF GatewayNext, RegisterAttestation
<1> QED
  BY <1>0, <1>1, <1>2, <1>8, StepMovesOne DEF Proceed

(* No request is allowed while its agent or its claim's issuer stands      *)
(* revoked or suspended (create_revocation, post_intent).                  *)
THEOREM OrdersTakeEffect == GatewaySpec => RevocationTakesEffect
<1> DEFINE Effect == \A r \in Requests : Allowed(r)' /\ ~Allowed(r) =>
       \A s \in Subjects \cap {call[r].agent, call[r].issuer} : ~Live(s)
<1>1. ASSUME GatewayInv, [GatewayNext]_gatewayVars PROVE Effect
  <2> TAKE r \in Requests
  <2> HAVE Allowed(r)' /\ ~Allowed(r)
  <2>1. Succeed(r) /\ ClearInv
    BY <1>1, AllowedBySucceeding DEF GatewayInv
  <2> QED
    BY <2>1 DEF Succeed, ClearInv
<1> QED
  BY <1>1, GatewayInvariant, PTL DEF GatewaySpec, RevocationTakesEffect

(* Above Tier 0 no request is allowed on an attestation that contradicts   *)
(* what is registered then (register_attestation_hash, post_intent).       *)
THEOREM RegistriesTakeEffect == GatewaySpec => AttestationTakesEffect
<1> DEFINE Effect == \A r \in Requests :
       Allowed(r)' /\ ~Allowed(r) /\ env[r].of.tier > 0 =>
         /\ env[r].byRegistry => env[r].framework \in frameworks
         /\ \A f \in Frameworks, h \in Hashes :
              env[r].framework = f /\ buildHashes[f] = h
                => env[r].of.build \in {h, NoHash}
         /\ \A h \in Hashes :
              promptHashes[env[r].of.agent] = h => env[r].of.prompt \in {h, NoHash}
<1>1. ASSUME GatewayInv, [GatewayNext]_gatewayVars PROVE Effect
  <2> TAKE r \in Requests
  <2> HAVE Allowed(r)' /\ ~Allowed(r) /\ env[r].of.tier > 0
  <2>1. pc[r] = "succeed" /\ AttestInv
    BY <1>1, AllowedBySucceeding DEF GatewayInv, Succeed
  <2>2. Attested(env[r])
    BY <2>1 DEF AttestInv
  <2>3. NoFramework \notin Frameworks /\ NoHash \notin Hashes
    BY GatewayAssumption, TrustAssumption
  <2> QED
    BY <2>2, <2>3 DEF Attested, Agree
<1> QED
  BY <1>1, GatewayInvariant, PTL DEF GatewaySpec, AttestationTakesEffect

-----------------------------------------------------------------------------
(* The ledger, at the gateway.                                             *)

(* The money of requests, at the gateway.                                  *)
MoneyInv == ReservationInv /\ ReservedInv

LEMMA MoneyStep ==
  ASSUME GatewayInv, MoneyInv, [GatewayNext]_gatewayVars
  PROVE  MoneyInv'
<1>0. TypeOK /\ SerialInv /\ GatewayTypeOK /\ KeyInv /\ VerifyTypeOK
  BY DEF GatewayInv, GatewayTypeOK, TypeOK
<1>1. ASSUME UNCHANGED <<ledger, pc, call, now, reserved, verdict>> PROVE MoneyInv'
  <2>1. \A q \in Requests : /\ Holding(q)' <=> Holding(q)
                            /\ PastReserve(q)' <=> PastReserve(q)
    BY <1>1 DEF Holding, Allowed, Done, PastReserve
  <2>2. ReservationInv'
    BY <1>1, <2>1, QuietStepAccounts DEF MoneyInv, ReservationInv
  <2> QED
    BY <1>1, <2>2 DEF MoneyInv, ReservedInv
<1>2. CASE \/ TimePasses \/ RegisterAttestation \/ UNCHANGED gatewayVars
           \/ \E a \in Agents, k \in Keys : Register(a, k)
           \/ \E s \in Targets : CreateRevocation(s) \/ DeleteRevocation(s)
           \/ \E r \in Requests :
                Conclude(r) \/ Deal(r) \/ Forwarded(r) \/ Unreachable(r)
  <2>1. UNCHANGED <<ledger, reserved>>
    BY <1>2
       DEF TimePasses, Pass, Register, CreateRevocation, DeleteRevocation, Administer,
           RecordRevocation, RegisterAttestation, RegisterFramework, RegisterHashes,
           Conclude, Deal, Forwarded, Unreachable, gatewayVars, verifyVars, requestVars,
           trustVars
  <2> QED
    BY <1>1, <1>2, <2>1, QuietSteps
<1>3. CASE Restart
  <2>1. \A q \in Requests : ~Holding(q)'
    BY <1>3 DEF Restart, Holding
  <2>2. \A a \in Agents : ledger'[a] = {}
    BY <1>3 DEF Restart
  <2>3. ReservationAccounted'
    BY <2>1, <2>2 DEF ReservationAccounted
  <2> QED
    BY <1>3, <2>3 DEF Restart, MoneyInv, ReservationInv, ReservedInv
<1>4. ASSUME NEW r \in Requests, NEW e \in Envelopes, NEW k \in Keys,
             NEW observed \in BOOLEAN, Verify(r, e, k, observed)
      PROVE  MoneyInv'
  <2> DEFINE c == Verified(e, k, observed, Attested(e))
  <2>1. Attested(e) \in BOOLEAN
    BY DEF Attested
  <2>2. c \in Calls
    BY <2>1, VerifiedIsCall
  <2>3. Reject(r, c) \/ Authenticate(r, c)
    BY <1>4 DEF Verify
  <2> HIDE DEF c
  <2>4. ReservationInv' /\ reserved' = reserved
    BY <1>0, <2>2, <2>3, ReceiveAccounts DEF MoneyInv, Reject, Authenticate, Receive
  <2>5. /\ \A q \in Requests : q # r =>
             pc'[q] = pc[q] /\ verdict'[q] = verdict[q] /\ call'[q] = call[q]
        /\ pc'[r] \in {"attest", "done"} /\ verdict'[r] # "allow"
    BY <1>0, <1>4, VerifyEnters DEF VerifyTypeOK, SerialInv
  <2> QED
    BY <2>4, <2>5 DEF MoneyInv, ReservedInv
<1>5. ASSUME NEW r \in Requests, NEW e \in Envelopes, Arrive(r, e) PROVE MoneyInv'
  <2>1. CASE UNCHANGED verifyVars
    BY <1>1, <2>1 DEF verifyVars, requestVars, trustVars
  <2> QED
    BY <1>0, <1>4, <1>5, <2>1, ArriveMeans
<1>6. ASSUME NEW r \in Requests, Resume(r) PROVE MoneyInv'
  BY <1>0, <1>4, <1>6, ResumeMeans
<1>7. ASSUME NEW r \in Requests, Proceed(r) PROVE MoneyInv'
  BY <1>0, <1>7, StepAccounts, StepReserved DEF Proceed, MoneyInv
<1> QED
  BY <1>2, <1>3, <1>5, <1>6, <1>7 DEF GatewayNext, RegisterAttestation

-----------------------------------------------------------------------------
(* A day of an agent.  Who was allowed within a day may have reserved in   *)
(* any order of the tokens, and may be refused after it has reserved; what *)
(* is kept is that every set of holders within one day fits its latest.    *)

Entries(W) == {EntryOf(q) : q \in W}

Holders == {q \in Requests : Holding(q)}

InOneDay(W) == \A p, q \in W : now[p] < now[q] + Day

DayInv ==
  /\ IsFiniteSet(Holders)
  /\ \A q \in Holders : HasAmount(call[q])
  /\ \A a \in Agents : \A W \in SUBSET Holders :
       W # {} /\ InOneDay(W) /\ (\A q \in W : call[q].agent = a) => FitTheLatest(W)

(* While nobody starts to hold it is kept, whoever ceases to.              *)
LEMMA DayStays ==
  ASSUME DayInv,
         \A q \in Requests :
           Holding(q)' => Holding(q) /\ call'[q] = call[q] /\ now'[q] = now[q]
  PROVE  DayInv'
<1>1. Holders' \subseteq Holders
  BY DEF Holders
<1>2. IsFiniteSet(Holders')
  BY <1>1, FS_Subset DEF DayInv
<1>3. \A q \in Holders' : q \in Holders /\ call'[q] = call[q] /\ now'[q] = now[q]
  BY DEF Holders
<1>4. ASSUME NEW a \in Agents, NEW W \in SUBSET Holders',
             W # {}, InOneDay(W)', \A q \in W : call'[q].agent = a
      PROVE  FitTheLatest(W)'
  <2>1. \A q \in W : /\ q \in Holders /\ call'[q] = call[q] /\ now'[q] = now[q]
                     /\ EntryOf(q)' = EntryOf(q)
    BY <1>3 DEF EntryOf
  <2>2. FitTheLatest(W)
    <3>1. W \in SUBSET Holders /\ InOneDay(W) /\ \A q \in W : call[q].agent = a
      BY <1>4, <2>1 DEF InOneDay
    <3> QED
      BY <1>4, <3>1 DEF DayInv
  <2>3. {EntryOf(q) : q \in W}' = {EntryOf(q) : q \in W}
    BY <2>1
  <2>4. PICK q \in W :
          /\ \A p \in W : now[p] <= now[q]
          /\ call[q].perDay = 0 \/ Total({EntryOf(p) : p \in W}) <= call[q].perDay
    BY <2>2 DEF FitTheLatest
  <2>5. /\ \A p \in W : now'[p] <= now'[q]
        /\ call'[q].perDay = 0 \/ Total({EntryOf(p) : p \in W}') <= call'[q].perDay
    BY <2>1, <2>3, <2>4
  <2> QED
    BY <2>5 DEF FitTheLatest
<1> QED
  BY <1>2, <1>3, <1>4 DEF DayInv

(* Entries of holders have an amount, and are finitely many.               *)
LEMMA EntriesAreSummable ==
  ASSUME TypeOK, DayInv, NEW W, W \subseteq Holders
  PROVE  Summable(Entries(W))
<1>1. IsFiniteSet(W)
  BY FS_Subset DEF DayInv
<1>2. IsFiniteSet(Entries(W))
  <2> DEFINE f == [q \in W |-> EntryOf(q)]
  <2>1. f \in Surjection(W, Entries(W))
    BY DEF Surjection, Entries
  <2> QED
    BY <1>1, <2>1, FS_Surjection
<1>3. \A e \in Entries(W) : e.amount \in Nat
  BY CallFields DEF TypeOK, DayInv, Entries, EntryOf, Holders, HasAmount
<1> QED
  BY <1>2, <1>3 DEF Summable

(* The ledger has nothing but what holders hold.                           *)
LEMMA LedgerIsSummable ==
  ASSUME TypeOK, ReservationInv, DayInv, NEW a \in Agents
  PROVE  Summable(ledger[a])
<1>1. ledger[a] \subseteq Entries(Holders)
  BY DEF ReservationInv, ReservationAccounted, Entries, Holders
<1> QED
  BY <1>1, EntriesAreSummable, PartIsSummable

(* Step 6 on one event loop: whoever reserved within the day before is     *)
(* still on the ledger, since nobody later has pruned it.                  *)
LEMMA HoldersAreFresh ==
  ASSUME TypeOK, ReservationInv, ClockOrderInv, NEW r \in Requests, pc[r] = "reserve",
         NEW p \in Requests, Holding(p), call[p].agent = call[r].agent,
         now[r] < now[p] + Day
  PROVE  EntryOf(p) \in Fresh(call[r].agent, now[r]) /\ now[p] <= now[r]
<1>1. VerifyTypeOK /\ now[r] \in Nat /\ now[p] \in Nat /\ Day \in Nat
  BY CallFields, TrustAssumption DEF TypeOK
<1>2. \A q \in Requests : pc[q] # "idle" => now[q] <= now[r]
  BY DEF ClockOrderInv
<1>3. now[p] <= now[r]
  BY <1>2 DEF Holding, Allowed, Done
<1>4. ASSUME NEW q \in Requests, PastReserve(q), now[q] >= now[p] + Day PROVE FALSE
  <2>1. now[q] <= now[r] /\ now[q] \in Nat
    BY <1>1, <1>2, <1>4, CallFields DEF PastReserve
  <2> QED
    BY <1>1, <1>4, <2>1
<1>5. EntryOf(p) \in ledger[call[r].agent]
  BY <1>4 DEF ReservationInv, ReservationAccounted
<1>6. EntryOf(p).at = now[p] /\ now[p] + Day > now[r]
  BY <1>1 DEF EntryOf
<1> QED
  BY <1>3, <1>5, <1>6 DEF Fresh

(* Whoever reserves fits its own limit, together with all who reserved     *)
(* within the day before it.                                               *)
LEMMA GrantedFits ==
  ASSUME TypeOK, ReservationInv, ClockOrderInv, DayInv,
         NEW r \in Requests, pc[r] = "reserve", HasAmount(call[r]), FitsLimit(r),
         NEW W \in SUBSET (Holders \cup {r}),
         \A p \in W : call[p].agent = call[r].agent /\ now[r] < now[p] + Day
  PROVE  /\ call[r].perDay = 0 \/ Total(Entries(W)) <= call[r].perDay
         /\ \A p \in W : now[p] <= now[r]
<1> DEFINE a == call[r].agent
           kept == Fresh(a, now[r])
           x == EntryOf(r)
           E == Entries(W)
<1>1. /\ a \in Agents /\ call[r].amount \in Nat /\ x.amount = call[r].amount
      /\ call[r].perDay \in Nat /\ now[r] \in Nat
      /\ call[r].perDay = 0 \/ Total(kept) + x.amount <= call[r].perDay
  BY CallFields, VerifyAssumption DEF TypeOK, Call, EntryOf, HasAmount, FitsLimit, Fits
<1>2. Summable(kept) /\ Total(kept) \in Nat
  <2>1. Summable(ledger[a]) /\ kept \subseteq ledger[a]
    BY <1>1, LedgerIsSummable DEF Fresh
  <2> QED
    BY <2>1, PartIsSummable, TotalType
<1>3. /\ Summable(kept \cup {x})
      /\ Total(kept \cup {x}) <= Total(kept) + x.amount
  BY <1>1, <1>2, TotalWith
<1>4. ASSUME NEW p \in W PROVE EntryOf(p) \in kept \cup {x} /\ now[p] <= now[r]
  <2>1. CASE p = r
    BY <1>1, <2>1
  <2>2. CASE p # r
    BY <2>2, HoldersAreFresh DEF Holders
  <2> QED
    BY <2>1, <2>2
<1>5. E \subseteq kept \cup {x}
  BY <1>4 DEF Entries
<1> HIDE DEF a, kept, x, E
<1>6. /\ Total(E) <= Total(kept \cup {x})
      /\ Total(E) \in Nat /\ Total(kept \cup {x}) \in Nat
  BY <1>3, <1>5, PartIsSummable, TotalType, TotalOfPart
<1>7. call[r].perDay = 0 \/ Total(E) <= call[r].perDay
  BY <1>1, <1>2, <1>3, <1>6
<1> QED
  BY <1>4, <1>7 DEF E

(* What Reserve does to who holds.                                         *)
LEMMA ReserveHolds ==
  ASSUME TypeOK, ReservationInv, NEW r \in Requests, Reserve(r)
  PROVE  /\ UNCHANGED <<call, now>> /\ pc[r] = "reserve"
         /\ \A q \in Requests : q # r => pc'[q] = pc[q] /\ (Holding(q)' <=> Holding(q))
         /\ Holding(r)' => HasAmount(call[r]) /\ FitsLimit(r)
<1>1. /\ VerifyTypeOK /\ UNCHANGED <<call, now, verdict>> /\ pc[r] = "reserve"
      /\ verdict[r] # "allow"
  BY DEF TypeOK, Reserve, ReservationInv
<1>2. /\ reserved'[r] <=> HasAmount(call[r]) /\ FitsLimit(r)
      /\ \A q \in Requests : q # r => pc'[q] = pc[q] /\ reserved'[q] = reserved[q]
  BY <1>1 DEF Reserve, Goto, VerifyTypeOK
<1> QED
  BY <1>1, <1>2 DEF Holding, Allowed, Done

LEMMA ReserveKeepsDay ==
  ASSUME TypeOK, ReservationInv, ClockOrderInv, DayInv, NEW r \in Requests, Reserve(r)
  PROVE  DayInv'
<1>1. /\ UNCHANGED <<call, now>> /\ pc[r] = "reserve"
      /\ \A q \in Requests : q # r => (Holding(q)' <=> Holding(q))
      /\ Holding(r)' => HasAmount(call[r]) /\ FitsLimit(r)
  BY ReserveHolds
<1>2. CASE ~Holding(r)'
  BY <1>1, <1>2, DayStays
<1>3. CASE Holding(r)'
  <2>1. Holders' \subseteq Holders \cup {r}
    BY <1>1 DEF Holders
  <2>2. IsFiniteSet(Holders')
    <3>1. IsFiniteSet(Holders \cup {r})
      BY FS_AddElement DEF DayInv
    <3> QED
      BY <2>1, <3>1, FS_Subset
  <2>3. \A q \in Holders' : HasAmount(call'[q])
    BY <1>1, <1>3, <2>1 DEF DayInv
  <2>4. ASSUME NEW b \in Agents, NEW W \in SUBSET Holders',
               W # {}, InOneDay(W)', \A q \in W : call'[q].agent = b
        PROVE  FitTheLatest(W)'
    <3>1. InOneDay(W) /\ \A q \in W : call[q].agent = b
      BY <1>1, <2>4 DEF InOneDay
    <3>2. FitTheLatest(W) => FitTheLatest(W)'
      BY <1>1 DEF FitTheLatest, EntryOf
    <3>3. CASE r \notin W
      BY <2>1, <2>4, <3>1, <3>2, <3>3 DEF DayInv
    <3>4. CASE r \in W
      <4>1. \A p \in W : call[p].agent = call[r].agent /\ now[r] < now[p] + Day
        BY <3>1, <3>4 DEF InOneDay
      <4>2. /\ call[r].perDay = 0 \/ Total(Entries(W)) <= call[r].perDay
            /\ \A p \in W : now[p] <= now[r]
        BY <1>1, <1>3, <2>1, <4>1, GrantedFits
      <4> QED
        BY <3>2, <3>4, <4>2 DEF FitTheLatest, Entries
    <3> QED
      BY <3>3, <3>4
  <2> QED
    BY <2>2, <2>3, <2>4 DEF DayInv
<1> QED
  BY <1>2, <1>3

(* No other step of verify_intent makes anybody hold what they did not.    *)
LEMMA OnlyReserveHolds ==
  ASSUME TypeOK, ReservationInv, NEW r \in Requests, Step(r), ~Reserve(r),
         NEW q \in Requests, Holding(q)'
  PROVE  Holding(q)
<1>1. VerifyTypeOK /\ reserved' = reserved
  BY DEF TypeOK, Step, Attest, Depth, SpendNonceOf, Violation, Freshness, CheckAgent,
         CheckSuspended, CheckIssuer, CheckTrust, Release, RecordFailure, Succeed
<1>2. q # r => pc'[q] = pc[q] /\ verdict'[q] = verdict[q]
  BY <1>1, StepMovesOne DEF VerifyTypeOK
<1>3. ASSUME q = r PROVE Holding(q)
  <2>1. reserved[r] /\ PastReserve(r) /\ pc[r] \in PCs \ {"idle", "done"}
    BY <1>1, <1>3, StepMovesOne DEF Holding, ReservationInv, VerifyTypeOK
  <2>2. pc[r] # "failure"
    <3>1. ASSUME pc[r] = "failure" PROVE FALSE
      <4>1. RecordFailure(r)
        BY <3>1
           DEF Step, Attest, Depth, SpendNonceOf, Violation, Freshness, CheckAgent,
               CheckSuspended, CheckIssuer, CheckTrust, Reserve, Release, Succeed
      <4>2. pc'[r] = "done" /\ verdict'[r] # "allow"
        BY <1>1, <3>1, <4>1 DEF RecordFailure, Goto, VerifyTypeOK, ReservationInv
      <4> QED
        BY <1>3, <4>2 DEF Holding, Allowed
    <3> QED
      BY <3>1
  <2> QED
    BY <1>3, <2>1, <2>2 DEF Holding, PastReserve, PCs
<1> QED
  BY <1>1, <1>2, <1>3 DEF Holding, Allowed, Done

LEMMA DayStep ==
  ASSUME GatewayInv, MoneyInv, DayInv, [GatewayNext]_gatewayVars
  PROVE  DayInv'
<1>0. /\ TypeOK /\ SerialInv /\ GatewayTypeOK /\ KeyInv /\ VerifyTypeOK
      /\ ReservationInv /\ ClockOrderInv
  BY DEF GatewayInv, GatewayTypeOK, TypeOK, MoneyInv
<1>1. ASSUME UNCHANGED <<pc, call, now, reserved, verdict>> PROVE DayInv'
  BY <1>1, DayStays DEF Holding, Allowed, Done
<1>2. CASE \/ TimePasses \/ RegisterAttestation \/ UNCHANGED gatewayVars
           \/ \E a \in Agents, k \in Keys : Register(a, k)
           \/ \E s \in Targets : CreateRevocation(s) \/ DeleteRevocation(s)
           \/ \E r \in Requests :
                Conclude(r) \/ Deal(r) \/ Forwarded(r) \/ Unreachable(r)
  <2>1. reserved' = reserved
    BY <1>2
       DEF TimePasses, Pass, Register, CreateRevocation, DeleteRevocation, Administer,
           RegisterAttestation, RegisterFramework, RegisterHashes,
           Conclude, Deal, Forwarded, Unreachable, gatewayVars, verifyVars, requestVars
  <2> QED
    BY <1>1, <1>2, <2>1, QuietSteps
<1>3. CASE Restart
  BY <1>3, DayStays DEF Restart, Holding
<1>4. ASSUME NEW r \in Requests, NEW e \in Envelopes, NEW k \in Keys,
             NEW observed \in BOOLEAN, Verify(r, e, k, observed)
      PROVE  DayInv'
  <2>1. reserved' = reserved
    BY <1>4 DEF Verify, Reject, Authenticate, Receive
  <2>2. ~reserved[r]
    BY <1>0, <1>4, VerifyEnters DEF ReservationInv, PastReserve
  <2>3. \A q \in Requests : q # r =>
          /\ pc'[q] = pc[q] /\ verdict'[q] = verdict[q] /\ call'[q] = call[q]
          /\ now'[q] = now[q]
    BY <1>0, <1>4, VerifyEnters DEF VerifyTypeOK
  <2> QED
    BY <2>1, <2>2, <2>3, DayStays DEF Holding, Allowed, Done
<1>5. ASSUME NEW r \in Requests, NEW e \in Envelopes, Arrive(r, e) PROVE DayInv'
  <2>1. CASE UNCHANGED verifyVars
    BY <1>1, <2>1 DEF verifyVars, requestVars
  <2> QED
    BY <1>0, <1>4, <1>5, <2>1, ArriveMeans
<1>6. ASSUME NEW r \in Requests, Resume(r) PROVE DayInv'
  BY <1>0, <1>4, <1>6, ResumeMeans
<1>7. ASSUME NEW r \in Requests, Proceed(r) PROVE DayInv'
  <2>1. CASE Reserve(r)
    BY <1>0, <2>1, ReserveKeepsDay
  <2>2. CASE ~Reserve(r)
    <3>1. Step(r)
      BY <1>7 DEF Proceed
    <3>2. \A q \in Requests : Holding(q)' => Holding(q)
      BY <1>0, <2>2, <3>1, OnlyReserveHolds
    <3>3. UNCHANGED <<call, now>>
      BY <1>0, <3>1, StepMovesOne
    <3> QED
      BY <3>2, <3>3, DayStays
  <2> QED
    BY <2>1, <2>2
<1> QED
  BY <1>2, <1>3, <1>5, <1>6, <1>7 DEF GatewayNext, RegisterAttestation

LEMMA DayInitially == GatewayInit => MoneyInv /\ DayInv
<1> SUFFICES ASSUME GatewayInit PROVE MoneyInv /\ DayInv
  OBVIOUS
<1>1. /\ \A q \in Requests : ~reserved[q] /\ verdict[q] = "none" /\ pc[q] = "idle"
      /\ \A a \in Agents : ledger[a] = {}
  BY DEF GatewayInit, Init, TrustInit
<1>2. Holders = {}
  BY <1>1 DEF Holders, Holding
<1>3. DayInv
  BY <1>2, FS_EmptySet DEF DayInv
<1> QED
  BY <1>1, <1>3 DEF MoneyInv, ReservationInv, ReservationAccounted, ReservedInv, Holding

LEMMA DayInvariant == GatewaySpec => [](GatewayInv /\ MoneyInv /\ DayInv)
<1>1. GatewayInit => MoneyInv /\ DayInv
  BY DayInitially
<1>2. GatewayInv /\ MoneyInv /\ DayInv /\ [GatewayNext]_gatewayVars => MoneyInv' /\ DayInv'
  BY MoneyStep, DayStep
<1> QED
  BY <1>1, <1>2, GatewayInvariant, PTL DEF GatewaySpec

(* What an agent is allowed in a day stays within the limit it signed      *)
(* last, for any requests, amounts and limits, as long as the process      *)
(* lives (post_intent, reserve_amount).                                    *)
THEOREM DayLimitHolds == GatewaySpec => []DayNeverExceedsLimit
<1>1. ASSUME GatewayInv, MoneyInv, DayInv PROVE DayNeverExceedsLimit
  <2> SUFFICES ASSUME NEW a \in Agents, NEW t \in 0..clock, AllowedInDay(a, t) # {}
               PROVE  FitTheLatest(AllowedInDay(a, t))
    BY DEF DayNeverExceedsLimit
  <2> DEFINE W == AllowedInDay(a, t)
  <2>1. W \subseteq Holders
    BY <1>1 DEF AllowedInDay, Holders, Holding, MoneyInv, ReservedInv, Allowed
  <2>2. \A q \in W : call[q].agent = a /\ now[q] \in Nat /\ t <= now[q] /\ now[q] < t + Day
    BY <1>1, CallFields DEF AllowedInDay, GatewayInv, GatewayTypeOK, TypeOK
  <2>3. t \in Nat /\ Day \in Nat
    BY TrustAssumption
  <2> HIDE DEF W
  <2>4. InOneDay(W)
    BY <2>2, <2>3 DEF InOneDay
  <2>5. W # {}
    BY DEF W
  <2>6. FitTheLatest(W)
    BY <1>1, <2>1, <2>2, <2>4, <2>5 DEF DayInv
  <2> QED
    BY <2>6 DEF W
<1> QED
  BY <1>1, DayInvariant, PTL

(* Where an agent signs one and the same limit for all its calls, no       *)
(* request allowed at the gateway brings the amounts of the day before it  *)
(* beyond it: the rolling limit of the design, which concurrent threads    *)
(* break (post_intent, reserve_amount).                                    *)
THEOREM RollingLimitOnOneLoop ==
  ASSUME \A c, d \in Calls : c.agent = d.agent => c.perDay = d.perDay
  PROVE  GatewaySpec => []RollingLimitHolds
<1>1. ASSUME GatewayInv, MoneyInv, DayInv PROVE RollingLimitHolds
  <2> SUFFICES ASSUME NEW r \in Requests, Allowed(r), HasAmount(call[r]),
                      call[r].perDay > 0
               PROVE  DaySpend(r) <= call[r].perDay
    BY DEF RollingLimitHolds
  <2> DEFINE W == {q \in Requests :
               /\ Allowed(q) /\ HasAmount(call[q]) /\ call[q].agent = call[r].agent
               /\ now[q] <= now[r] /\ now[q] + Day > now[r]}
  <2>0. VerifyTypeOK /\ Day \in Nat \ {0}
    BY <1>1, TrustAssumption DEF GatewayInv, GatewayTypeOK, TypeOK
  <2>1. \A q \in Requests : now[q] \in Nat /\ call[q] \in Calls /\ call[q].perDay \in Nat
    BY <2>0, CallFields, VerifyAssumption DEF Call
  <2>2. W \subseteq Holders
    BY <1>1 DEF Holders, Holding, MoneyInv, ReservedInv, Allowed
  <2>3. r \in W /\ call[r].agent \in Agents
    BY <2>0, <2>1, CallFields
  <2>4. InOneDay(W)
    BY <2>0, <2>1 DEF InOneDay
  <2>5. \A q \in W : call[q].agent = call[r].agent
    OBVIOUS
  <2>6. DaySpend(r) = Total({EntryOf(p) : p \in W})
    BY DEF DaySpend
  <2> HIDE DEF W
  <2>7. FitTheLatest(W)
    BY <1>1, <2>2, <2>3, <2>4, <2>5 DEF DayInv
  <2>8. PICK q \in W : call[q].perDay = 0 \/ DaySpend(r) <= call[q].perDay
    BY <2>6, <2>7 DEF FitTheLatest
  <2>9. call[q].perDay = call[r].perDay
    BY <2>1, <2>2, <2>5 DEF Holders
  <2> QED
    BY <2>1, <2>8, <2>9
<1> QED
  BY <1>1, DayInvariant, PTL

-----------------------------------------------------------------------------
(* What a step of the gateway does to verify_intent.                       *)
LEMMA GatewayMoves ==
  ASSUME GatewayInv, [GatewayNext]_gatewayVars
  PROVE  \/ Restart
         \/ /\ UNCHANGED <<pc, verdict, call, now, reserved, nonces>>
            /\ \A q \in Requests : pc[q] # "idle" => env'[q] = env[q]
         \/ \E r \in Requests, c \in Calls :
              /\ Reject(r, c) \/ Authenticate(r, c)
              /\ c.agent = env'[r].of.agent /\ UNCHANGED <<reserved, records, keys>>
              /\ \A q \in Requests : q # r => env'[q] = env[q]
         \/ \E r \in Requests : Step(r) /\ UNCHANGED <<env, keys>>
<1> DEFINE Quiet == /\ UNCHANGED <<pc, verdict, call, now, reserved, nonces>>
                    /\ \A q \in Requests : pc[q] # "idle" => env'[q] = env[q]
           Enters == \E r \in Requests, c \in Calls :
              /\ Reject(r, c) \/ Authenticate(r, c)
              /\ c.agent = env'[r].of.agent /\ UNCHANGED <<reserved, records, keys>>
              /\ \A q \in Requests : q # r => env'[q] = env[q]
           Steps == \E r \in Requests : Step(r) /\ UNCHANGED <<env, keys>>
<1>0. GatewayTypeOK /\ SerialInv /\ KeyInv /\ env \in [Requests -> Envelopes]
  BY DEF GatewayInv, GatewayTypeOK
<1>1. CASE \/ TimePasses \/ RegisterAttestation \/ UNCHANGED gatewayVars
           \/ \E a \in Agents, k \in Keys : Register(a, k)
           \/ \E s \in Targets : CreateRevocation(s) \/ DeleteRevocation(s)
           \/ \E r \in Requests :
                Conclude(r) \/ Deal(r) \/ Forwarded(r) \/ Unreachable(r)
  <2>1. UNCHANGED <<reserved, env, nonces>>
    BY <1>1
       DEF TimePasses, Pass, Register, CreateRevocation, DeleteRevocation, Administer,
           RegisterAttestation, RegisterFramework, RegisterHashes, handlerVars,
           Conclude, Deal, Forwarded, Unreachable, gatewayVars, verifyVars, requestVars,
           Revoke, Suspend, Reinstate, storeVars
  <2>2. Quiet
    BY <1>1, <2>1, QuietSteps
  <2> QED
    BY <2>2
<1>2. ASSUME NEW r \in Requests, NEW e \in Envelopes, NEW k \in Keys,
             NEW observed \in BOOLEAN, Verify(r, e, k, observed),
             env' = [env EXCEPT ![r] = e], UNCHANGED keys
      PROVE  Enters
  <2> DEFINE c == Verified(e, k, observed, Attested(e))
  <2>1. Attested(e) \in BOOLEAN
    BY DEF Attested
  <2>2. c \in Calls /\ e.of \in Call
    BY <2>1, VerifiedIsCall, EnvelopeFields
  <2>3. c.agent = e.of.agent
    BY <2>2 DEF Verified, Call
  <2>4. Reject(r, c) \/ Authenticate(r, c)
    BY <1>2 DEF Verify
  <2> HIDE DEF c
  <2>5. UNCHANGED <<reserved, records>>
    BY <2>4 DEF Reject, Authenticate, Receive, storeVars
  <2>6. env'[r] = e /\ \A q \in Requests : q # r => env'[q] = env[q]
    BY <1>0, <1>2
  <2> QED
    BY <1>2, <2>2, <2>3, <2>4, <2>5, <2>6
<1>3. ASSUME NEW r \in Requests, NEW e \in Envelopes, Arrive(r, e)
      PROVE  Quiet \/ Enters
  <2>1. CASE UNCHANGED verifyVars
    <3>1. pc[r] = "idle" /\ env' = [env EXCEPT ![r] = e]
      BY <1>0, <1>3, ArriveMeans DEF SerialInv
    <3>2. Quiet
      BY <1>0, <2>1, <3>1 DEF verifyVars, requestVars, storeVars
    <3> QED
      BY <3>2
  <2> QED
    BY <1>0, <1>2, <1>3, <2>1, ArriveMeans
<1>4. ASSUME NEW r \in Requests, Resume(r) PROVE Enters
  <2>1. env' = [env EXCEPT ![r] = env[r]]
    BY <1>0, <1>4, ResumeMeans
  <2> QED
    BY <1>0, <1>2, <1>4, <2>1, ResumeMeans
<1>5. ASSUME NEW r \in Requests, Proceed(r) PROVE Steps
  BY <1>5 DEF Proceed, handlerVars, registryVars
<1> QED
  BY <1>1, <1>3, <1>4, <1>5 DEF GatewayNext, RegisterAttestation

-----------------------------------------------------------------------------
(* Spent nonces.  A restart forgets them together with who spent them.     *)

LEMMA ClockMoves ==
  ASSUME GatewayInv, [GatewayNext]_gatewayVars
  PROVE  /\ clock \in Nat /\ clock' \in {clock, clock + 1}
         /\ clock' = clock \/ UNCHANGED records
<1>0. TypeOK /\ GatewayTypeOK /\ KeyInv /\ clock \in Nat
  BY ClockAssumption DEF GatewayInv, GatewayTypeOK, TypeOK, ClockTypeOK
<1>1. CASE \/ \E a \in Agents, k \in Keys : Register(a, k)
           \/ \E s \in Targets : CreateRevocation(s) \/ DeleteRevocation(s)
           \/ \E r \in Requests : Conclude(r) \/ Deal(r) \/ Forwarded(r) \/ Unreachable(r)
           \/ RegisterAttestation \/ TimePasses \/ Restart \/ UNCHANGED gatewayVars
  BY <1>0, <1>1
     DEF Register, CreateRevocation, DeleteRevocation, Administer, Conclude, Deal,
         Forwarded, Unreachable, RegisterAttestation, RegisterFramework, RegisterHashes,
         TimePasses, Pass, Tick, Restart, gatewayVars, verifyVars, storeVars
<1>2. ASSUME NEW r \in Requests, NEW e \in Envelopes, Arrive(r, e)
      PROVE  UNCHANGED clock
  <2>1. CASE UNCHANGED verifyVars
    BY <2>1 DEF verifyVars
  <2>2. CASE Verify(r, e, keys[e.of.agent], TRUE) /\ keys[e.of.agent] \in Keys
    BY <1>0, <2>2, VerifyEnters
  <2> QED
    BY <1>0, <1>2, <2>1, <2>2, ArriveMeans
<1>3. ASSUME NEW r \in Requests, Resume(r) PROVE UNCHANGED clock
  BY <1>0, <1>3, ResumeMeans, VerifyEnters
<1>4. ASSUME NEW r \in Requests, Proceed(r) PROVE UNCHANGED clock
  BY <1>0, <1>4, StepMovesOne DEF Proceed
<1> QED
  BY <1>0, <1>1, <1>2, <1>3, <1>4 DEF GatewayNext, RegisterAttestation

LEMMA GatewayNonceStep ==
  ASSUME GatewayInv, NonceInv, [GatewayNext]_gatewayVars
  PROVE  NonceInv'
<1>0. TypeOK /\ VerifyTypeOK
  BY DEF GatewayInv, GatewayTypeOK, TypeOK
<1>1. CASE Restart
  <2>1. /\ nonces' = <<>> /\ UNCHANGED <<clock, now>>
        /\ \A r \in Requests : pc'[r] = "idle" /\ verdict'[r] = "none"
    BY <1>1 DEF Restart
  <2>2. SpentRequests' = {}
    BY <2>1 DEF SpentRequests, SpentNonce
  <2>3. /\ IsFiniteSet(SpentRequests') /\ Cardinality(SpentRequests') = 0
        /\ Len(nonces') = 0
    BY <2>1, <2>2, FS_EmptySet
  <2>4. NonceSpentOncePerRetention'
    BY <2>1 DEF NonceSpentOncePerRetention, SpentNonce
  <2> QED
    BY <2>1, <2>2, <2>3, <2>4 DEF NonceInv
<1>2. ASSUME UNCHANGED <<pc, verdict, call, now, reserved, nonces>> PROVE NonceInv'
  <2>1. clock' \in Nat /\ clock <= clock'
    BY ClockMoves
  <2> QED
    BY <1>0, <1>2, <2>1, QuietKeepsNonces
<1> QED
  BY <1>0, <1>1, <1>2, GatewayMoves, ReceiveKeepsNonces, StepKeepsNonces

LEMMA ReceiveSpendsNothing ==
  ASSUME VerifyTypeOK, NEW r \in Requests, NEW c \in Calls,
         Reject(r, c) \/ Authenticate(r, c)
  PROVE  SpentNow' = SpentNow
<1>1. /\ pc[r] = "idle"
      /\ \A q \in Requests : q # r => pc'[q] = pc[q] /\ verdict'[q] = verdict[q]
  BY DEF Reject, Authenticate, Receive, Goto, Refuse, VerifyTypeOK
<1>2. pc'[r] = "attest" \/ verdict'[r] \in Early
  BY EarlyVerdicts DEF Reject, Authenticate, Receive, Goto, Refuse, VerifyTypeOK
<1>3. ~SpentNonce(r) /\ ~SpentNonce(r)'
  BY <1>1, <1>2 DEF SpentNonce, Early
<1> QED
  BY <1>1, <1>3 DEF SpentNow, SpentNonce

(* Who has spent a nonce stays so, and only the look-up adds to them.      *)
LEMMA SpentMoves ==
  ASSUME TypeOK, NonceInv, NEW r \in Requests, Step(r)
  PROVE  \/ SpentNow' = SpentNow
         \/ SpentNow' = SpentNow \cup {r} /\ SpendNonceOf(r)
<1>0. VerifyTypeOK
  BY DEF TypeOK
<1>1. \A q \in Requests : q # r => (SpentNonce(q)' <=> SpentNonce(q))
  BY <1>0, OthersStay, StepMoves DEF SpentNonce
<1>2. CASE SpentNonce(r)' <=> SpentNonce(r)
  BY <1>1, <1>2 DEF SpentNow
<1>3. pc[r] \notin Leaving => verdict[r] = "none"
  BY DEF NonceInv
<1>4. CASE pc[r] \notin Before
  <2>1. SpentNonce(r)' <=> SpentNonce(r)
    BY <1>0, <1>3, <1>4, LaterSteps DEF SpentNonce, Before, Unspent
  <2> QED
    BY <1>2, <2>1
<1>5. CASE Attest(r) \/ Depth(r)
  <2>1. /\ pc[r] \in Before
        /\ \/ pc'[r] \in Before
           \/ verdict'[r] = "nonce_format"
    BY <1>0, <1>5
       DEF Attest, Depth, FailAuthenticated, Goto, Refuse, VerifyTypeOK, Before
  <2>2. SpentNonce(r)' <=> SpentNonce(r)
    BY <2>1 DEF SpentNonce, Before
  <2> QED
    BY <1>2, <2>2
<1>6. CASE SpendNonceOf(r)
  <2>1. ~SpentNonce(r)
    BY <1>6 DEF SpendNonceOf, SpentNonce
  <2>2. CASE SpentNonce(r)'
    BY <1>1, <1>6, <2>2 DEF SpentNow
  <2> QED
    BY <1>2, <2>1, <2>2
<1>7. CASE pc[r] \in Before
  BY <1>5, <1>6, <1>7
     DEF Step, Reserve, Violation, Freshness, CheckAgent, CheckSuspended, CheckIssuer,
         CheckTrust, Release, RecordFailure, Succeed, Before
<1> QED
  BY <1>4, <1>7

LEMMA GatewayStartsUnspent ==
  ASSUME GatewayInit
  PROVE  NonceInv
<1>1. /\ nonces = <<>> /\ \A r \in Requests : now[r] <= clock
      /\ \A r \in Requests : pc[r] = "idle" /\ verdict[r] = "none"
  BY ClockAssumption DEF GatewayInit, Init, StoreInit, ClockInit
<1> QED
  BY <1>1, NoNoncesYet

LEMMA GatewayNonceInvariant == GatewaySpec => [](GatewayInv /\ NonceInv)
  BY GatewayStartsUnspent, GatewayNonceStep, GatewayInvariant, PTL DEF GatewaySpec

(* In one life of the gateway's process a nonce is told to be new to one   *)
(* request per retention period, for any clients, orders and time-outs     *)
(* (post_intent, check_nonce).                                             *)
THEOREM NonceSpentOnceAtGateway == GatewaySpec => []NonceSpentOncePerRetention
<1>1. NonceInv => NonceSpentOncePerRetention
  BY DEF NonceInv
<1> QED
  BY <1>1, GatewayNonceInvariant, PTL

-----------------------------------------------------------------------------
(* The promise.  A grant is a request that becomes allowed; what module    *)
(* Mandate asks of it is known when it gets there: that its call is the    *)
(* one its envelope stands for, that it has passed every step its tier     *)
(* asks for, and that it fits its own day.                                 *)

AgentInv == \A r \in Requests : pc[r] # "idle" => call[r].agent = env[r].of.agent

DayOf(r) ==
  {q \in Holders : call[q].agent = call[r].agent /\ now[r] < now[q] + Day}

(* Whoever is still deciding fits its limit, with the day before it.       *)
OwnDayInv ==
  \A r \in Requests : Holding(r) /\ pc[r] # "done" =>
    call[r].perDay = 0 \/ Total(Entries(DayOf(r))) <= call[r].perDay

PromiseInv == NonceInv /\ MoneyInv /\ DayInv /\ OrderInv /\ AgentInv /\ OwnDayInv

LEMMA AgentStep ==
  ASSUME GatewayInv, AgentInv, [GatewayNext]_gatewayVars
  PROVE  AgentInv'
<1>0. TypeOK /\ VerifyTypeOK
  BY DEF GatewayInv, GatewayTypeOK, TypeOK
<1>1. CASE Restart
  BY <1>1 DEF Restart, AgentInv
<1>2. ASSUME NEW r \in Requests, NEW c \in Calls, Reject(r, c) \/ Authenticate(r, c),
             c.agent = env'[r].of.agent,
             \A q \in Requests : q # r => env'[q] = env[q]
      PROVE  AgentInv'
  <2>1. call' = [call EXCEPT ![r] = c] /\ \A q \in Requests : q # r => pc'[q] = pc[q]
    BY <1>0, <1>2 DEF Reject, Authenticate, Receive, Goto, VerifyTypeOK
  <2> QED
    BY <1>0, <1>2, <2>1 DEF AgentInv, VerifyTypeOK
<1>3. ASSUME NEW r \in Requests, Step(r), UNCHANGED <<env, keys>> PROVE AgentInv'
  <2>1. UNCHANGED call /\ \A q \in Requests : pc'[q] # "idle" => pc[q] # "idle"
    BY <1>0, <1>3, StepMovesOne DEF VerifyTypeOK
  <2> QED
    BY <1>3, <2>1 DEF AgentInv
<1>4. CASE /\ UNCHANGED <<pc, verdict, call, now, reserved>>
           /\ \A q \in Requests : pc[q] # "idle" => env'[q] = env[q]
  BY <1>4 DEF AgentInv
<1> QED
  BY <1>1, <1>2, <1>3, <1>4, GatewayMoves

LEMMA GatewayOrderStep ==
  ASSUME GatewayInv, OrderInv, [GatewayNext]_gatewayVars
  PROVE  OrderInv'
<1>0. TypeOK /\ VerifyTypeOK
  BY DEF GatewayInv, GatewayTypeOK, TypeOK
<1>1. CASE Restart
  BY <1>1 DEF Restart, OrderInv, InOrder
<1>2. ASSUME NEW q \in Requests, pc'[q] = pc[q], verdict'[q] = verdict[q],
             call'[q] = call[q], now'[q] = now[q]
      PROVE  InOrder(q)'
  <2>1. InOrder(q)
    BY DEF OrderInv
  <2> QED
    BY <1>2, <2>1 DEF InOrder, RefusedInOrder, Clean
<1>3. ASSUME NEW r \in Requests, NEW c \in Calls, Reject(r, c) \/ Authenticate(r, c)
      PROVE  OrderInv'
  <2>1. \A q \in Requests : q # r =>
          /\ pc'[q] = pc[q] /\ verdict'[q] = verdict[q]
          /\ call'[q] = call[q] /\ now'[q] = now[q]
    BY <1>0, <1>3 DEF Reject, Authenticate, Receive, Goto, Refuse, VerifyTypeOK
  <2> QED
    BY <1>0, <1>2, <1>3, <2>1, ReceiveInOrder DEF OrderInv
<1>4. ASSUME NEW r \in Requests, Step(r) PROVE OrderInv'
  <2>1. \A q \in Requests : q # r =>
          /\ pc'[q] = pc[q] /\ verdict'[q] = verdict[q]
          /\ call'[q] = call[q] /\ now'[q] = now[q]
    BY <1>0, <1>4, OthersStay, StepMoves
  <2> QED
    BY <1>0, <1>2, <1>4, <2>1, StepInOrder DEF OrderInv
<1>5. CASE UNCHANGED <<pc, verdict, call, now, reserved>>
  BY <1>2, <1>5 DEF OrderInv
<1> QED
  BY <1>1, <1>3, <1>4, <1>5, GatewayMoves

(* While nobody starts to hold, nobody's day grows.                        *)
LEMMA OwnDayStays ==
  ASSUME GatewayInv, DayInv, OwnDayInv,
         \A q \in Requests :
           /\ Holding(q)' => Holding(q) /\ call'[q] = call[q] /\ now'[q] = now[q]
           /\ Holding(q)' /\ pc'[q] # "done" => pc[q] # "done"
  PROVE  OwnDayInv'
<1> SUFFICES ASSUME NEW r \in Requests, Holding(r)', pc'[r] # "done"
             PROVE  call'[r].perDay = 0 \/ Total(Entries(DayOf(r))') <= call'[r].perDay
  BY DEF OwnDayInv
<1> DEFINE D == Entries(DayOf(r))
           E == Entries(DayOf(r))'
<1>1. \A q \in Holders' : q \in Holders /\ call'[q] = call[q] /\ now'[q] = now[q]
                          /\ EntryOf(q)' = EntryOf(q)
  BY DEF Holders, EntryOf
<1>2. r \in Holders' /\ pc[r] # "done" /\ call'[r] = call[r] /\ now'[r] = now[r]
  BY DEF Holders
<1>3. E \subseteq D
  BY <1>1, <1>2 DEF Entries, DayOf
<1>4. Summable(D)
  <2>1. DayOf(r) \subseteq Holders
    BY DEF DayOf
  <2> QED
    BY <2>1, EntriesAreSummable DEF GatewayInv, GatewayTypeOK
<1> HIDE DEF D, E
<1>5. Total(E) <= Total(D) /\ Total(E) \in Nat /\ Total(D) \in Nat
  BY <1>3, <1>4, PartIsSummable, TotalType, TotalOfPart
<1>6. call[r].perDay \in Nat
  BY CallFields, VerifyAssumption DEF GatewayInv, GatewayTypeOK, TypeOK, Call
<1>7. call[r].perDay = 0 \/ Total(D) <= call[r].perDay
  BY <1>1, <1>2 DEF OwnDayInv, Holders, D
<1>8. call[r].perDay = 0 \/ Total(E) <= call[r].perDay
  BY <1>5, <1>6, <1>7
<1> QED
  BY <1>2, <1>8 DEF E

LEMMA OwnDayStep ==
  ASSUME GatewayInv, MoneyInv, DayInv, OwnDayInv, [GatewayNext]_gatewayVars
  PROVE  OwnDayInv'
<1>0. /\ TypeOK /\ VerifyTypeOK /\ ReservationInv /\ ClockOrderInv /\ SerialInv
  BY DEF GatewayInv, GatewayTypeOK, TypeOK, MoneyInv
<1>1. CASE Restart
  BY <1>1, OwnDayStays DEF Restart, Holding
<1>2. CASE UNCHANGED <<pc, verdict, call, now, reserved>>
  BY <1>2, OwnDayStays DEF Holding, Allowed, Done
<1>3. ASSUME NEW r \in Requests, NEW c \in Calls, Reject(r, c) \/ Authenticate(r, c),
             UNCHANGED reserved
      PROVE  OwnDayInv'
  <2>1. /\ ~reserved[r]
        /\ \A q \in Requests : q # r =>
             /\ pc'[q] = pc[q] /\ verdict'[q] = verdict[q]
             /\ call'[q] = call[q] /\ now'[q] = now[q]
    BY <1>0, <1>3
       DEF Reject, Authenticate, Receive, Goto, Refuse, VerifyTypeOK, ReservationInv,
           PastReserve
  <2> QED
    BY <1>3, <2>1, OwnDayStays DEF Holding, Allowed, Done
<1>4. ASSUME NEW r \in Requests, Step(r), ~Reserve(r) PROVE OwnDayInv'
  <2>1. \A q \in Requests : Holding(q)' => Holding(q)
    BY <1>0, <1>4, OnlyReserveHolds
  <2>2. /\ UNCHANGED <<call, now>> /\ pc[r] # "done"
        /\ \A q \in Requests : q # r => pc'[q] = pc[q]
    BY <1>0, <1>4, StepMovesOne DEF VerifyTypeOK
  <2> QED
    BY <2>1, <2>2, OwnDayStays
<1>5. ASSUME NEW r \in Requests, Step(r), Reserve(r) PROVE OwnDayInv'
  <2>1. /\ UNCHANGED <<call, now>> /\ pc[r] = "reserve"
        /\ \A q \in Requests : q # r => pc'[q] = pc[q] /\ (Holding(q)' <=> Holding(q))
        /\ Holding(r)' => HasAmount(call[r]) /\ FitsLimit(r)
    BY <1>0, <1>5, ReserveHolds
  <2>2. ASSUME NEW q \in Requests, Holding(q)', pc'[q] # "done" PROVE q = r
    <3>1. pc[q] \in {"idle", "done"} => ~Holding(q) \/ pc[q] = "done"
      BY DEF Holding, Allowed, Done
    <3> QED
      BY <1>0, <1>5, <2>1, <2>2, <3>1, OnlyOneInside
  <2>3. ASSUME Holding(r)'
        PROVE  call'[r].perDay = 0 \/ Total(Entries(DayOf(r))') <= call'[r].perDay
    <3> DEFINE W == DayOf(r)'
    <3>1. W \subseteq Holders \cup {r}
      BY <2>1 DEF DayOf, Holders
    <3>2. \A p \in W : call[p].agent = call[r].agent /\ now[r] < now[p] + Day
      BY <2>1 DEF DayOf
    <3>3. Entries(DayOf(r))' = Entries(W)
      BY <2>1 DEF Entries, EntryOf
    <3> HIDE DEF W
    <3>4. call[r].perDay = 0 \/ Total(Entries(W)) <= call[r].perDay
      BY <1>0, <2>1, <2>3, <3>1, <3>2, GrantedFits
    <3> QED
      BY <2>1, <3>3, <3>4
  <2> QED
    BY <2>2, <2>3 DEF OwnDayInv
<1> QED
  BY <1>1, <1>2, <1>3, <1>4, <1>5, GatewayMoves

(* Whoever is inside, or has left, keeps what it is judged by.             *)
LEMMA InsideStays ==
  ASSUME GatewayInv, [GatewayNext]_gatewayVars, ~Restart,
         NEW q \in Requests, pc[q] # "idle"
  PROVE  /\ call'[q] = call[q] /\ now'[q] = now[q] /\ env'[q] = env[q]
         /\ Allowed(q) => Allowed(q)'
<1>0. TypeOK /\ VerifyTypeOK
  BY DEF GatewayInv, GatewayTypeOK, TypeOK
<1>1. CASE /\ UNCHANGED <<pc, verdict, call, now, reserved>>
           /\ \A p \in Requests : pc[p] # "idle" => env'[p] = env[p]
  BY <1>1 DEF Allowed, Done
<1>2. ASSUME NEW r \in Requests, NEW c \in Calls, Reject(r, c) \/ Authenticate(r, c),
             \A p \in Requests : p # r => env'[p] = env[p]
      PROVE  /\ call'[q] = call[q] /\ now'[q] = now[q] /\ env'[q] = env[q]
             /\ Allowed(q) => Allowed(q)'
  <2>1. /\ q # r
        /\ pc'[q] = pc[q] /\ verdict'[q] = verdict[q]
        /\ call'[q] = call[q] /\ now'[q] = now[q]
    BY <1>0, <1>2 DEF Reject, Authenticate, Receive, Goto, Refuse, VerifyTypeOK
  <2> QED
    BY <1>2, <2>1 DEF Allowed, Done
<1>3. ASSUME NEW r \in Requests, Step(r), UNCHANGED <<env, keys>>
      PROVE  /\ call'[q] = call[q] /\ now'[q] = now[q] /\ env'[q] = env[q]
             /\ Allowed(q) => Allowed(q)'
  BY <1>0, <1>3, StepMovesOne DEF Allowed, Done, VerifyTypeOK
<1> QED
  BY <1>1, <1>2, <1>3, GatewayMoves

LEMMA KeysMove ==
  ASSUME [GatewayNext]_gatewayVars, ~Restart
  PROVE  \/ UNCHANGED keys
         \/ \E a \in Agents, k \in Keys : Register(a, k)
  BY DEF GatewayNext, gatewayVars, TimePasses, CreateRevocation, DeleteRevocation,
         RegisterFramework, RegisterHashes, Administer, Arrive, Resume, Proceed,
         Conclude, Deal, Forwarded, Unreachable, registryVars

GrantOf(r) ==
  [request |-> r, call |-> call[r], signedBy |-> env[r].signedBy, at |-> now[r]]

(* The steps a request has passed say its call is in force and sound.      *)
LEMMA AllowedIsSound ==
  ASSUME VerifyTypeOK, OrderInv, NEW r \in Requests, pc[r] = "succeed"
  PROVE  Promise!Sound(call[r]) /\ Promise!InForce(call[r], now[r])
<1> DEFINE c == call[r]
           last == LastPosition(c.tier)
<1>1. \A i \in 1..last : ~Fails(c, StepOrder[i], now[r])
  BY DEF OrderInv, InOrder, Clean
<1>2. /\ c.tier \in 0..2 /\ c.issued \in Nat /\ c.expires \in Nat /\ now[r] \in Nat
      /\ FutureSkew \in Nat /\ Grace \in Nat
  BY CallFields, VerifyAssumption DEF Call
<1>3. /\ last \in {9, 11, 13}
      /\ c.tier > 0 => last >= 11
      /\ c.tier > 1 => last >= 13
  BY <1>2, LastPositions
<1> HIDE DEF last, c
<1>4. /\ \A i \in 1..9 : ~Fails(c, StepOrder[i], now[r])
      /\ c.tier > 0 => ~Fails(c, StepOrder[10], now[r]) /\ ~Fails(c, StepOrder[11], now[r])
      /\ c.tier > 1 => ~Fails(c, StepOrder[12], now[r])
  BY <1>1, <1>3
<1>5. /\ ~Fails(c, "version", now[r]) /\ ~Fails(c, "schema", now[r])
      /\ ~Fails(c, "expiry", now[r]) /\ ~Fails(c, "clock_skew", now[r])
      /\ ~Fails(c, "nonce_format", now[r]) /\ ~Fails(c, "boundaries", now[r])
  BY <1>4, StepNames
<1>6. /\ c.tier > 0 => ~Fails(c, "asset_truth", now[r]) /\ ~Fails(c, "attestation", now[r])
      /\ c.tier > 1 => ~Fails(c, "delegation", now[r])
  BY <1>4, StepNames
<1>7. Promise!Sound(c)
  BY <1>2, <1>5, <1>6 DEF Fails, Promise!Sound, Promise!Asked
<1>8. Promise!InForce(c, now[r])
  BY <1>2, <1>5 DEF Fails, Promise!InForce
<1> QED
  BY <1>7, <1>8 DEF c

(* Whoever succeeds fits the limit with all that was granted in its day.   *)
LEMMA AllowedFitsDay ==
  ASSUME GatewayInv, PromiseInv, NEW r \in Requests, pc[r] = "succeed"
  PROVE  Promise!FitsDay(GrantOf(r))
<1> DEFINE g == GrantOf(r)
           E == {Promise!Entry(h) : h \in Promise!DayBefore(g) \cup {g}}
           D == Entries(DayOf(r))
<1> SUFFICES ASSUME call[r].amount # NoAmount, call[r].perDay > 0
             PROVE  Total(E) <= call[r].perDay
  BY DEF Promise!FitsDay, GrantOf
<1>0. /\ TypeOK /\ VerifyTypeOK /\ now[r] \in Nat /\ Day \in Nat \ {0}
      /\ call[r].perDay \in Nat
  BY CallFields, TrustAssumption, VerifyAssumption
     DEF GatewayInv, GatewayTypeOK, TypeOK, Call
<1>1. r \in DayOf(r)
  BY <1>0 DEF PromiseInv, MoneyInv, ReservedInv, HasAmount, DayOf, Holders, Holding
<1>2. ASSUME NEW q \in Requests, Allowed(q), call[q].agent = call[r].agent,
             call[q].amount # NoAmount, now[q] + Day > now[r]
      PROVE  q \in DayOf(r)
  <2>1. Holding(q)
    BY <1>2 DEF PromiseInv, MoneyInv, ReservedInv, HasAmount, Holding, Allowed
  <2>2. now[q] \in Nat
    BY <1>0, CallFields
  <2> QED
    BY <1>0, <1>2, <2>1, <2>2 DEF DayOf, Holders
<1>3. \A q \in Requests : Promise!Entry(GrantOf(q)) = EntryOf(q)
  BY DEF Promise!Entry, GrantOf, EntryOf
<1>4. E \subseteq D
  <2>1. ASSUME NEW h \in Promise!DayBefore(g) PROVE Promise!Entry(h) \in D
    <3>1. PICK q \in Requests : Allowed(q) /\ h = GrantOf(q)
      BY DEF Promise!DayBefore, GrantedNow, GrantOf
    <3>2. /\ call[q].agent = call[r].agent /\ call[q].amount # NoAmount
          /\ now[q] + Day > now[r]
      BY <3>1 DEF Promise!DayBefore, GrantOf
    <3>3. q \in DayOf(r)
      BY <1>2, <3>1, <3>2
    <3> QED
      BY <1>3, <3>1, <3>3 DEF Entries
  <2>2. Promise!Entry(g) \in D
    BY <1>1, <1>3 DEF Entries
  <2> QED
    BY <2>1, <2>2
<1>5. Summable(D)
  BY <1>0, EntriesAreSummable DEF PromiseInv, DayOf
<1>6. Total(D) <= call[r].perDay
  BY <1>1 DEF PromiseInv, OwnDayInv, DayOf, Holders
<1> HIDE DEF E, D
<1>7. Total(E) <= Total(D) /\ Total(E) \in Nat /\ Total(D) \in Nat
  BY <1>4, <1>5, PartIsSummable, TotalType, TotalOfPart
<1> QED
  BY <1>0, <1>6, <1>7

(* The promise counts as the gateway does.                                 *)
LEMMA PromiseCounts ==
  ASSUME NEW S
  PROVE  Promise!Cardinality(S) = Cardinality(S)
  BY DEF Promise!Cardinality, Cardinality

(* A request that succeeds is a grant, and the only one of its step.       *)
LEMMA SucceedGrants ==
  ASSUME GatewayInv, PromiseInv, [GatewayNext]_gatewayVars,
         NEW r \in Requests, Allowed(r)', ~Allowed(r)
  PROVE  Promise!Grant(GrantOf(r))
<1>0. /\ TypeOK /\ VerifyTypeOK /\ SerialInv /\ KeyInv /\ ClearInv /\ ClockOrderInv
      /\ OrderInv /\ AgentInv /\ NonceInv
  BY DEF GatewayInv, GatewayTypeOK, TypeOK, PromiseInv
<1>1. Succeed(r) /\ pc[r] = "succeed" /\ pc'[r] = "done" /\ ~Restart
  <2>1. Succeed(r)
    BY AllowedBySucceeding
  <2> QED
    BY <1>0, <2>1 DEF Succeed, Goto, VerifyTypeOK, Restart
<1>2. ASSUME NEW q \in Requests, q # r PROVE Allowed(q)' <=> Allowed(q)
  BY <1>0, <1>1, <1>2 DEF Succeed, Goto, VerifyTypeOK, Allowed, Done
<1>3. UNCHANGED <<keys, records, clock, call, now>>
  <2>1. ASSUME NEW a \in Agents, NEW k \in Keys, Register(a, k) PROVE FALSE
    BY <1>1, <2>1, QuietSteps
  <2> QED
    BY <1>1, <2>1, KeysMove DEF Succeed, storeVars
<1>4. \A q \in Requests : Allowed(q)' => GrantOf(q)' = GrantOf(q)
  <2>1. ASSUME NEW q \in Requests, Allowed(q)' PROVE env'[q] = env[q]
    BY <1>1, <1>2, <2>1, InsideStays DEF Allowed, Done
  <2> QED
    BY <1>3, <2>1 DEF GrantOf
<1>5. GrantedNow' = GrantedNow \cup {GrantOf(r)}
  <2>1. /\ GrantedNow = {GrantOf(q) : q \in {q \in Requests : Allowed(q)}}
        /\ GrantedNow' = {GrantOf(q)' : q \in {q \in Requests : Allowed(q)'}}
    BY DEF GrantedNow, GrantOf
  <2> HIDE DEF GrantOf
  <2> QED
    BY <1>2, <1>4, <2>1
<1>6. BarredNow' = BarredNow
  BY <1>3 DEF BarredNow, Live, Lapsed
<1>7. \A h \in GrantedNow : h.request # r /\ h.at <= now[r]
  BY <1>0, <1>1 DEF GrantedNow, ClockOrderInv, Allowed, Done
<1>8. env[r].signedBy = keys[call[r].agent]
  BY <1>0, <1>1 DEF KeyInv, AgentInv
<1>9. {call[r].agent, call[r].issuer} \cap BarredNow = {}
  BY <1>0, <1>1 DEF ClearInv, BarredNow
<1>10. Promise!Sound(call[r]) /\ Promise!InForce(call[r], now[r])
  BY <1>0, <1>1, AllowedIsSound
<1>11. Promise!FitsDay(GrantOf(r))
  BY <1>1, AllowedFitsDay
<1>12. now[r] <= clock /\ verdict[r] = "none" /\ SpentNonce(r)
  BY <1>0, <1>1 DEF NonceInv, Leaving, SpentNonce
<1>13. SpentNow' = SpentNow
  <2>1. Step(r) /\ ~SpendNonceOf(r)
    BY <1>1 DEF Step, SpendNonceOf
  <2> QED
    BY <1>0, <2>1, SpentMoves
<1>14. Promise!FreshNonce(GrantOf(r))
  <2> SUFFICES ASSUME Cardinality(SpentNow) <= MaxNonces, NEW q \in Requests, Allowed(q),
                      call[q].nonce = call[r].nonce
               PROVE  now[q] + NonceTTL <= clock
    BY PromiseCounts DEF Promise!FreshNonce, GrantedNow, GrantOf
  <2>1. q # r /\ SpentNonce(q) /\ now[q] <= now[r]
    BY <1>0, <1>1 DEF ClockOrderInv, Allowed, Done, SpentNonce
  <2>2. now[q] + NonceTTL <= clock \/ now[r] + NonceTTL <= clock
    BY <1>0, <1>12, <2>1 DEF NonceInv, NonceSpentOncePerRetention, SpentNow
  <2>3. now[q] \in Nat /\ now[r] \in Nat /\ NonceTTL \in Nat /\ clock \in Nat
    BY <1>0, StoreAssumption, ClockAssumption DEF VerifyTypeOK, TypeOK, ClockTypeOK
  <2> QED
    BY <2>1, <2>2, <2>3
<1> QED
  BY <1>3, <1>5, <1>6, <1>7, <1>8, <1>9, <1>10, <1>11, <1>12, <1>13, <1>14
     DEF Promise!Grant, GrantOf, BarredNow, SpentNow

(* Every step of the gateway is a step of the promise, or none.            *)
LEMMA MandateStep ==
  ASSUME GatewayInv, PromiseInv, [GatewayNext]_gatewayVars
  PROVE  [Promise!MandateNext]_Promise!mandateVars
<1>0. TypeOK /\ VerifyTypeOK /\ StoreTypeOK /\ NonceInv
  BY DEF GatewayInv, GatewayTypeOK, TypeOK, PromiseInv
<1>1. CASE Restart
  <2>1. GrantedNow' = {} /\ BarredNow' = {} /\ SpentNow' = {}
    BY <1>1
       DEF Restart, GrantedNow, Allowed, Done, BarredNow, Live, Unrecorded, SpentNow,
           SpentNonce
  <2>2. keys' = [a \in Agents |-> NoKey] /\ UNCHANGED clock
    BY <1>1 DEF Restart
  <2>3. Promise!Forget
    BY <2>1, <2>2 DEF Promise!Forget, BarredNow, SpentNow
  <2> QED
    BY <2>3 DEF Promise!MandateNext
<1>2. ASSUME ~Restart, \A r \in Requests : Allowed(r)' => Allowed(r)
      PROVE  GrantedNow' = GrantedNow
  <2>1. \A r \in Requests : /\ Allowed(r)' <=> Allowed(r)
                            /\ Allowed(r) => GrantOf(r)' = GrantOf(r)
    BY <1>2, InsideStays DEF GrantOf, Allowed, Done
  <2>2. /\ GrantedNow = {GrantOf(q) : q \in {q \in Requests : Allowed(q)}}
        /\ GrantedNow' = {GrantOf(q)' : q \in {q \in Requests : Allowed(q)'}}
    BY DEF GrantedNow, GrantOf
  <2> HIDE DEF GrantOf
  <2> QED
    BY <2>1, <2>2
<1>3. ASSUME NEW a \in Agents, NEW k \in Keys, Register(a, k)
      PROVE  Promise!Register(a, k)
  <2>1. /\ keys[a] = NoKey /\ keys' = [keys EXCEPT ![a] = k]
        /\ UNCHANGED <<pc, verdict, call, now, records, clock, env>>
    BY <1>3 DEF Register, verifyVars, requestVars, storeVars, handlerVars
  <2>2. GrantedNow' = GrantedNow
    BY <2>1 DEF GrantedNow, Allowed, Done
  <2>3. BarredNow' = BarredNow /\ SpentNow' = SpentNow
    BY <2>1 DEF BarredNow, Live, Lapsed, SpentNow, SpentNonce
  <2> QED
    BY <2>1, <2>2, <2>3 DEF Promise!Register, BarredNow, SpentNow
<1>4. ASSUME ~Restart, UNCHANGED keys, \A r \in Requests : Allowed(r)' => Allowed(r)
      PROVE  Promise!MandateNext
  <2>1. GrantedNow' = GrantedNow /\ BarredNow' \in SUBSET Subjects
    BY <1>2, <1>4 DEF BarredNow
  <2>2. CASE UNCHANGED clock /\ SpentNow' = SpentNow
    <3>1. Promise!Order
      BY <1>4, <2>1, <2>2 DEF Promise!Order, BarredNow, SpentNow
    <3> QED
      BY <3>1 DEF Promise!MandateNext
  <2>3. CASE UNCHANGED <<pc, verdict>>
    <3>1. SpentNow' = SpentNow
      BY <2>3 DEF SpentNow, SpentNonce
    <3>2. CASE UNCHANGED clock
      BY <2>2, <3>1, <3>2
    <3>3. CASE ~UNCHANGED clock
      <4>1. clock' = clock + 1 /\ UNCHANGED records /\ clock \in Nat
        BY <3>3, ClockMoves
      <4>2. BarredNow' \in SUBSET BarredNow
        <5>1. \A s \in Subjects : records[s] \in Standing
          BY <1>0 DEF StoreTypeOK
        <5>2. ASSUME NEW s \in Subjects, Live(s)' PROVE Live(s)
          <6>1. CASE records[s].standing = "suspended"
            <7>1. records[s].until \in Nat
              BY <5>1, <6>1 DEF Standing
            <7> QED
              BY <4>1, <5>2, <7>1 DEF Live, Lapsed
          <6> QED
            BY <4>1, <5>2, <6>1 DEF Live, Lapsed
        <5> QED
          BY <5>2 DEF BarredNow
      <4>3. Promise!Elapse
        BY <1>4, <2>1, <3>1, <4>1, <4>2 DEF Promise!Elapse, BarredNow, SpentNow
      <4> QED
        BY <4>3 DEF Promise!MandateNext
    <3> QED
      BY <3>2, <3>3
  <2>4. ASSUME NEW r \in Requests, NEW c \in Calls, Reject(r, c) \/ Authenticate(r, c)
        PROVE  Promise!MandateNext
    <3>1. UNCHANGED clock /\ SpentNow' = SpentNow
      BY <1>0, <2>4, ReceiveSpendsNothing DEF Reject, Authenticate, Receive
    <3> QED
      BY <2>2, <3>1
  <2>5. ASSUME NEW r \in Requests, Step(r) PROVE Promise!MandateNext
    <3>1. UNCHANGED clock
      BY <1>0, <2>5, StepMoves
    <3>2. CASE SpentNow' = SpentNow \cup {r} /\ SpendNonceOf(r)
      <4>1. BarredNow' = BarredNow
        BY <3>1, <3>2 DEF SpendNonceOf, CheckNonce, BarredNow, Live, Lapsed
      <4>2. Promise!Spend(r)
        BY <1>4, <2>1, <3>1, <3>2, <4>1 DEF Promise!Spend, BarredNow, SpentNow
      <4> QED
        BY <4>2 DEF Promise!MandateNext
    <3> QED
      BY <1>0, <2>2, <2>5, <3>1, <3>2, SpentMoves
  <2> QED
    BY <1>4, <2>3, <2>4, <2>5, GatewayMoves
<1>5. ASSUME NEW r \in Requests, Allowed(r)', ~Allowed(r)
      PROVE  Promise!MandateNext
  <2>1. call[r] \in Calls /\ env[r].signedBy \in Keys /\ now[r] \in 0..MaxClock
    BY CallFields, EnvelopeFields, ClockAssumption
       DEF GatewayInv, GatewayTypeOK, TypeOK, ClockTypeOK, ClockOrderInv
  <2>2. Promise!Grant(GrantOf(r))
    BY <1>5, SucceedGrants
  <2> QED
    BY <2>1, <2>2 DEF Promise!MandateNext, GrantOf
<1> QED
  BY <1>1, <1>3, <1>4, <1>5, KeysMove DEF Promise!MandateNext

LEMMA PromiseInvariant == GatewaySpec => [](GatewayInv /\ PromiseInv)
<1>1. GatewayInit => PromiseInv
  <2> SUFFICES ASSUME GatewayInit PROVE PromiseInv
    OBVIOUS
  <2>1. \A r \in Requests : pc[r] = "idle" /\ ~reserved[r]
    BY DEF GatewayInit, Init
  <2>2. MoneyInv /\ DayInv
    BY DayInitially
  <2>3. OrderInv /\ AgentInv /\ OwnDayInv
    BY <2>1 DEF OrderInv, InOrder, AgentInv, OwnDayInv, Holding
  <2>4. NonceInv
    BY GatewayStartsUnspent
  <2> QED
    BY <2>2, <2>3, <2>4 DEF PromiseInv
<1>2. GatewayInv /\ PromiseInv /\ [GatewayNext]_gatewayVars => PromiseInv'
  BY MoneyStep, DayStep, AgentStep, GatewayOrderStep, OwnDayStep, GatewayNonceStep
     DEF PromiseInv
<1> QED
  BY <1>1, <1>2, GatewayInvariant, PTL DEF GatewaySpec

(* The gateway implements the promise of module Mandate, for any clients,  *)
(* calls, orders and restarts: nothing is let through that is not signed   *)
(* with its agent's registered key, in force, sound for its tier, on a     *)
(* nonce of its own, for nobody barred and within its day's limit with all *)
(* that went before (post_intent, verify_intent, reserve_amount).          *)
THEOREM GatewayKeepsMandate == GatewaySpec => KeepsMandate
<1>1. GatewayInit => Promise!MandateInit
  <2> SUFFICES ASSUME GatewayInit PROVE Promise!MandateInit
    OBVIOUS
  <2>1. GrantedNow = {}
    BY DEF GatewayInit, Init, GrantedNow, Allowed, Done
  <2>2. BarredNow = {} /\ SpentNow = {} /\ clock = 0
    BY DEF GatewayInit, Init, StoreInit, ClockInit, BarredNow, Live, Unrecorded,
           SpentNow, SpentNonce
  <2> QED
    BY <2>1, <2>2 DEF GatewayInit, Promise!MandateInit, BarredNow, SpentNow
<1>2. GatewayInv /\ PromiseInv /\ [GatewayNext]_gatewayVars
        => [Promise!MandateNext]_Promise!mandateVars
  BY MandateStep
<1> QED
  BY <1>1, <1>2, PromiseInvariant, PTL DEF GatewaySpec, KeepsMandate, Promise!MandateSpec

-----------------------------------------------------------------------------
(* The gateway and a lender.  The lender neither acts on the gateway nor   *)
(* is needed by it: every step is a step of the gateway or leaves it alone.*)

LEMMA LenderStepMaps ==
  ASSUME [LenderNext]_allVars
  PROVE  [GatewayNext]_gatewayVars
<1>1. CASE Serve \/ \E r \in Requests : Sign(r) \/ Consider(r)
  BY <1>1 DEF Serve, Sign, Consider, GatewayNext
<1>2. CASE Pin \/ \E r \in Requests : Present(r)
  BY <1>2 DEF Pin, Present
<1> QED
  BY <1>1, <1>2 DEF LenderNext, allVars

(* What is proved of the gateway holds with a lender (demo/mock_lender.py). *)
THEOREM LenderImplementsGateway == LenderSpec => GatewaySpec
<1>1. LenderInit => GatewayInit
  BY DEF LenderInit
<1>2. [LenderNext]_allVars => [GatewayNext]_gatewayVars
  BY LenderStepMaps
<1> QED
  BY <1>1, <1>2, PTL DEF LenderSpec, GatewaySpec

(* So with a lender, who asks when and as often as it likes, the gateway   *)
(* keeps its mandate and all that was proved of it without one.            *)
THEOREM GatewayKeepsMandateWithLender ==
  LenderSpec => /\ KeepsMandate /\ RevocationTakesEffect /\ AttestationTakesEffect
                /\ []VerifiedUnderRegisteredKey /\ []ReservesInClockOrder
                /\ []DayNeverExceedsLimit /\ []NonceSpentOncePerRetention
  BY LenderImplementsGateway, GatewayKeepsMandate, OrdersTakeEffect, RegistriesTakeEffect,
     KeyStaysRegistered, ReservationsInOrder, DayLimitHolds, NonceSpentOnceAtGateway

(* Nobody the request names is barred, as far as verify_intent was told.   *)
Free(r) == \A s \in Subjects \cap {call[r].agent, call[r].issuer} : ~Live(s)

Settled(r) == at[r] \in {"forwarding", "answered", "lost"}

(* An attestation about to be signed is for somebody free; one that was    *)
(* signed expires ValidFor after they last were, at the latest.            *)
LenderInv ==
  /\ LenderTypeOK
  /\ \A r \in Requests : at[r] = "verifying" /\ Allowed(r) => Free(r)
  /\ \A r \in posted \cup Lent : proofs[r] # Unsigned
  /\ \A r \in Requests : proofs[r] # Unsigned =>
       /\ Settled(r)
       /\ Done(r) => Allowed(r)
       /\ \A s \in Subjects \cap {call[r].agent, call[r].issuer} :
            proofs[r].expires <= clear[s] + ValidFor
  /\ \A s \in Subjects : clear[s] <= clock

(* A request that has left verify_intent changes no more, save by a crash. *)
LEMMA SettledStays ==
  ASSUME GatewayInv, [GatewayNext]_gatewayVars, NEW r \in Requests, Settled(r)
  PROVE  /\ Settled(r)' /\ call'[r] = call[r]
         /\ Done(r)' => Done(r) /\ verdict'[r] = verdict[r]
<1> DEFINE Stays == /\ Settled(r)' /\ call'[r] = call[r]
                    /\ Done(r)' => Done(r) /\ verdict'[r] = verdict[r]
<1>0. /\ TypeOK /\ GatewayTypeOK /\ SerialInv /\ KeyInv /\ VerifyTypeOK
      /\ at \in [Requests -> Places]
  BY DEF GatewayInv, GatewayTypeOK, TypeOK
<1>1. CASE \/ TimePasses \/ RegisterAttestation \/ UNCHANGED gatewayVars
           \/ \E a \in Agents, k \in Keys : Register(a, k)
           \/ \E s \in Targets : CreateRevocation(s) \/ DeleteRevocation(s)
           \/ \E q \in Requests :
                Conclude(q) \/ Deal(q) \/ Forwarded(q) \/ Unreachable(q)
  <2>1. Settled(r)'
    BY <1>0, <1>1
       DEF TimePasses, Register, CreateRevocation, DeleteRevocation, Administer,
           RegisterAttestation, RegisterFramework, RegisterHashes, Deal,
           Conclude, Forwarded, Unreachable, Respond, Enter, handlerVars, gatewayVars,
           Settled
  <2> QED
    BY <1>1, <2>1, QuietSteps DEF Done
<1>2. CASE Restart
  BY <1>2 DEF Restart, Settled, Done
<1>3. ASSUME NEW q \in Requests, NEW e \in Envelopes, NEW k \in Keys,
             NEW observed \in BOOLEAN, Verify(q, e, k, observed), q # r
      PROVE  Stays
  BY <1>0, <1>3, VerifyEnters DEF VerifyTypeOK, Settled, Done
<1>4. ASSUME NEW q \in Requests, NEW e \in Envelopes, Arrive(q, e)
      PROVE  Stays
  <2>1. q # r
    BY <1>0, <1>4, ArriveMeans DEF Settled
  <2>2. CASE UNCHANGED verifyVars /\ at' = [at EXCEPT ![q] = at'[q]]
    BY <1>0, <2>1, <2>2 DEF verifyVars, requestVars, Settled, Done
  <2>3. CASE Verify(q, e, keys[e.of.agent], TRUE) /\ keys[e.of.agent] \in Keys
    BY <1>3, <2>1, <2>3
  <2> QED
    BY <1>0, <1>4, <2>2, <2>3, ArriveMeans
<1>5. ASSUME NEW q \in Requests, Resume(q)
      PROVE  Stays
  <2>1. q # r
    BY <1>0, <1>5, ResumeMeans DEF Settled
  <2> QED
    BY <1>0, <1>3, <1>5, <2>1, ResumeMeans
<1>6. ASSUME NEW q \in Requests, Proceed(q)
      PROVE  Stays
  <2>1. Step(q) /\ UNCHANGED at
    BY <1>6 DEF Proceed, handlerVars
  <2>2. q # r
    BY <1>0, <2>1, StepMovesOne DEF SerialInv, Settled
  <2> QED
    BY <1>0, <2>1, <2>2, StepMovesOne, OthersStay DEF Settled, Done
<1> QED
  BY <1>1, <1>2, <1>4, <1>5, <1>6 DEF GatewayNext, RegisterAttestation

(* Whoever was found free stays so until the attestation is signed.        *)
LEMMA FreeUntilSigned ==
  ASSUME GatewayInv, [GatewayNext]_gatewayVars, NEW r \in Requests,
         at[r] = "verifying" /\ Allowed(r) => Free(r),
         at'[r] = "verifying", Allowed(r)'
  PROVE  Free(r)'
<1>0. /\ TypeOK /\ GatewayTypeOK /\ SerialInv /\ KeyInv /\ VerifyTypeOK /\ StoreTypeOK
      /\ clock \in Nat /\ at \in [Requests -> Places]
  BY ClockAssumption DEF GatewayInv, GatewayTypeOK, TypeOK, ClockTypeOK
<1>1. CASE ~Allowed(r)
  <2>1. Succeed(r) /\ ClearInv
    BY <1>1, AllowedBySucceeding DEF GatewayInv
  <2>2. Free(r)
    BY <2>1 DEF Succeed, ClearInv, Free
  <2> QED
    BY <2>1, <2>2 DEF Succeed, storeVars, Free, Live, Lapsed
<1>2. CASE Allowed(r)
  <2>0. ASSUME NEW q \in Requests, NEW e \in Envelopes, NEW k \in Keys,
               NEW observed \in BOOLEAN, ~Busy, Verify(q, e, k, observed)
        PROVE  FALSE
    <3>1. at[r] # "verifying"
      BY <2>0 DEF Busy
    <3>2. q = r
      BY <1>0, <2>0, <3>1, VerifyEnters
    <3> QED
      BY <1>0, <1>2, <2>0, <3>2, VerifyEnters DEF Allowed, Done
  <2>1. CASE \/ \E q \in Requests, e \in Envelopes : Arrive(q, e)
             \/ \E q \in Requests : Resume(q) \/ Forwarded(q) \/ Unreachable(q)
             \/ \E s \in Targets : CreateRevocation(s) \/ DeleteRevocation(s)
             \/ RegisterAttestation \/ \E a \in Agents, k \in Keys : Register(a, k)
    <3>1. ~Busy
      BY <2>1
         DEF Arrive, Resume, Forwarded, Unreachable, CreateRevocation,
             DeleteRevocation, RegisterAttestation, RegisterFramework, RegisterHashes,
             Administer, Register
    <3>2. at[r] # "verifying"
      BY <3>1 DEF Busy
    <3>3. PICK q \in Requests : \/ \E e \in Envelopes : Arrive(q, e)
                                \/ Resume(q) \/ Forwarded(q) \/ Unreachable(q)
      BY <2>1, <3>2
         DEF CreateRevocation, DeleteRevocation, RegisterAttestation,
             RegisterFramework, RegisterHashes, Administer, Register, handlerVars
    <3>4. CASE Forwarded(q) \/ Unreachable(q)
      BY <1>0, <3>2, <3>4 DEF Forwarded, Unreachable, Respond, Enter
    <3>5. CASE Resume(q)
      BY <1>0, <2>0, <3>5, ResumeMeans
    <3>6. ASSUME NEW e \in Envelopes, Arrive(q, e) PROVE FALSE
      <4>1. CASE Verify(q, e, keys[e.of.agent], TRUE) /\ keys[e.of.agent] \in Keys
        BY <2>0, <3>1, <4>1
      <4>2. CASE at' = [at EXCEPT ![q] = at'[q]] /\ at'[q] # "verifying"
        BY <1>0, <3>2, <4>2
      <4> QED
        BY <1>0, <3>6, <4>1, <4>2, ArriveMeans
    <3> QED
      BY <3>3, <3>4, <3>5, <3>6
  <2>2. CASE Restart
    BY <2>2 DEF Restart, Allowed, Done
  <2>3. ASSUME NEW q \in Requests, Proceed(q) PROVE Free(r)'
    <3>1. Step(q) /\ UNCHANGED at
      BY <2>3 DEF Proceed, handlerVars
    <3>2. q # r
      BY <1>0, <1>2, <3>1, StepMovesOne DEF Allowed, Done
    <3> QED
      BY <1>0, <3>1, <3>2, StepMovesOne DEF SerialInv
  <2>4. CASE \/ TimePasses \/ UNCHANGED gatewayVars
             \/ \E q \in Requests : Conclude(q) \/ Deal(q)
    <3>1. records' = records /\ clock' \in {clock, clock + 1} /\ call' = call
      BY <2>4
         DEF TimePasses, Pass, Tick, Conclude, Deal, gatewayVars, verifyVars, storeVars,
             requestVars
    <3>2. at[r] = "verifying"
      BY <1>0, <2>4 DEF TimePasses, Conclude, Deal, Respond, Enter, handlerVars, gatewayVars
    <3> QED
      BY <1>0, <1>2, <3>1, <3>2, NobodyBarred DEF Free
  <2> QED
    BY <2>1, <2>2, <2>3, <2>4 DEF GatewayNext, RegisterAttestation
<1> QED
  BY <1>1, <1>2

LEMMA LenderInvStep ==
  ASSUME GatewayInv, LenderInv, [LenderNext]_allVars
  PROVE  LenderInv'
<1>0. /\ [GatewayNext]_gatewayVars /\ GatewayTypeOK /\ LenderTypeOK
      /\ at \in [Requests -> Places]
      /\ clock \in Nat /\ clock' \in Nat /\ clock <= clock'
      /\ restarts \in Nat /\ ValidFor \in Nat
  BY LenderStepMaps, ClockMoves, LenderAssumption
     DEF GatewayInv, GatewayTypeOK, LenderInv
<1>1. /\ clear' \in [Subjects -> Nat]
      /\ \A s \in Subjects : clear[s] <= clear'[s] /\ clear'[s] <= clock'
  <2>1. CASE Observe
    BY <1>0, <2>1 DEF Observe, LenderTypeOK, LenderInv
  <2>2. CASE UNCHANGED allVars
    BY <1>0, <2>2 DEF allVars, LenderTypeOK, LenderInv
  <2> QED
    BY <2>1, <2>2 DEF LenderNext
<1>2. ASSUME NEW r \in Requests, at'[r] = "verifying", Allowed(r)' PROVE Free(r)'
  BY <1>0, <1>2, FreeUntilSigned DEF LenderInv
<1>3. ASSUME NEW r \in Requests, Sign(r)
      PROVE  /\ proofs[r] = Unsigned /\ at[r] = "verifying" /\ Done(r) /\ Settled(r)'
             /\ UNCHANGED <<clock, records, call, pc, verdict>>
             /\ proofs' = [proofs EXCEPT ![r] = proofs'[r]]
             /\ Allowed(r) => /\ proofs'[r] = [key |-> SigningKey,
                                               expires |-> clock + ValidFor]
             /\ ~Allowed(r) => proofs'[r] = Unsigned
             /\ posted' = posted \/ (Allowed(r) /\ posted' = posted \cup {r})
             /\ loans' = loans /\ pinned' = pinned
  <2>1. Conclude(r) /\ at[r] = "verifying" /\ Done(r)
    BY <1>3 DEF Sign, Conclude
  <2>2. proofs[r] = Unsigned
    BY <2>1 DEF LenderInv, Settled
  <2>3. Settled(r)' /\ (posted' = posted \/ (Allowed(r) /\ posted' = posted \cup {r}))
    BY <1>0, <2>1 DEF Conclude, Respond, Enter, Settled
  <2>4. UNCHANGED <<clock, records, call, pc, verdict>>
    BY <2>1 DEF Conclude, verifyVars, storeVars, requestVars
  <2>5. /\ proofs' = [proofs EXCEPT ![r] = IF Allowed(r)
             THEN [key |-> SigningKey, expires |-> clock + ValidFor] ELSE @]
        /\ loans' = loans /\ pinned' = pinned
    BY <1>3 DEF Sign
  <2> QED
    BY <1>0, <2>1, <2>2, <2>3, <2>4, <2>5 DEF LenderTypeOK
<1>4. ASSUME ~\E r \in Requests : Sign(r)
      PROVE  /\ UNCHANGED <<proofs, posted>> /\ pinned' \in Nat \cup {NoPin}
             /\ loans' = loans \/ \E r \in Requests : Lend(r)
  <2>1. CASE Serve
    BY <1>0, <2>1
       DEF Serve, TimePasses, Restart, Register, CreateRevocation, DeleteRevocation,
           RegisterFramework, RegisterHashes, Administer, Arrive, Resume, Proceed,
           Forwarded, Unreachable, downstreamVars, lenderVars, LenderTypeOK
  <2>2. CASE Pin
    BY <1>0, <2>2 DEF Pin, SigningKey, gatewayVars, downstreamVars
  <2>3. ASSUME NEW r \in Requests, Consider(r) \/ Present(r)
        PROVE  /\ UNCHANGED <<proofs, posted, pinned>> /\ (loans' = loans \/ Lend(r))
    BY <2>3
       DEF Consider, Present, Deal, Decline, Lend, gatewayVars, downstreamVars, lenderVars
  <2>4. CASE UNCHANGED allVars
    BY <1>0, <2>4 DEF allVars, lenderVars, gatewayVars, downstreamVars, LenderTypeOK
  <2> QED
    BY <1>0, <1>4, <2>1, <2>2, <2>3, <2>4 DEF LenderNext, LenderTypeOK
<1>5. LenderTypeOK'
  <2>1. CASE \E r \in Requests : Sign(r)
    <3>1. PICK r \in Requests : Sign(r)
      BY <2>1
    <3>2. SigningKey \in Nat /\ clock + ValidFor \in Nat
      BY <1>0 DEF SigningKey
    <3>3. proofs'[r] \in Proof \cup {Unsigned}
      BY <1>3, <3>1, <3>2 DEF Proof
    <3> QED
      BY <1>0, <1>1, <1>3, <3>1, <3>3 DEF LenderTypeOK
  <2>2. CASE ~\E r \in Requests : Sign(r)
    BY <1>0, <1>1, <1>4, <2>2 DEF LenderTypeOK, Lend
  <2> QED
    BY <2>1, <2>2
<1>6. ASSUME NEW r \in posted' \cup Lent' PROVE proofs'[r] # Unsigned
  <2>1. CASE \E q \in Requests : Sign(q)
    <3>1. PICK q \in Requests : Sign(q)
      BY <2>1
    <3>2. r \in posted \cup Lent \/ (r = q /\ Allowed(q))
      BY <1>3, <1>6, <3>1 DEF Lent
    <3>3. [key |-> SigningKey, expires |-> clock + ValidFor] # Unsigned
      BY <1>0, LenderAssumption DEF SigningKey, Proof
    <3>4. r \in Requests
      BY <1>0, <3>2 DEF GatewayTypeOK, Lent
    <3> QED
      BY <1>0, <1>3, <3>1, <3>2, <3>3, <3>4 DEF LenderInv, LenderTypeOK
  <2>2. CASE ~\E q \in Requests : Sign(q)
    <3>1. CASE r \in posted \cup Lent
      BY <1>4, <2>2, <3>1 DEF LenderInv
    <3>2. CASE r \in Lent' \ Lent
      BY <1>0, <1>4, <2>2, <3>2 DEF Lent, Lend, Accepts, LenderTypeOK
    <3> QED
      BY <1>4, <1>6, <2>2, <3>1, <3>2
  <2> QED
    BY <2>1, <2>2
<1>7. ASSUME NEW r \in Requests, proofs'[r] # Unsigned
      PROVE  /\ Settled(r)'
             /\ Done(r)' => Allowed(r)'
             /\ \A s \in Subjects \cap {call'[r].agent, call'[r].issuer} :
                  proofs'[r].expires <= clear'[s] + ValidFor
  <2>1. CASE proofs[r] # Unsigned
    <3>1. proofs'[r] = proofs[r]
      BY <1>0, <1>3, <1>4, <2>1 DEF LenderTypeOK
    <3>2. /\ Settled(r) /\ (Done(r) => Allowed(r)) /\ proofs[r] \in Proof
          /\ \A s \in Subjects \cap {call[r].agent, call[r].issuer} :
               proofs[r].expires <= clear[s] + ValidFor
      BY <1>0, <2>1 DEF LenderInv, LenderTypeOK
    <3>3. /\ Settled(r)' /\ call'[r] = call[r]
          /\ Done(r)' => Done(r) /\ verdict'[r] = verdict[r]
      BY <1>0, <3>2, SettledStays
    <3> QED
      BY <1>0, <1>1, <3>1, <3>2, <3>3 DEF Allowed, Done, LenderTypeOK, Proof
  <2>2. CASE proofs[r] = Unsigned
    <3>1. PICK q \in Requests : Sign(q)
      BY <1>4, <1>7, <2>2
    <3>2. q = r /\ Allowed(r)
      BY <1>0, <1>3, <1>7, <2>2, <3>1 DEF LenderTypeOK
    <3>3. Free(r)
      BY <1>3, <3>1, <3>2 DEF LenderInv
    <3>4. Observe
      <4>1. gatewayVars' # gatewayVars
        BY <1>0, <1>3, <3>1 DEF Settled, gatewayVars, handlerVars
      <4> QED
        BY <4>1 DEF LenderNext, allVars
    <3>5. \A s \in Subjects \cap {call[r].agent, call[r].issuer} : clear'[s] = clock
      BY <1>0, <1>3, <3>1, <3>3, <3>4 DEF Observe, Free, Live, Lapsed, LenderTypeOK
    <3> QED
      BY <1>0, <1>3, <3>1, <3>2, <3>5 DEF Allowed, Done
  <2> QED
    BY <2>1, <2>2
<1> QED
  BY <1>0, <1>1, <1>2, <1>5, <1>6, <1>7 DEF LenderInv

(* The lender, its attestations and the gateway keep their invariants.     *)
THEOREM LenderInvariant == LenderSpec => [](GatewayInv /\ MoneyInv /\ LenderInv)
<1>1. LenderInit => GatewayInv /\ MoneyInv /\ LenderInv
  <2> SUFFICES ASSUME LenderInit PROVE GatewayInv /\ MoneyInv /\ LenderInv
    OBVIOUS
  <2>1. GatewayInv
    BY GatewayInitially DEF LenderInit
  <2>2. MoneyInv
    BY DEF LenderInit, GatewayInit, Init, TrustInit, MoneyInv, ReservationInv,
           ReservedInv, ReservationAccounted, Holding
  <2>3. LenderInv
    BY ClockAssumption
       DEF LenderInit, GatewayInit, Init, ClockInit, LenderInv, LenderTypeOK, Lent
  <2> QED
    BY <2>1, <2>2, <2>3
<1>2. GatewayInv /\ MoneyInv /\ LenderInv /\ [LenderNext]_allVars
        => (GatewayInv /\ MoneyInv /\ LenderInv)'
  BY LenderStepMaps, GatewayInvStep, MoneyStep, LenderInvStep
<1> QED
  BY <1>1, <1>2, PTL DEF LenderSpec

(* No loan, the first on an attestation or another, is made on behalf of   *)
(* somebody who has stood barred for longer than the attestation is good   *)
(* for (sign_attestation, loan).                                           *)
THEOREM KillSwitchReaches == LenderSpec => KillSwitchReachesLender
<1> DEFINE Reaches == \A r \in Requests : loans'[r] > loans[r] =>
       \A s \in Subjects \cap {call[r].agent, call[r].issuer} :
         clock <= clear[s] + ValidFor
<1>1. ASSUME GatewayInv, LenderInv, [LenderNext]_allVars PROVE Reaches
  <2> SUFFICES ASSUME NEW r \in Requests, loans'[r] > loans[r],
                      NEW s \in Subjects \cap {call[r].agent, call[r].issuer}
               PROVE  clock <= clear[s] + ValidFor
    OBVIOUS
  <2>1. Lend(r)
    <3>1. loans \in [Requests -> Nat] /\ loans' # loans
      BY <1>1 DEF LenderInv, LenderTypeOK
    <3>2. PICK q \in Requests : Lend(q)
      BY <1>1, <3>1
         DEF LenderNext, Serve, Pin, Sign, Consider, Present, Decline, allVars, lenderVars
    <3>3. q # r => loans'[r] = loans[r]
      BY <3>1, <3>2 DEF Lend
    <3>4. loans[r] \in Nat
      BY <3>1
    <3>5. q = r
      BY <3>3, <3>4
    <3> QED
      BY <3>2, <3>5
  <2>2. /\ proofs[r] \in Proof /\ clock \in Nat /\ clear[s] \in Nat /\ ValidFor \in Nat
        /\ proofs[r].expires <= clear[s] + ValidFor
    BY <1>1, <2>1, LenderAssumption, ClockMoves, LenderStepMaps
       DEF Lend, Accepts, LenderInv, LenderTypeOK
  <2> QED
    BY <2>1, <2>2 DEF Lend, Accepts, Proof
<1> QED
  BY <1>1, LenderInvariant, PTL DEF LenderSpec, KillSwitchReachesLender

(* What was sent or lent stays on its agent's ledger, also when the reply  *)
(* never arrives, until a request a day later prunes it (post_intent).     *)
THEOREM SentMoneyCounted == LenderSpec => []SentMoneyStaysCounted
<1>1. GatewayInv /\ MoneyInv /\ LenderInv => SentMoneyStaysCounted
  <2> SUFFICES ASSUME GatewayInv, MoneyInv, LenderInv, NEW r \in posted \cup Lent,
                      Done(r), HasAmount(call[r])
               PROVE  \/ EntryOf(r) \in ledger[call[r].agent]
                      \/ \E q \in Requests :
                           /\ PastReserve(q) /\ call[q].agent = call[r].agent
                           /\ now[q] >= now[r] + Day
    BY DEF SentMoneyStaysCounted
  <2>1. r \in Requests /\ Allowed(r)
    BY DEF LenderInv, Lent, GatewayInv, GatewayTypeOK
  <2>2. Holding(r)
    BY <2>1 DEF MoneyInv, ReservedInv, Holding, Allowed
  <2> QED
    BY <2>1, <2>2 DEF MoneyInv, ReservationInv, ReservationAccounted
<1> QED
  BY <1>1, LenderInvariant, PTL
=============================================================================
