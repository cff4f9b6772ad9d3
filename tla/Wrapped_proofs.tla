--------------------------- MODULE Wrapped_proofs ---------------------------
(***************************************************************************)
(* Proofs about protected and observed functions, for any functions,       *)
(* resolvers, callbacks and orders: type correctness, that the pipeline    *)
(* inside is the one VerifyIntent specifies and keeps what is proved of it *)
(* there, what a value-moving function runs on, and who hears of it.  What *)
(* is said of the pipeline concerns the functions that share a store and   *)
(* an engine; the rest concerns every function.                            *)
(***************************************************************************)
EXTENDS Wrapped, VerifyIntent_proofs

-----------------------------------------------------------------------------
(* The pipeline inside the two wrappers.                                   *)

(* An envelope is created at a time of the run, whose calls Calls holds.   *)
CreatedInv == created \in [Requests -> 0..MaxClock]

InsideTypeOK == TypeOK /\ ShieldTypeOK /\ CreatedInv

LEMMA EntrustedIsCall ==
  ASSUME InsideTypeOK, NEW r \in Requests,
         NEW c \in Claims \cup {NoClaim}, NEW o \in Observations \cup {NoObservation}
  PROVE  EnvelopeOf(r, c, o) \in Calls
  BY ShieldAssumption DEF EnvelopeOf, InsideTypeOK, TypeOK, ClockTypeOK, ShieldTypeOK, CreatedInv

(* Everything the shield does to the verifier's variables is one of the    *)
(* verifier's own steps.                                                   *)
LEMMA ShieldStepsVerify ==
  ASSUME InsideTypeOK, NEW r \in Requests, ShieldStep(r)
  PROVE  [Next]_vars
<1>1. CASE \E c \in Claims \cup {NoClaim}, o \in Observations \cup {NoObservation} :
              Entrust(r, c, o)
  <2>1. PICK c \in Claims \cup {NoClaim}, o \in Observations \cup {NoObservation} :
          Entrust(r, c, o)
    BY <1>1
  <2> DEFINE e == EnvelopeOf(r, c, o)
  <2>2. e \in Calls /\ (Reject(r, e) \/ Authenticate(r, e))
    BY <2>1, EntrustedIsCall DEF Entrust
  <2> QED
    BY <2>2 DEF Next
<1>2. CASE Verifying(r)
  BY <1>2 DEF Verifying, Next
<1>3. CASE \/ \E f \in Functions : Invoke(r, f)
           \/ \E c \in Claims \cup {NoClaim}, o \in Observations \cup {NoObservation} :
                EntrustAlone(r, c, o)
           \/ ResolverRaises(r) \/ Block(r) \/ Run(r) \/ Finish(r)
  BY <1>3 DEF Invoke, EntrustAlone, ResolverRaises, Block, Run, Finish
<1> QED
  BY <1>1, <1>2, <1>3 DEF ShieldStep

LEMMA WrappedStepsVerify ==
  ASSUME InsideTypeOK, [WrappedNext]_wrappedVars
  PROVE  [Next]_vars
<1>1. CASE ShieldEnvironment
  BY <1>1 DEF ShieldEnvironment, Next
<1>2. CASE \E r \in Requests : ShieldStep(r)
  BY <1>2, ShieldStepsVerify
<1>3. CASE \/ Elsewhere \/ UNCHANGED wrappedVars
           \/ \E r \in Requests : Record(r) \/ Fire(r) \/ HandOn(r)
  BY <1>3 DEF Elsewhere, wrappedVars, Record, Fire, HandOn
<1> QED
  BY <1>1, <1>2, <1>3 DEF WrappedNext

LEMMA ShieldTypes ==
  ASSUME InsideTypeOK, NEW r \in Requests, ShieldStep(r)
  PROVE  ShieldTypeOK' /\ CreatedInv'
<1>0. ClockTypeOK /\ ShieldTypeOK /\ CreatedInv /\ 0 \in 0..MaxClock /\ MaxClock \in Nat
  BY ClockAssumption DEF InsideTypeOK, TypeOK
<1>1. ASSUME NEW what \in Results, Leave(r, what), UNCHANGED fn
      PROVE  ShieldTypeOK' /\ CreatedInv'
  BY <1>0, <1>1 DEF Leave, ShieldTypeOK, CreatedInv, Stages
<1>2. ASSUME NEW f \in Functions, Invoke(r, f) PROVE ShieldTypeOK' /\ CreatedInv'
  BY <1>0, <1>2 DEF Invoke, ShieldTypeOK, CreatedInv, Stages, ClockTypeOK
<1>3. ASSUME NEW c \in Claims \cup {NoClaim}, NEW o \in Observations \cup {NoObservation},
             Entrust(r, c, o) \/ EntrustAlone(r, c, o)
      PROVE  ShieldTypeOK' /\ CreatedInv'
  <2>1. Submit(r, c, o) /\ \E b \in BOOLEAN : granted' = [granted EXCEPT ![r] = b]
    <3>1. granted = [granted EXCEPT ![r] = granted[r]] /\ granted[r] \in BOOLEAN
      BY <1>0 DEF ShieldTypeOK
    <3>2. PassesAlone(EnvelopeOf(r, c, o), clock) \in BOOLEAN
      BY DEF PassesAlone
    <3> QED
      BY <1>3, <3>1, <3>2 DEF Entrust, EntrustAlone
  <2> QED
    BY <1>0, <2>1 DEF Submit, ShieldTypeOK, CreatedInv, Stages, ClockTypeOK
<1>4. CASE Verifying(r)
  BY <1>0, <1>4 DEF Verifying, shieldVars, ShieldTypeOK, CreatedInv
<1>5. CASE Run(r)
  BY <1>0, <1>5 DEF Run, ShieldTypeOK, CreatedInv, Stages
<1>6. CASE ResolverRaises(r) \/ Block(r) \/ Finish(r)
  BY <1>1, <1>6 DEF ResolverRaises, Block, Finish, Results
<1> QED
  BY <1>2, <1>3, <1>4, <1>5, <1>6 DEF ShieldStep

LEMMA InsideTypeStep ==
  ASSUME InsideTypeOK, [WrappedNext]_wrappedVars
  PROVE  InsideTypeOK'
<1>1. TypeOK'
  BY WrappedStepsVerify, TypeStep DEF InsideTypeOK
<1>2. CASE UNCHANGED shieldVars
  BY <1>1, <1>2 DEF InsideTypeOK, ShieldTypeOK, CreatedInv, shieldVars
<1>3. CASE \E r \in Requests : ShieldStep(r)
  BY <1>1, <1>3, ShieldTypes DEF InsideTypeOK
<1> QED
  BY <1>2, <1>3
     DEF WrappedNext, ShieldEnvironment, Elsewhere, wrappedVars, Record, Fire, HandOn

LEMMA InsideInitialTypes ==
  ASSUME WrappedInit
  PROVE  InsideTypeOK
<1>1. TypeOK
  BY InitialTypes, VerifyAssumption DEF WrappedInit
<1>2. ShieldTypeOK /\ CreatedInv
  BY ShieldAssumption, ClockAssumption
     DEF WrappedInit, ShieldInit, ShieldTypeOK, CreatedInv, Stages, Results
<1> QED
  BY <1>1, <1>2 DEF InsideTypeOK

LEMMA InsideTypeInvariant == WrappedSpec => []InsideTypeOK
  BY InsideInitialTypes, InsideTypeStep, PTL DEF WrappedSpec

(* Protected functions that share a store and an engine run the pipeline   *)
(* of VerifyIntent on them, and nothing else touches what it decides by,   *)
(* the functions that share nothing included: whatever is proved of        *)
(* verify_intent holds behind protect (shield.py calls it and keeps no     *)
(* state beside it).                                                       *)
THEOREM ShieldImplementsVerify == WrappedSpec => Spec
<1>1. WrappedInit => Init
  BY DEF WrappedInit
<1>2. InsideTypeOK /\ [WrappedNext]_wrappedVars => [Next]_vars
  BY WrappedStepsVerify
<1> QED
  BY <1>1, <1>2, InsideTypeInvariant, PTL DEF WrappedSpec, Spec

(* What a protected function with a shared engine may have moved counts    *)
(* against its agent's day, also when the function raised (protect         *)
(* verifies before it calls, and releases nothing).                        *)
THEOREM MovedMoneyCounted == WrappedSpec => []MovedMoneyIsCounted
<1>1. ReservationInv /\ ReservedInv => MovedMoneyIsCounted
  BY DEF ReservationInv, ReservedInv, ReservationAccounted, Holding, Allowed,
         MovedMoneyIsCounted
<1> QED
  BY <1>1, ShieldImplementsVerify, ReservedInvariant, PTL

(* The kill switch holds for protected functions with a shared store: none *)
(* is called on behalf of an agent or an issuer barred in it from entry to *)
(* answer.                                                                 *)
THEOREM KillSwitchHoldsBehindShield == WrappedSpec => []BarredNeverAllowed
  BY ShieldImplementsVerify, KillSwitchHolds, PTL

(* Nor do protected functions with a shared engine, however they           *)
(* interleave, take an agent's ledger beyond the limit one of its entries  *)
(* was signed with.                                                        *)
THEOREM LimitHoldsBehindShield == WrappedSpec => []LedgerWithinLimit
  BY ShieldImplementsVerify, LimitHolds, PTL

(* Nor does a shared store tell a nonce to be new twice in a retention     *)
(* period, however the threads of protected functions interleave.          *)
THEOREM NonceSpentOnceBehindShield == WrappedSpec => []NonceSpentOncePerRetention
  BY ShieldImplementsVerify, NonceSpentOnce, PTL

(* And of protected functions with shared objects too, every reservation   *)
(* is accounted for, the agents' histories tell what came of their calls,  *)
(* and a violation names the most fundamental problem.                     *)
THEOREM AnswersHoldBehindShield ==
  WrappedSpec => /\ []ReservationAccounted
                 /\ []HistoryMatchesVerdicts /\ []MostFundamentalReported
  BY ShieldImplementsVerify, ReservationsAccountedFor, HistoriesMatchVerdicts,
     MostFundamental

-----------------------------------------------------------------------------
(* What a value-moving function runs on.                                   *)

(* Whoever has passed the market's check is not at odds with the market.   *)
MarketInv ==
  \A r \in Requests :
    pc[r] \in {"trust", "succeed"} \/ verdict[r] = "allow" =>
      call[r].tier = 0 \/ "asset_truth" \notin call[r].flaws

(* The envelope made for the call, with what the resolvers returned.       *)
Sealed(r) == Signed(r, fn[r], created[r], evidence[r][1], evidence[r][2], asked[r])

(* It is what is verified, among others or alone.                          *)
EvidenceInv ==
  \A r \in Requests :
    /\ stage[r] \in {"verifying", "running"} =>
         /\ fn[r].shared => pc[r] # "idle" /\ call[r] = Sealed(r) /\ now[r] = asked[r]
         /\ ~fn[r].shared /\ granted[r] => PassesAlone(Sealed(r), asked[r])
    /\ stage[r] = "running" => Passed(r)

LEMMA MarketAmongLateSteps ==
  ASSUME NEW e, NEW t, e.tier \in {1, 2}, PassesAll(LateSteps(e), e, t)
  PROVE  ~Fails(e, "asset_truth", t)
<1>1. 1 \in 1..Len(LateSteps(e)) /\ LateSteps(e)[1] = "asset_truth"
  BY DEF LateSteps
<1> QED
  BY <1>1 DEF PassesAll

LEMMA MarketPassed ==
  ASSUME VerifyTypeOK, NEW r \in Requests, MeetsMarket(r)
  PROVE  \/ \E v \in StaticSteps : FailAuthenticated(r, v)
         \/ call[r].tier = 0 \/ "asset_truth" \notin call[r].flaws
<1>1. CASE PassesAll(LateSteps(call[r]), call[r], now[r]) /\ call[r].tier # 0
  <2>1. call[r].tier \in {1, 2}
    BY <1>1, CallFields
  <2> QED
    BY <1>1, <2>1, MarketAmongLateSteps DEF Fails
<1> QED
  BY <1>1, LateStepsAreVerdicts DEF MeetsMarket

LEMMA OwnStepKeepsMarket ==
  ASSUME TypeOK, KillSwitchInv, MarketInv, NEW r \in Requests, Step(r)
  PROVE  MarketInv!(r)'
<1>0. VerifyTypeOK /\ UNCHANGED call
  BY StepMoves DEF TypeOK
<1>1. pc[r] # "done" /\ verdict[r] # "allow"
  BY DEF Step, Attest, Depth, SpendNonceOf, Reserve, Violation, Freshness,
         CheckAgent, CheckSuspended, CheckIssuer, CheckTrust, Release,
         RecordFailure, Succeed, KillSwitchInv
<1>2. ASSUME NEW v \in Verdicts \ {"allow"}, FailAuthenticated(r, v)
      PROVE  MarketInv!(r)'
  BY <1>0, <1>2 DEF FailAuthenticated, Goto, Refuse, VerifyTypeOK
<1>3. ASSUME NEW to \in PCs \ {"trust", "succeed"}, Goto(r, to), UNCHANGED verdict
      PROVE  MarketInv!(r)'
  BY <1>0, <1>1, <1>3 DEF Goto, VerifyTypeOK
<1>4. ASSUME MeetsMarket(r) PROVE MarketInv!(r)'
  <2>1. CASE call[r].tier = 0 \/ "asset_truth" \notin call[r].flaws
    BY <1>0, <2>1
  <2>2. StaticSteps \subseteq Verdicts \ {"allow"}
    BY DEF StaticSteps, Verdicts
  <2> QED
    BY <1>0, <1>2, <1>4, <2>1, <2>2, MarketPassed
<1>5. CASE \/ Attest(r) \/ Depth(r) \/ SpendNonceOf(r) \/ Reserve(r) \/ Violation(r)
           \/ Freshness(r) \/ CheckSuspended(r) \/ Release(r) \/ RecordFailure(r)
  <2>1. \/ \E to \in PCs \ {"trust", "succeed"} : Goto(r, to) /\ UNCHANGED verdict
        \/ \E v \in Verdicts \ {"allow"} : FailAuthenticated(r, v)
    BY <1>5
       DEF Attest, Depth, SpendNonceOf, Reserve, Violation, Freshness,
           CheckSuspended, Release, RecordFailure, PCs, Verdicts, StaticSteps,
           RevocationVerdicts
  <2> QED
    BY <1>2, <1>3, <2>1
<1>6. CASE CheckAgent(r) \/ CheckIssuer(r)
  <2>1. \/ \E to \in PCs \ {"trust", "succeed"} : Goto(r, to) /\ UNCHANGED verdict
        \/ \E v \in Verdicts \ {"allow"} : FailAuthenticated(r, v)
        \/ MeetsMarket(r)
    BY <1>6 DEF CheckAgent, CheckIssuer, PCs, Verdicts, RevocationVerdicts
  <2> QED
    BY <1>2, <1>3, <1>4, <2>1
<1>7. CASE CheckTrust(r) \/ Succeed(r)
  BY <1>0, <1>7 DEF MarketInv, CheckTrust, Succeed
<1> QED
  BY <1>5, <1>6, <1>7 DEF Step

LEMMA MarketStep ==
  ASSUME TypeOK, KillSwitchInv, MarketInv, [Next]_vars
  PROVE  MarketInv'
<1>1. CASE UNCHANGED requestVars
  BY <1>1 DEF MarketInv, requestVars
<1>2. ASSUME NEW r \in Requests, NEW c \in Calls, Reject(r, c) \/ Authenticate(r, c)
      PROVE  MarketInv'
  <2>1. VerifyTypeOK /\ pc[r] = "idle" /\ verdict[r] # "allow"
    BY <1>2 DEF Reject, Authenticate, Receive, TypeOK, KillSwitchInv
  <2>2. pc'[r] \in {"attest", "done"} /\ verdict'[r] # "allow"
    BY <1>2, <2>1
       DEF Reject, Authenticate, Receive, Goto, Refuse, EarlySteps, VerifyTypeOK
  <2>3. \A q \in Requests \ {r} :
          pc'[q] = pc[q] /\ verdict'[q] = verdict[q] /\ call'[q] = call[q]
    BY <1>2, <2>1
       DEF Reject, Authenticate, Receive, Goto, Refuse, VerifyTypeOK
  <2> QED
    BY <2>2, <2>3 DEF MarketInv
<1>3. ASSUME NEW r \in Requests, Step(r) PROVE MarketInv'
  <2>1. \A q \in Requests \ {r} :
          pc'[q] = pc[q] /\ verdict'[q] = verdict[q] /\ call'[q] = call[q]
    <3>1. \/ \E to \in PCs : Goto(r, to) /\ UNCHANGED verdict
          \/ \E v \in Verdicts : FailAuthenticated(r, v)
          \/ Succeed(r)
      BY <1>3, StepMoves DEF TypeOK
    <3>2. UNCHANGED call /\ VerifyTypeOK
      BY <1>3, StepMoves DEF TypeOK
    <3> QED
      BY <3>1, <3>2 DEF VerifyTypeOK, Goto, FailAuthenticated, Refuse, Succeed
  <2> QED
    BY <1>3, <2>1, OwnStepKeepsMarket DEF MarketInv
<1> QED
  BY <1>1, <1>2, <1>3 DEF Next, Pass, Synchronise, Operate, vars

LEMMA ShieldStepKeepsEvidence ==
  ASSUME InsideTypeOK, EvidenceInv, NEW r \in Requests, ShieldStep(r)
  PROVE  EvidenceInv'
<1>0. VerifyTypeOK /\ ShieldTypeOK
  BY DEF InsideTypeOK, TypeOK
<1>1. CASE \E f \in Functions : Invoke(r, f)
  BY <1>0, <1>1
     DEF EvidenceInv, Invoke, ShieldTypeOK, Sealed, Passed, Allowed, Done, vars, requestVars
<1>2. CASE \E c \in Claims \cup {NoClaim}, o \in Observations \cup {NoObservation} :
              Entrust(r, c, o)
  <2>1. PICK c \in Claims \cup {NoClaim}, o \in Observations \cup {NoObservation} :
          Entrust(r, c, o)
    BY <1>2
  <2> DEFINE e == EnvelopeOf(r, c, o)
  <2>2. e \in Calls
    BY EntrustedIsCall
  <2>3. pc[r] = "idle" /\ pc' = [pc EXCEPT ![r] = pc'[r]] /\ pc'[r] \in {"attest", "done"}
    BY <1>0, <2>1 DEF Entrust, Reject, Authenticate, Receive, Goto, VerifyTypeOK
  <2>4. call' = [call EXCEPT ![r] = e] /\ now' = [now EXCEPT ![r] = clock]
    BY <2>1 DEF Entrust, Reject, Authenticate, Receive
  <2>5. \A q \in Requests \ {r} : verdict'[q] = verdict[q]
    BY <1>0, <2>1 DEF Entrust, Reject, Authenticate, Refuse, VerifyTypeOK
  <2>6. Submit(r, c, o) /\ fn[r].shared /\ UNCHANGED granted
    BY <2>1 DEF Entrust
  <2>7. EvidenceInv!(r)'
    <3>1. /\ call'[r] = e /\ now'[r] = clock /\ pc'[r] # "idle"
          /\ stage'[r] = "verifying" /\ fn'[r].shared
      BY <1>0, <2>3, <2>4, <2>6 DEF VerifyTypeOK, ShieldTypeOK, Submit
    <3>2. Sealed(r)' = e /\ asked'[r] = clock
      BY <1>0, <2>6 DEF Sealed, EnvelopeOf, Submit, ShieldTypeOK
    <3> HIDE DEF e
    <3> QED
      BY <3>1, <3>2
  <2>8. \A q \in Requests \ {r} : EvidenceInv!(q)'
    BY <1>0, <2>3, <2>4, <2>5, <2>6
       DEF EvidenceInv, Submit, VerifyTypeOK, ShieldTypeOK, Sealed, Passed, Allowed, Done
  <2> QED
    BY <2>7, <2>8 DEF EvidenceInv
<1>3. CASE Verifying(r)
  <2>1. Step(r) /\ UNCHANGED shieldVars
    BY <1>3 DEF Verifying
  <2>2. UNCHANGED <<call, now>>
    BY <1>0, <2>1, StepMoves
  <2>3. pc[r] # "done" /\ pc[r] # "idle"
    BY <2>1
       DEF Step, Attest, Depth, SpendNonceOf, Reserve, Violation, Freshness,
           CheckAgent, CheckSuspended, CheckIssuer, CheckTrust, Release,
           RecordFailure, Succeed
  <2>4. \A q \in Requests \ {r} : pc'[q] = pc[q] /\ verdict'[q] = verdict[q]
    <3>1. \/ \E to \in PCs : Goto(r, to) /\ UNCHANGED verdict
          \/ \E v \in Verdicts : FailAuthenticated(r, v)
          \/ Succeed(r)
      BY <1>0, <2>1, StepMoves
    <3> QED
      BY <1>0, <3>1 DEF VerifyTypeOK, Goto, FailAuthenticated, Refuse, Succeed
  <2>5. pc'[r] # "idle"
    BY <1>0, <2>1 DEF Step, Attest, Depth, SpendNonceOf, Reserve, Violation,
         Freshness, CheckAgent, CheckSuspended, CheckIssuer, CheckTrust, Release,
         RecordFailure, Succeed, MeetsMarket, FailAuthenticated, Goto, VerifyTypeOK
  <2> QED
    BY <2>1, <2>2, <2>3, <2>4, <2>5
       DEF EvidenceInv, shieldVars, Sealed, Passed, Allowed, Done
<1>4. CASE \E c \in Claims \cup {NoClaim}, o \in Observations \cup {NoObservation} :
              EntrustAlone(r, c, o)
  <2>1. PICK c \in Claims \cup {NoClaim}, o \in Observations \cup {NoObservation} :
          EntrustAlone(r, c, o)
    BY <1>4
  <2> DEFINE e == EnvelopeOf(r, c, o)
  <2>2. /\ Submit(r, c, o) /\ ~fn[r].shared /\ UNCHANGED vars
        /\ granted' = [granted EXCEPT ![r] = PassesAlone(e, clock)]
    BY <2>1 DEF EntrustAlone
  <2>3. EvidenceInv!(r)'
    <3>1. /\ stage'[r] = "verifying" /\ ~fn'[r].shared
          /\ granted'[r] = PassesAlone(e, clock)
      BY <1>0, <2>2 DEF ShieldTypeOK, Submit
    <3>2. Sealed(r)' = e /\ asked'[r] = clock
      BY <1>0, <2>2 DEF Sealed, EnvelopeOf, Submit, ShieldTypeOK
    <3> HIDE DEF e
    <3>3. PassesAlone(e, clock) => PassesAlone(Sealed(r)', asked'[r])
      BY <3>2
    <3>4. PassesAlone(Sealed(r)', asked'[r]) = PassesAlone(Sealed(r), asked[r])'
      BY DEF PassesAlone, PassesAll, Fails, LateSteps, HasAmount
    <3> QED
      BY <3>1, <3>3, <3>4
  <2>4. \A q \in Requests \ {r} : EvidenceInv!(q)'
    BY <1>0, <2>2
       DEF EvidenceInv, Submit, ShieldTypeOK, Sealed, Passed, Allowed, Done, vars,
           requestVars
  <2> QED
    BY <2>3, <2>4 DEF EvidenceInv
<1>5. CASE ResolverRaises(r) \/ Block(r) \/ Finish(r)
  BY <1>0, <1>5
     DEF EvidenceInv, ResolverRaises, Block, Finish, Leave, ShieldTypeOK, Sealed,
         Passed, Allowed, Done, vars, requestVars
<1>6. CASE Run(r)
  BY <1>0, <1>6
     DEF EvidenceInv, Run, ShieldTypeOK, Sealed, Passed, Allowed, Done, vars, requestVars
<1> QED
  BY <1>1, <1>2, <1>3, <1>4, <1>5, <1>6 DEF ShieldStep

LEMMA EvidenceStep ==
  ASSUME InsideTypeOK, EvidenceInv, [WrappedNext]_wrappedVars
  PROVE  EvidenceInv'
<1>1. CASE UNCHANGED shieldVars /\ UNCHANGED requestVars
  BY <1>1 DEF EvidenceInv, shieldVars, requestVars, Sealed, Passed, Allowed, Done
<1>2. CASE \E r \in Requests : ShieldStep(r)
  BY <1>2, ShieldStepKeepsEvidence
<1> QED
  BY <1>1, <1>2
     DEF WrappedNext, ShieldEnvironment, Pass, Synchronise, Operate, Elsewhere,
         wrappedVars, vars, Record, Fire, HandOn

(* What ValueMovesOnEvidence says of claim and observation.                *)
AgreeAt(c, o, t) ==
  /\ c # NoClaim /\ o # NoObservation
  /\ t - StaleAfter <= c.attested /\ c.attested <= t + Skew
  /\ \/ 100 * Distance(c.yield, o.yield) <= DriftPercent * o.yield
     \/ o.yield = 0 /\ c.yield <= ZeroTolerance

LEMMA PlausibleEvidence ==
  ASSUME NEW c \in Claims \cup {NoClaim}, NEW o \in Observations \cup {NoObservation},
         NEW t \in Nat, Plausible(c, o, t)
  PROVE  AgreeAt(c, o, t)
<1>1. /\ c # NoClaim /\ c \in ClaimRecord
      /\ o # NoObservation /\ o \in ObservationRecord
  BY ShieldAssumption DEF Plausible
<1>2. /\ StaleAfter \in Nat /\ Skew \in Nat /\ DriftPercent \in Nat
      /\ ZeroTolerance \in Nat
  BY ShieldAssumption, VerifyAssumption
<1>3. t - StaleAfter <= c.attested /\ c.attested <= t + Skew
  BY <1>1, <1>2 DEF Plausible, ClaimRecord
<1>4. \/ 100 * Distance(c.yield, o.yield) <= DriftPercent * o.yield
      \/ o.yield = 0 /\ c.yield <= ZeroTolerance
  <2>1. c.yield \in Nat /\ o.yield \in Nat /\ ~Drifts(c.yield, o.yield)
    BY <1>1 DEF Plausible, ClaimRecord, ObservationRecord
  <2>2. Distance(c.yield, o.yield) \in Nat /\ (o.yield = 0 => Distance(c.yield, o.yield) = c.yield)
    BY <2>1 DEF Distance
  <2>3. DriftPercent * o.yield \in Nat
    BY <1>2, <2>1
  <2> QED
    BY <1>2, <2>1, <2>2, <2>3 DEF Drifts
<1> QED
  BY <1>1, <1>3, <1>4 DEF AgreeAt

LEMMA EvidenceSuffices ==
  ASSUME InsideTypeOK, MarketInv, EvidenceInv
  PROVE  ValueMovesOnEvidence
<1> SUFFICES ASSUME NEW r \in Requests, stage[r] = "running", MovesValue(r)
             PROVE  ValueMovesOnEvidence!(r)
  BY DEF ValueMovesOnEvidence
<1> DEFINE c == evidence[r][1]
           o == evidence[r][2]
<1>1. /\ c \in Claims \cup {NoClaim} /\ o \in Observations \cup {NoObservation}
      /\ asked[r] \in Nat
  BY DEF InsideTypeOK, ShieldTypeOK
<1>2. Sealed(r).tier \in {1, 2}
  BY DEF Sealed, Signed, SelectTier, MovesValue
<1>3. "asset_truth" \notin Sealed(r).flaws
  <2>1. CASE fn[r].shared
    BY <1>2, <2>1 DEF EvidenceInv, Passed, Allowed, MarketInv
  <2>2. CASE ~fn[r].shared
    <3>1. PassesAlone(Sealed(r), asked[r])
      BY <2>2 DEF EvidenceInv, Passed
    <3>2. ~Fails(Sealed(r), "asset_truth", asked[r])
      BY <1>2, <3>1, MarketAmongLateSteps DEF PassesAlone
    <3> QED
      BY <3>2 DEF Fails
  <2> QED
    BY <2>1, <2>2
<1>4. Plausible(c, o, asked[r])
  BY <1>3 DEF Sealed, Signed
<1>5. AgreeAt(c, o, asked[r])
  BY <1>1, <1>4, PlausibleEvidence
<1> QED
  BY <1>5 DEF AgreeAt

(* Without a tier of its own a value-moving function runs on evidence that *)
(* agrees at the moment it is verified, for any functions and resolvers,   *)
(* with shared objects and without: the market check stands between every  *)
(* envelope the shield makes and the function (shield.py, verification.py, *)
(* drift.py).                                                              *)
THEOREM ValueMovesOnlyOnEvidence == WrappedSpec => []ValueMovesOnEvidence
<1>1. Init => KillSwitchInv /\ MarketInv
  BY DEF Init, KillSwitchInv, MarketInv
<1>2. WrappedInit => EvidenceInv
  BY DEF WrappedInit, ShieldInit, EvidenceInv
<1>3. Spec => [](TypeOK /\ KillSwitchInv /\ MarketInv)
  BY <1>1, InitialTypes, VerifyAssumption, TypeStep, KillSwitchStep, MarketStep, PTL
     DEF Spec
<1>4. WrappedSpec => [](InsideTypeOK /\ EvidenceInv)
  BY <1>2, InsideInitialTypes, InsideTypeStep, EvidenceStep, PTL DEF WrappedSpec
<1> QED
  BY <1>3, <1>4, ShieldImplementsVerify, EvidenceSuffices, PTL

-----------------------------------------------------------------------------
(* Callbacks.                                                              *)

(* What a call copied is what it has fired and what it has yet to fire.    *)
HooksInv ==
  /\ callbacks \in Seq(Hooks)
  /\ {toFire, due, heard} \subseteq [Requests -> Seq(Hooks)]
  /\ \A r \in Requests :
       /\ due[r] = heard[r] \o toFire[r]
       /\ wrapper[r] = "calling" => heard[r] = <<>>
  /\ DOMAIN wrapper = Requests

LEMMA CallbackMoves ==
  ASSUME HooksInv, Clear \/ Subscribe \/ UNCHANGED observationVars
  PROVE  callbacks' \in Seq(Hooks)
<1>1. CASE Clear \/ UNCHANGED observationVars
  BY <1>1 DEF HooksInv, Clear, ClearEvents, observationVars
<1>2. CASE Subscribe
  BY <1>2, AppendProperties DEF HooksInv, Subscribe, OnEvent
<1> QED
  BY <1>1, <1>2

LEMMA FiredNext ==
  ASSUME NEW h \in Seq(Hooks), NEW s \in Seq(Hooks), s # <<>>
  PROVE  /\ Append(h, Head(s)) \in Seq(Hooks) /\ Tail(s) \in Seq(Hooks)
         /\ Append(h, Head(s)) \o Tail(s) = h \o s
<1>1. Head(s) \in Hooks /\ Tail(s) \in Seq(Hooks) /\ Append(h, Head(s)) \in Seq(Hooks)
  BY HeadTailProperties, AppendProperties
<1>2. s = <<Head(s)>> \o Tail(s)
  <2>1. Len(s) \in Nat \ {0} /\ Head(s) = s[1]
    BY EmptySeq, HeadTailProperties
  <2>2. s = <<s[1]>> \o SubSeq(s, 2, Len(s))
    BY <2>1, SubSeqFull, SubSeqRecursiveFirst
  <2> QED
    BY <2>1, <2>2, TailIsSubSeq
<1>3. Append(h, Head(s)) = h \o <<Head(s)>> /\ <<Head(s)>> \in Seq(Hooks)
  BY <1>1, AppendIsConcat
<1> QED
  BY <1>1, <1>2, <1>3, ConcatAssociative

LEMMA HooksStep ==
  ASSUME HooksInv, [WrappedNext]_wrappedVars
  PROVE  HooksInv'
<1>1. CASE UNCHANGED <<wrapper, toFire, due, heard, callbacks>>
  BY <1>1 DEF HooksInv
<1>2. CASE Elsewhere
  BY <1>2, CallbackMoves DEF Elsewhere, HooksInv
<1>3. ASSUME NEW r \in Requests, Record(r) PROVE HooksInv'
  <2>1. <<>> \o callbacks = callbacks
    BY ConcatEmptySeq DEF HooksInv
  <2>2. /\ toFire' = [toFire EXCEPT ![r] = callbacks] /\ UNCHANGED <<callbacks, heard>>
        /\ due' = [due EXCEPT ![r] = callbacks]
        /\ wrapper[r] = "calling" /\ wrapper' = [wrapper EXCEPT ![r] = "firing"]
    BY <1>3 DEF Record, RecordEvent
  <2>3. \A q \in Requests : HooksInv!3!(q)'
    <3>1. heard[r] = <<>>
      BY <2>2 DEF HooksInv
    <3>2. due'[r] = heard'[r] \o toFire'[r] /\ heard'[r] = <<>>
      BY <2>1, <2>2, <3>1 DEF HooksInv
    <3>3. wrapper'[r] # "calling"
      BY <2>2 DEF HooksInv
    <3>4. ASSUME NEW q \in Requests, q # r
          PROVE  /\ wrapper'[q] = wrapper[q] /\ toFire'[q] = toFire[q]
                 /\ due'[q] = due[q] /\ heard'[q] = heard[q]
      BY <2>2, <3>4 DEF HooksInv
    <3>5. ASSUME NEW q \in Requests, q # r PROVE HooksInv!3!(q)'
      BY <3>4, <3>5 DEF HooksInv
    <3> QED
      BY <3>2, <3>3, <3>5
  <2> QED
    BY <2>2, <2>3 DEF HooksInv
<1>4. ASSUME NEW r \in Requests, Fire(r) PROVE HooksInv'
  <2>1. callbacks' \in Seq(Hooks)
    BY <1>4, CallbackMoves DEF Fire
  <2>2. /\ toFire' = [toFire EXCEPT ![r] = Tail(@)]
        /\ heard' = [heard EXCEPT ![r] = Append(@, Head(toFire[r]))]
        /\ wrapper[r] = "firing" /\ toFire[r] # <<>> /\ UNCHANGED <<wrapper, due>>
    BY <1>4 DEF Fire, Remaining
  <2>3. /\ Append(heard[r], Head(toFire[r])) \in Seq(Hooks) /\ Tail(toFire[r]) \in Seq(Hooks)
        /\ Append(heard[r], Head(toFire[r])) \o Tail(toFire[r]) = heard[r] \o toFire[r]
    BY <2>2, FiredNext DEF HooksInv
  <2>4. {toFire, due, heard}' \subseteq [Requests -> Seq(Hooks)]
    BY <2>2, <2>3 DEF HooksInv
  <2>5. \A q \in Requests : HooksInv!3!(q)'
    BY <2>2, <2>3 DEF HooksInv
  <2>6. DOMAIN wrapper' = Requests
    BY <2>2 DEF HooksInv
  <2> QED
    BY <2>1, <2>4, <2>5, <2>6 DEF HooksInv
<1>5. ASSUME NEW r \in Requests, HandOn(r) PROVE HooksInv'
  <2>1. <<>> \in Seq(Hooks) /\ <<>> \o <<>> = <<>>
    BY EmptySeq, ConcatEmptySeq
  <2> QED
    BY <1>5, <2>1 DEF HooksInv, HandOn, observationVars
<1> QED
  BY <1>1, <1>2, <1>3, <1>4, <1>5
     DEF WrappedNext, wrappedVars, wrapperVars, observationVars

(* Whatever callbacks do to the store they are called from, every callback *)
(* copied with an event is fired with it once and in order before the      *)
(* caller has its answer (record, _make_wrapper), for any callbacks.       *)
THEOREM EveryHookIsFired == WrappedSpec => []HooksHearEveryEvent
<1>1. WrappedInit => HooksInv
  BY EmptySeq, ConcatEmptySeq DEF WrappedInit, ObservationInit, HooksInv
<1>2. HooksInv => HooksHearEveryEvent
  BY ConcatEmptySeq DEF HooksInv, HooksHearEveryEvent
<1> QED
  BY <1>1, <1>2, HooksStep, PTL DEF WrappedSpec

-----------------------------------------------------------------------------
(* Type correctness of the store and of the observing wrapper.             *)

LEMMA NewestType ==
  ASSUME NEW S, NEW s \in Seq(S), NEW n \in Nat
  PROVE  Newest(s, n) \in Seq(S)
<1>1. Len(s) \in Nat /\ \A i \in 1..Len(s) : s[i] \in S
  BY LenProperties, ElementOfSeq
<1>2. CASE Len(s) > n
  <2>1. \A i \in (Len(s) - n + 1)..Len(s) : s[i] \in S
    BY <1>1, <1>2
  <2> QED
    BY <1>1, <1>2, <2>1, SubSeqProperties DEF Newest
<1> QED
  BY <1>2 DEF Newest

LEMMA ObservationMethodTypes ==
  ASSUME ObservationTypeOK
  PROVE  /\ \A e \in Event : RecordEvent(e) => ObservationTypeOK'
         /\ \A h \in Hooks : OnEvent(h) => ObservationTypeOK'
         /\ ClearEvents => ObservationTypeOK'
<1>1. ASSUME NEW e \in Event, RecordEvent(e) PROVE ObservationTypeOK'
  <2>1. events' \in Seq(Event)
    BY <1>1, AppendProperties, NewestType, WrappedAssumption
       DEF ObservationTypeOK, RecordEvent
  <2>2. Counted(stats[e.agent], e.success) \in Counters
    BY DEF ObservationTypeOK, Event, Counted, Counters
  <2> QED
    BY <1>1, <2>1, <2>2 DEF ObservationTypeOK, RecordEvent, Event
<1>2. ASSUME NEW h \in Hooks, OnEvent(h) PROVE ObservationTypeOK'
  BY <1>2, AppendProperties DEF ObservationTypeOK, OnEvent
<1>3. ASSUME ClearEvents PROVE ObservationTypeOK'
  BY <1>3, EmptySeq DEF ObservationTypeOK, ClearEvents, Counters, NoCounts
<1> QED
  BY <1>1, <1>2, <1>3

LEMMA RecordedEventType ==
  ASSUME ShieldTypeOK, NEW r \in Requests
  PROVE  [agent |-> fn[r].agent, by |-> r, success |-> Succeeded(r)] \in Event
<1>1. fn[r] \in Function
  BY ShieldAssumption DEF ShieldTypeOK
<1> QED
  BY <1>1, WrappedAssumption DEF Function, Event, Succeeded

(* The variables that are neither the shield's nor sequences of callbacks. *)
OuterTypeOK ==
  /\ ObservationTypeOK
  /\ wrapper \in [Requests -> {"calling", "firing", "returned"}]
  /\ since \in Seq(Requests)
  /\ clears \in Nat

LEMMA OuterTypeStep ==
  ASSUME OuterTypeOK, ShieldTypeOK, [WrappedNext]_wrappedVars
  PROVE  OuterTypeOK'
<1>1. CASE UNCHANGED <<observationVars, wrapper, since, clears>>
  BY <1>1 DEF OuterTypeOK, ObservationTypeOK, observationVars
<1>2. ASSUME Clear, UNCHANGED wrapper PROVE OuterTypeOK'
  <2>1. ObservationTypeOK'
    BY <1>2, ObservationMethodTypes DEF OuterTypeOK, Clear
  <2> QED
    BY <1>2, <2>1, EmptySeq DEF OuterTypeOK, Clear
<1>3. ASSUME Subscribe, UNCHANGED wrapper PROVE OuterTypeOK'
  <2>1. ObservationTypeOK'
    BY <1>3, ObservationMethodTypes DEF OuterTypeOK, Subscribe
  <2> QED
    BY <1>3, <2>1 DEF OuterTypeOK, Subscribe
<1>4. ASSUME NEW r \in Requests, Record(r) PROVE OuterTypeOK'
  <2>1. \E e \in Event : RecordEvent(e)
    BY <1>4, RecordedEventType DEF Record
  <2>2. ObservationTypeOK'
    BY <2>1, ObservationMethodTypes DEF OuterTypeOK
  <2>3. since' \in Seq(Requests) /\ clears' = clears
    BY <1>4, AppendProperties DEF Record, OuterTypeOK
  <2> QED
    BY <1>4, <2>2, <2>3 DEF OuterTypeOK, Record
<1>5. ASSUME NEW r \in Requests, Fire(r) PROVE OuterTypeOK'
  BY <1>1, <1>2, <1>3, <1>5 DEF Fire
<1>6. ASSUME NEW r \in Requests, HandOn(r) PROVE OuterTypeOK'
  BY <1>6 DEF HandOn, OuterTypeOK, ObservationTypeOK, observationVars
<1>7. CASE Elsewhere
  BY <1>2, <1>3, <1>7 DEF Elsewhere
<1> QED
  BY <1>1, <1>4, <1>5, <1>6, <1>7 DEF WrappedNext, wrappedVars, wrapperVars

(* Every reachable state has the declared types: the pipeline's, the       *)
(* shield's, the store's and the observing wrapper's.                      *)
THEOREM WrappedTypeCorrect == WrappedSpec => []WrappedTypeOK
<1>1. WrappedInit => OuterTypeOK /\ HooksInv
  BY EmptySeq, ConcatEmptySeq
     DEF WrappedInit, HooksInv, ObservationInit, OuterTypeOK, ObservationTypeOK,
         Counters, NoCounts
<1>2. OuterTypeOK /\ InsideTypeOK /\ [WrappedNext]_wrappedVars => OuterTypeOK'
  BY OuterTypeStep DEF InsideTypeOK
<1>3. OuterTypeOK /\ InsideTypeOK /\ HooksInv => WrappedTypeOK
  BY DEF OuterTypeOK, InsideTypeOK, HooksInv, WrappedTypeOK
<1> QED
  BY <1>1, <1>2, <1>3, HooksStep, InsideTypeInvariant, PTL DEF WrappedSpec

-----------------------------------------------------------------------------
(* Counters and ring buffer.                                               *)

Mine(a) == {i \in 1..Len(since) : fn[since[i]].agent = a}
Successes(a) == {i \in Mine(a) : Succeeded(since[i])}

BufferMatches ==
  /\ Len(events) = AtMost(Len(since), MaxEvents)
  /\ \A i \in 1..Len(events) :
       /\ events[i].by = since[Len(since) - Len(events) + i]
       /\ events[i].success = Succeeded(since[Len(since) - Len(events) + i])

StatsMatch == \A a \in Agents :
  /\ stats[a].total = Cardinality(Mine(a))
  /\ stats[a].success = Cardinality(Successes(a))
  /\ stats[a].total = stats[a].success + stats[a].errors

(* What is recorded is over: its function and its result stay.             *)
RecordedInv ==
  /\ BufferMatches /\ StatsMatch
  /\ \A i \in 1..Len(since) : stage[since[i]] = "left"

LEMMA RecordedSuffices ==
  ASSUME RecordedInv PROVE CountersMatchEvents
  BY DEF RecordedInv, BufferMatches, StatsMatch, CountersMatchEvents, Mine, Successes

LEMMA LeftStays ==
  ASSUME ShieldTypeOK, NEW r \in Requests, ShieldStep(r),
         NEW q \in Requests, stage[q] = "left"
  PROVE  stage'[q] = "left" /\ fn'[q] = fn[q] /\ result'[q] = result[q]
<1>1. CASE Verifying(r)
  BY <1>1 DEF Verifying, shieldVars
<1>2. CASE \E f \in Functions : Invoke(r, f)
  BY <1>2 DEF Invoke, ShieldTypeOK
<1>3. CASE \E c \in Claims \cup {NoClaim}, o \in Observations \cup {NoObservation} :
              Entrust(r, c, o) \/ EntrustAlone(r, c, o)
  BY <1>3 DEF Entrust, EntrustAlone, Submit, ShieldTypeOK
<1>4. CASE ResolverRaises(r)
  BY <1>4 DEF ResolverRaises, Leave, ShieldTypeOK
<1>5. CASE Block(r)
  BY <1>5 DEF Block, Leave, ShieldTypeOK
<1>6. CASE Run(r) \/ Finish(r)
  BY <1>6 DEF Run, Finish, Leave, ShieldTypeOK
<1> QED
  BY <1>1, <1>2, <1>3, <1>4, <1>5, <1>6 DEF ShieldStep

LEMMA RecordedKept ==
  ASSUME OuterTypeOK, RecordedInv, UNCHANGED <<events, stats, since>>,
         \A i \in 1..Len(since) : /\ stage'[since[i]] = "left"
                                  /\ fn'[since[i]] = fn[since[i]]
                                  /\ result'[since[i]] = result[since[i]]
  PROVE  RecordedInv'
<1>1. Len(since) \in Nat /\ Len(events) \in Nat
  BY LenProperties DEF OuterTypeOK, ObservationTypeOK
<1>2. \A i \in 1..Len(events) : Len(since) - Len(events) + i \in 1..Len(since)
  BY <1>1, WrappedAssumption DEF RecordedInv, BufferMatches, AtMost
<1>3. \A i \in 1..Len(since) : Succeeded(since[i])' <=> Succeeded(since[i])
  BY DEF Succeeded
<1>4. BufferMatches'
  BY <1>2, <1>3 DEF RecordedInv, BufferMatches, Succeeded
<1>5. \A a : Mine(a)' = Mine(a)
  BY DEF Mine
<1>6. \A a : Successes(a)' = Successes(a)
  BY <1>3, <1>5 DEF Successes, Mine, Succeeded
<1> QED
  BY <1>4, <1>5, <1>6 DEF RecordedInv, StatsMatch

LEMMA ClearKeeps ==
  ASSUME Clear
  PROVE  RecordedInv'
<1>1. events' = <<>> /\ since' = <<>> /\ Len(<<>>) = 0
  BY EmptySeq DEF Clear, ClearEvents
<1>2. BufferMatches'
  BY <1>1, WrappedAssumption DEF BufferMatches, AtMost
<1>3. \A a : Mine(a)' = {} /\ Successes(a)' = {}
  BY <1>1 DEF Mine, Successes
<1>4. \A a \in Agents : stats'[a] = [total |-> 0, success |-> 0, errors |-> 0]
  BY WrappedAssumption DEF Clear, ClearEvents, NoCounts
<1>5. StatsMatch'
  BY <1>3, <1>4, FS_EmptySet DEF StatsMatch
<1> QED
  BY <1>1, <1>2, <1>5 DEF RecordedInv

LEMMA BufferRecords ==
  ASSUME OuterTypeOK, ShieldTypeOK, RecordedInv, NEW r \in Requests, Record(r)
  PROVE  BufferMatches'
<1> DEFINE e == [agent |-> fn[r].agent, by |-> r, success |-> Succeeded(r)]
           n == Len(events)
           k == Len(since)
           longer == Append(events, e)
<1>1. /\ e \in Event /\ e.by = r /\ e.success = Succeeded(r)
  BY RecordedEventType
<1>2. /\ events' = Newest(longer, MaxEvents) /\ since' = Append(since, r)
      /\ UNCHANGED result
  BY DEF Record, RecordEvent, shieldVars
<1> HIDE DEF e
<1>3. /\ longer \in Seq(Event) /\ Len(longer) = n + 1 /\ longer[n + 1] = e
      /\ \A i \in 1..n : longer[i] = events[i]
      /\ n \in Nat
  BY <1>1, AppendProperties, LenProperties DEF OuterTypeOK, ObservationTypeOK
<1>4. /\ Len(since') = k + 1 /\ since'[k + 1] = r
      /\ \A i \in 1..k : since'[i] = since[i]
      /\ k \in Nat
  BY <1>2, AppendProperties, LenProperties DEF OuterTypeOK
<1>5. /\ n = AtMost(k, MaxEvents) /\ MaxEvents \in Nat
      /\ \A i \in 1..n : /\ events[i].by = since[k - n + i]
                         /\ events[i].success = Succeeded(since[k - n + i])
  BY WrappedAssumption DEF RecordedInv, BufferMatches
<1>6. n <= k
  BY <1>3, <1>4, <1>5 DEF AtMost
<1>7. \A i \in 1..(n + 1) :
        /\ longer[i].by = since'[k - n + i]
        /\ longer[i].success = Succeeded(since'[k - n + i])
  <2> TAKE i \in 1..(n + 1)
  <2>1. CASE i = n + 1
    <3>1. k - n + i = k + 1
      BY <1>3, <1>4, <2>1
    <3> HIDE DEF n, k, longer
    <3> QED
      BY <1>1, <1>3, <1>4, <2>1, <3>1
  <2>2. CASE i \in 1..n
    <3>1. k - n + i \in 1..k
      BY <1>3, <1>4, <1>6, <2>2
    <3> HIDE DEF n, k, longer
    <3> QED
      BY <1>3, <1>4, <1>5, <2>2, <3>1
  <2> QED
    BY <1>3, <2>1, <2>2
<1> HIDE DEF n, k, longer
<1>8. \A q : Succeeded(q)' <=> Succeeded(q)
  BY <1>2 DEF Succeeded
<1>9. CASE n + 1 > MaxEvents
  <2>1. n = MaxEvents /\ k + 1 > MaxEvents
    BY <1>3, <1>4, <1>5, <1>6, <1>9 DEF AtMost
  <2>2. events' = SubSeq(longer, 2, n + 1)
    <3>1. Len(longer) > MaxEvents /\ Len(longer) - MaxEvents + 1 = 2
      BY <1>3, <1>5, <2>1
    <3> QED
      BY <1>2, <1>3, <3>1 DEF Newest
  <2>3. \A i \in 2..(n + 1) : longer[i] \in Event
    BY <1>3, ElementOfSeq
  <2>4. /\ Len(events') = n
        /\ \A i \in 1..n : events'[i] = longer[i + 1]
    <3>1. /\ Len(SubSeq(longer, 2, n + 1)) = IF 2 <= n + 1 THEN n + 1 - 2 + 1 ELSE 0
          /\ \A i \in 1..(n + 1 - 2 + 1) : SubSeq(longer, 2, n + 1)[i] = longer[2 + i - 1]
      BY <1>3, <2>3, SubSeqProperties
    <3>2. n + 1 - 2 + 1 = n /\ \A i \in 1..n : 2 + i - 1 = i + 1
      BY <1>3
    <3> QED
      BY <1>3, <2>2, <3>1, <3>2
  <2>5. AtMost(k + 1, MaxEvents) = n
    BY <2>1 DEF AtMost
  <2>6. \A i \in 1..n : i + 1 \in 1..(n + 1) /\ k - n + (i + 1) = (k + 1) - n + i
    BY <1>3, <1>4
  <2>7. ASSUME NEW i \in 1..n
        PROVE  BufferMatches!2!(i)'
    <3>1. Len(since') - Len(events') + i = k - n + (i + 1)
      BY <1>3, <1>4, <2>4
    <3>2. events'[i] = longer[i + 1] /\ i + 1 \in 1..(n + 1)
      BY <1>3, <2>4
    <3>3. /\ events'[i].by = since'[k - n + (i + 1)]
          /\ events'[i].success = Succeeded(since'[k - n + (i + 1)])
      BY <1>7, <3>2
    <3> QED
      BY <1>2, <3>1, <3>3 DEF Succeeded
  <2> QED
    BY <1>4, <2>4, <2>5, <2>7 DEF BufferMatches
<1>10. CASE n + 1 <= MaxEvents
  <2>1. n = k
    BY <1>3, <1>4, <1>5, <1>10 DEF AtMost
  <2>2. events' = longer
    BY <1>2, <1>3, <1>5, <1>10 DEF Newest
  <2>3. AtMost(k + 1, MaxEvents) = n + 1
    BY <1>3, <1>5, <1>10, <2>1 DEF AtMost
  <2>4. \A i \in 1..(n + 1) : (k + 1) - (n + 1) + i = k - n + i
    BY <1>3, <1>4
  <2> QED
    BY <1>3, <1>4, <1>7, <1>8, <2>2, <2>3, <2>4 DEF BufferMatches
<1> QED
  BY <1>3, <1>5, <1>9, <1>10

LEMMA StatsRecord ==
  ASSUME OuterTypeOK, ShieldTypeOK, RecordedInv, NEW r \in Requests, Record(r)
  PROVE  StatsMatch'
<1> DEFINE b == fn[r].agent
           k == Len(since)
           new == k + 1
<1>1. b \in Agents /\ Succeeded(r) \in BOOLEAN
  BY RecordedEventType, WrappedAssumption DEF Event, Succeeded
<1>2. /\ Len(since') = new /\ since'[new] = r
      /\ \A i \in 1..k : since'[i] = since[i]
      /\ k \in Nat
  BY AppendProperties, LenProperties DEF Record, OuterTypeOK
<1>3. UNCHANGED <<fn, result>>
  BY DEF Record, shieldVars
<1>4. /\ stats \in [Agents -> Counters]
      /\ stats' = [stats EXCEPT ![b] = Counted(@, Succeeded(r))]
  BY WrappedAssumption DEF Record, RecordEvent, OuterTypeOK, ObservationTypeOK
<1>5. \A a : IsFiniteSet(Mine(a)) /\ IsFiniteSet(Successes(a))
             /\ new \notin Mine(a) /\ new \notin Successes(a)
  <2>1. IsFiniteSet(1..k)
    <3>1. 1 \in Int /\ k \in Int
      BY <1>2
    <3> HIDE DEF k
    <3> QED
      BY <3>1, FS_Interval
  <2>2. \A a : Mine(a) \in SUBSET (1..k) /\ Successes(a) \in SUBSET (1..k)
    BY DEF Mine, Successes
  <2>3. new \notin 1..k
    BY <1>2
  <2> QED
    BY <2>1, <2>2, <2>3, FS_Subset
<1> HIDE DEF b, k
<1>6. 1..new = (1..k) \cup {new}
  BY <1>2
<1> HIDE DEF new
<1>7. ASSUME NEW a
      PROVE  Mine(a)' = IF a = b THEN Mine(a) \cup {new} ELSE Mine(a)
  <2>1. Mine(a)' = {i \in (1..k) \cup {new} : fn[since'[i]].agent = a}
    BY <1>2, <1>3, <1>6 DEF Mine
  <2>2. fn[since'[new]].agent = b
    BY <1>2 DEF b
  <2>3. Mine(a) = {i \in 1..k : fn[since[i]].agent = a}
    BY DEF Mine, k
  <2> QED
    BY <1>2, <2>1, <2>2, <2>3
<1>8. ASSUME NEW a
      PROVE  Successes(a)' =
               IF a = b /\ Succeeded(r) THEN Successes(a) \cup {new} ELSE Successes(a)
  <2>1. Successes(a)' = {i \in Mine(a)' : Succeeded(since'[i])}
    BY <1>3 DEF Successes, Succeeded
  <2>2. \A i \in Mine(a) : since'[i] = since[i]
    BY <1>2 DEF Mine, k
  <2>3. Succeeded(since'[new]) <=> Succeeded(r)
    BY <1>2
  <2> QED
    BY <1>5, <1>7, <2>1, <2>2, <2>3 DEF Successes
<1>9. ASSUME NEW a \in Agents
      PROVE  /\ stats'[a].total = stats[a].total + (IF a = b THEN 1 ELSE 0)
             /\ stats'[a].success =
                  stats[a].success + (IF a = b /\ Succeeded(r) THEN 1 ELSE 0)
             /\ stats'[a].errors =
                  stats[a].errors + (IF a = b /\ ~Succeeded(r) THEN 1 ELSE 0)
             /\ stats[a].total \in Nat /\ stats[a].success \in Nat
             /\ stats[a].errors \in Nat
  <2>1. stats[a] \in Counters
    BY <1>4
  <2>2. CASE a = b
    <3>1. stats'[a] = Counted(stats[a], Succeeded(r))
      BY <1>4, <2>2
    <3> QED
      BY <1>1, <2>1, <2>2, <3>1 DEF Counted, Counters
  <2>3. CASE a # b
    BY <1>4, <2>1, <2>3 DEF Counters
  <2> QED
    BY <2>2, <2>3
<1>10. ASSUME NEW a \in Agents
       PROVE  stats'[a].total = Cardinality(Mine(a)')
  <2>1. Cardinality(Mine(a) \cup {new}) = Cardinality(Mine(a)) + 1
    BY <1>5, OneMore
  <2>2. stats[a].total = Cardinality(Mine(a))
    BY DEF RecordedInv, StatsMatch
  <2>3. CASE a = b
    <3>1. Mine(a)' = Mine(a) \cup {new}
      BY <1>7, <2>3
    <3> QED
      BY <1>9, <2>1, <2>2, <2>3, <3>1
  <2>4. CASE a # b
    <3>1. Mine(a)' = Mine(a)
      BY <1>7, <2>4
    <3> QED
      BY <1>9, <2>2, <2>4, <3>1
  <2> QED
    BY <2>3, <2>4
<1>11. ASSUME NEW a \in Agents
       PROVE  stats'[a].success = Cardinality(Successes(a)')
  <2>1. Cardinality(Successes(a) \cup {new}) = Cardinality(Successes(a)) + 1
    BY <1>5, OneMore
  <2>2. stats[a].success = Cardinality(Successes(a))
    BY DEF RecordedInv, StatsMatch
  <2>3. CASE a = b /\ Succeeded(r)
    <3>1. Successes(a)' = Successes(a) \cup {new}
      BY <1>8, <2>3
    <3> QED
      BY <1>9, <2>1, <2>2, <2>3, <3>1
  <2>4. CASE ~(a = b /\ Succeeded(r))
    <3>1. Successes(a)' = Successes(a)
      BY <1>8, <2>4
    <3> QED
      BY <1>9, <2>2, <2>4, <3>1
  <2> QED
    BY <2>3, <2>4
<1>12. ASSUME NEW a \in Agents
       PROVE  stats'[a].total = stats'[a].success + stats'[a].errors
  <2>1. stats[a].total = stats[a].success + stats[a].errors
    BY DEF RecordedInv, StatsMatch
  <2> QED
    BY <1>9, <2>1
<1> QED
  BY <1>10, <1>11, <1>12 DEF StatsMatch

LEMMA RecordedStep ==
  ASSUME OuterTypeOK, InsideTypeOK, RecordedInv, [WrappedNext]_wrappedVars
  PROVE  RecordedInv'
<1>0. ShieldTypeOK /\ \A i \in 1..Len(since) : since[i] \in Requests
  BY ElementOfSeq DEF InsideTypeOK, OuterTypeOK
<1>1. CASE UNCHANGED <<events, stats, since, shieldVars>>
  BY <1>1, RecordedKept DEF RecordedInv, shieldVars
<1>2. ASSUME NEW r \in Requests, ShieldStep(r), UNCHANGED <<observationVars, wrapperVars>>
      PROVE  RecordedInv'
  <2>1. \A i \in 1..Len(since) : /\ stage'[since[i]] = "left"
                                 /\ fn'[since[i]] = fn[since[i]]
                                 /\ result'[since[i]] = result[since[i]]
    BY <1>0, <1>2, LeftStays DEF RecordedInv
  <2> QED
    BY <1>2, <2>1, RecordedKept DEF observationVars, wrapperVars
<1>3. ASSUME Subscribe, UNCHANGED shieldVars PROVE RecordedInv'
  BY <1>1, <1>3 DEF Subscribe, OnEvent
<1>4. ASSUME NEW r \in Requests, Record(r) PROVE RecordedInv'
  <2>1. BufferMatches' /\ StatsMatch'
    BY <1>0, <1>4, BufferRecords, StatsRecord
  <2>2. \A i \in 1..Len(since') : stage'[since'[i]] = "left"
    <3>1. /\ Len(since') = Len(since) + 1 /\ since'[Len(since) + 1] = r
          /\ \A i \in 1..Len(since) : since'[i] = since[i]
          /\ Len(since) \in Nat
      BY <1>4, AppendProperties, LenProperties DEF Record, OuterTypeOK
    <3>2. UNCHANGED stage /\ stage[r] = "left"
      BY <1>4 DEF Record, shieldVars
    <3>3. \A i \in 1..(Len(since) + 1) : i \in 1..Len(since) \/ i = Len(since) + 1
      BY <3>1
    <3> QED
      BY <3>1, <3>2, <3>3 DEF RecordedInv
  <2> QED
    BY <2>1, <2>2 DEF RecordedInv
<1>5. ASSUME NEW r \in Requests, Fire(r) PROVE RecordedInv'
  BY <1>1, <1>3, <1>5, ClearKeeps DEF Fire, observationVars
<1>6. CASE Elsewhere
  BY <1>3, <1>6, ClearKeeps DEF Elsewhere
<1>7. CASE \/ ShieldEnvironment /\ UNCHANGED <<observationVars, wrapperVars>>
           \/ \E r \in Requests : HandOn(r)
           \/ UNCHANGED wrappedVars
  BY <1>1, <1>7
     DEF ShieldEnvironment, HandOn, wrappedVars, observationVars, wrapperVars
<1> QED
  BY <1>2, <1>4, <1>5, <1>6, <1>7 DEF WrappedNext

(* The ring buffer holds the newest of the calls recorded since the last   *)
(* clear and the counters count all of them, whoever clears, registers or  *)
(* records in between, for any capacity (record, clear).                   *)
THEOREM CountersAgree == WrappedSpec => []CountersMatchEvents
<1>1. WrappedInit => OuterTypeOK /\ RecordedInv
  <2> SUFFICES ASSUME WrappedInit PROVE OuterTypeOK /\ RecordedInv
    OBVIOUS
  <2>1. OuterTypeOK
    BY EmptySeq
       DEF WrappedInit, ObservationInit, OuterTypeOK, ObservationTypeOK, Counters, NoCounts
  <2>2. events = <<>> /\ since = <<>> /\ Len(<<>>) = 0
    BY EmptySeq DEF WrappedInit, ObservationInit
  <2>3. BufferMatches
    BY <2>2, WrappedAssumption DEF BufferMatches, AtMost
  <2>4. \A a : Mine(a) = {} /\ Successes(a) = {}
    BY <2>2 DEF Mine, Successes
  <2>5. \A a \in Agents : stats[a] = [total |-> 0, success |-> 0, errors |-> 0]
    BY WrappedAssumption DEF WrappedInit, ObservationInit, NoCounts
  <2>6. StatsMatch
    BY <2>4, <2>5, FS_EmptySet DEF StatsMatch
  <2> QED
    BY <2>1, <2>2, <2>3, <2>6 DEF RecordedInv
<1>2. OuterTypeOK /\ InsideTypeOK /\ [WrappedNext]_wrappedVars => OuterTypeOK'
  BY OuterTypeStep DEF InsideTypeOK
<1>3. OuterTypeOK /\ InsideTypeOK /\ RecordedInv /\ [WrappedNext]_wrappedVars
        => RecordedInv'
  BY RecordedStep
<1>4. RecordedInv => CountersMatchEvents
  BY RecordedSuffices
<1> QED
  BY <1>1, <1>2, <1>3, <1>4, InsideTypeInvariant, PTL DEF WrappedSpec

-----------------------------------------------------------------------------
(* What the wrappers promise (module Protected).                           *)

(* What a wrapper does with an outcome begins when there is one.           *)
BehindInv == \A r \in Requests : wrapper[r] # "calling" => stage[r] = "left"

ContractInv ==
  /\ InsideTypeOK /\ OuterTypeOK
  /\ EvidenceInv /\ OrderInv /\ BehindInv

LEMMA BehindStep ==
  ASSUME OuterTypeOK, InsideTypeOK, BehindInv, [WrappedNext]_wrappedVars
  PROVE  BehindInv'
<1>0. ShieldTypeOK /\ wrapper \in [Requests -> {"calling", "firing", "returned"}]
  BY DEF InsideTypeOK, OuterTypeOK
<1>1. CASE UNCHANGED <<stage, wrapper>>
  BY <1>1 DEF BehindInv
<1>2. ASSUME NEW r \in Requests, ShieldStep(r), UNCHANGED wrapper PROVE BehindInv'
  BY <1>0, <1>2, LeftStays DEF BehindInv
<1>3. ASSUME NEW r \in Requests, Record(r) PROVE BehindInv'
  BY <1>0, <1>3 DEF BehindInv, Record, shieldVars
<1>4. ASSUME NEW r \in Requests, HandOn(r) PROVE BehindInv'
  BY <1>0, <1>4 DEF BehindInv, HandOn, shieldVars
<1> QED
  BY <1>1, <1>2, <1>3, <1>4
     DEF WrappedNext, ShieldEnvironment, Elsewhere, Fire, wrappedVars, shieldVars,
         wrapperVars

(* A call that is still inside protect moves as its stage does.            *)
LEMMA StageMoves ==
  ASSUME ContractInv, NEW r \in Requests, NEW s, stage[r] # "left",
         stage' = [stage EXCEPT ![r] = s], UNCHANGED wrapper
  PROVE  Contract!Go(r, stage[r], s)
<1>1. stage \in [Requests -> Stages] /\ wrapper[r] = "calling"
  BY DEF ContractInv, InsideTypeOK, ShieldTypeOK, BehindInv
<1>2. Placed[r] = stage[r]
  BY <1>1 DEF Placed
<1>3. Placed' = [Placed EXCEPT ![r] = s]
  BY <1>1 DEF Placed
<1> QED
  BY <1>2, <1>3 DEF Contract!Go

LEMMA CallContinues ==
  ASSUME ContractInv, NEW r \in Requests, stage[r] # "left",
         UNCHANGED <<vars, observationVars, wrapperVars>>
  PROVE  /\ \A s : stage' = [stage EXCEPT ![r] = s] => Contract!Go(r, stage[r], s)
         /\ UNCHANGED <<clock, callbacks, toFire>>
<1>1. UNCHANGED <<clock, wrapper, callbacks, toFire>>
  BY DEF vars, observationVars, wrapperVars
<1> QED
  BY <1>1, StageMoves

(* What has passed may run: its envelope passed every step its tier has,   *)
(* in the shared pipeline, where the reported order says so, or alone.     *)
LEMMA PassedSteps ==
  ASSUME ContractInv, NEW r \in Requests, stage[r] = "verifying", Passed(r)
  PROVE  /\ ~Fails(Sealed(r), "expiry", asked[r])
         /\ "boundaries" \notin Sealed(r).flaws
         /\ Sealed(r).tier # 0 => "asset_truth" \notin Sealed(r).flaws
<1>1. CASE fn[r].shared
  <2>1. Allowed(r) /\ call[r] = Sealed(r) /\ now[r] = asked[r]
    BY <1>1 DEF Passed, ContractInv, EvidenceInv
  <2>2. Clean(r, LastPosition(call[r].tier))
    BY <2>1 DEF ContractInv, OrderInv, InOrder, Allowed, Done, RefusedInOrder
  <2>3. call[r].tier \in 0..2
    BY CallFields DEF ContractInv, InsideTypeOK, TypeOK
  <2>4. /\ LastPosition(call[r].tier) \in Nat /\ LastPosition(call[r].tier) >= 9
        /\ call[r].tier # 0 => LastPosition(call[r].tier) >= 11
    BY <2>3, LastPositions
  <2>5. /\ ~Fails(call[r], "expiry", now[r]) /\ ~Fails(call[r], "boundaries", now[r])
        /\ call[r].tier # 0 => ~Fails(call[r], "asset_truth", now[r])
    BY <2>2, <2>4, StepNames DEF Clean
  <2> QED
    BY <2>1, <2>5 DEF Fails
<1>2. CASE ~fn[r].shared
  <2> DEFINE e == Sealed(r)
  <2>1. PassesAlone(e, asked[r])
    BY <1>2 DEF Passed, ContractInv, EvidenceInv
  <2>2. e.tier \in 0..2
    BY ShieldAssumption
       DEF Sealed, Signed, SelectTier, ContractInv, InsideTypeOK, ShieldTypeOK, Function
  <2> HIDE DEF e
  <2>3. ~Fails(e, "expiry", asked[r])
    <3>1. 3 \in 1..Len(EarlySteps) /\ EarlySteps[3] = "expiry"
      BY DEF EarlySteps
    <3> QED
      BY <2>1, <3>1 DEF PassesAlone, PassesAll
  <2>4. e.tier # 0 => "asset_truth" \notin e.flaws
    BY <2>1, <2>2, MarketAmongLateSteps DEF PassesAlone, Fails
  <2> QED
    BY <2>1, <2>3, <2>4 DEF PassesAlone, e
<1> QED
  BY <1>1, <1>2

LEMMA PassedMayRun ==
  ASSUME ContractInv, NEW r \in Requests, stage[r] = "verifying", Passed(r)
  PROVE  /\ MayRun(fn[r], evidence[r][1], evidence[r][2], asked[r])
         /\ asked[r] <= created[r] + (TTL + Grace)
<1>1. /\ fn[r] \in Function /\ created[r] \in Nat /\ asked[r] \in Nat
      /\ TTL \in Nat /\ Grace \in Nat /\ NoTier \notin 0..2
  BY ShieldAssumption, VerifyAssumption, ClockAssumption
     DEF ContractInv, InsideTypeOK, ShieldTypeOK, CreatedInv
<1>2. asked[r] <= created[r] + (TTL + Grace)
  <2>1. Sealed(r).expires = created[r] + TTL
    BY DEF Sealed, Signed
  <2> QED
    BY <1>1, <2>1, PassedSteps DEF Fails
<1>3. fn[r].permitted /\ WithinTransaction(fn[r])
  BY PassedSteps DEF Sealed, Signed
<1>4. Sealed(r).tier # 0 => Plausible(evidence[r][1], evidence[r][2], asked[r])
  BY PassedSteps DEF Sealed, Signed
<1>5. (IF fn[r].tier = NoTier THEN fn[r].action \in ValueMoving ELSE fn[r].tier > 0)
        => Sealed(r).tier # 0
  <2>1. Sealed(r).tier = IF fn[r].tier = NoTier THEN SelectTier(fn[r]) ELSE fn[r].tier
    BY DEF Sealed, Signed
  <2> QED
    BY <2>1 DEF SelectTier
<1> QED
  BY <1>2, <1>3, <1>4, <1>5 DEF MayRun

(* Inside protect: each stage is a step of the promise.                    *)
LEMMA SubmittingAsks ==
  ASSUME ContractInv, NEW r \in Requests,
         NEW c \in Claims \cup {NoClaim}, NEW o \in Observations \cup {NoObservation},
         Submit(r, c, o), UNCHANGED <<clock, observationVars, wrapperVars>>
  PROVE  Contract!Ask(r)
<1>1. UNCHANGED <<wrapper, callbacks, toFire>>
  BY DEF observationVars, wrapperVars
<1>2. Contract!Go(r, "resolving", "verifying")
  BY <1>1, StageMoves DEF Submit
<1> QED
  BY <1>1, <1>2 DEF Submit, Found, Contract!Ask

LEMMA LeavingEnds ==
  ASSUME ContractInv, NEW r \in Requests, stage[r] # "left", NEW what, Leave(r, what),
         UNCHANGED <<fn, vars, observationVars, wrapperVars>>
  PROVE  Contract!End(r, stage[r], what)
  BY CallContinues DEF Leave, Stages, Contract!End

LEMMA ShieldKeepsContract ==
  ASSUME ContractInv, NEW r \in Requests, ShieldStep(r),
         UNCHANGED <<observationVars, wrapperVars>>
  PROVE  [Contract!ProtectedNext]_Contract!protectedVars
<1>0. stage \in [Requests -> Stages] /\ now \in [Requests -> Nat]
  BY DEF ContractInv, InsideTypeOK, ShieldTypeOK, TypeOK, VerifyTypeOK
<1>1. ASSUME NEW f \in Functions, Invoke(r, f) PROVE Contract!Call(r)
  <2>1. Contract!Go(r, "new", "resolving") /\ UNCHANGED <<clock, callbacks, toFire>>
    BY <1>1, CallContinues DEF Invoke, Stages
  <2> QED
    BY <1>1, <2>1 DEF Invoke, Contract!Call
<1>2. ASSUME NEW c \in Claims \cup {NoClaim}, NEW o \in Observations \cup {NoObservation},
             Entrust(r, c, o) \/ EntrustAlone(r, c, o)
      PROVE  Contract!Ask(r)
  <2>1. Submit(r, c, o) /\ UNCHANGED clock
    BY <1>2 DEF Entrust, EntrustAlone, Reject, Authenticate, Receive, vars
  <2> QED
    BY <2>1, SubmittingAsks
<1>3. ASSUME ResolverRaises(r) PROVE Contract!GiveUp(r)
  BY <1>3, LeavingEnds DEF ResolverRaises, Contract!GiveUp
<1>4. CASE Verifying(r)
  <2>1. UNCHANGED clock
    BY <1>4, StepMoves DEF Verifying, ContractInv, InsideTypeOK, TypeOK
  <2> QED
    BY <1>4, <2>1
       DEF Verifying, shieldVars, observationVars, wrapperVars, Placed,
           Contract!protectedVars, Contract!callVars
<1>5. ASSUME Block(r) PROVE Contract!Refuse(r)
  BY <1>5, LeavingEnds DEF Block, Contract!Refuse
<1>6. ASSUME Run(r) PROVE Contract!Start(r)
  <2>1. /\ stage[r] = "verifying" /\ stage' = [stage EXCEPT ![r] = "running"]
        /\ UNCHANGED <<fn, created, evidence, asked, result, vars>>
    BY <1>6 DEF Run
  <2>2. Contract!Go(r, "verifying", "running") /\ UNCHANGED <<clock, callbacks, toFire>>
    BY <2>1, CallContinues
  <2>3. /\ MayRun(fn[r], evidence[r][1], evidence[r][2], asked[r])
        /\ asked[r] <= created[r] + (TTL + Grace)
    BY <1>6, PassedMayRun DEF Run
  <2> QED
    BY <2>1, <2>2, <2>3 DEF Contract!Start, Contract!callVars
<1>7. ASSUME Finish(r) PROVE Contract!Finish(r)
  BY <1>7, LeavingEnds DEF Finish, Contract!Finish
<1> QED
  BY <1>1, <1>2, <1>3, <1>4, <1>5, <1>6, <1>7 DEF ShieldStep, Contract!ProtectedNext

(* Outside it: what is recorded, told and handed on.                       *)
LEMMA SubscribeObserves ==
  ASSUME Clear \/ Subscribe \/ UNCHANGED observationVars
  PROVE  UNCHANGED callbacks \/ \E h \in Hooks : callbacks' = Append(callbacks, h)
  BY DEF Clear, ClearEvents, Subscribe, OnEvent, observationVars

LEMMA OutsideMoves ==
  ASSUME ContractInv, UNCHANGED <<vars, shieldVars>>
  PROVE  /\ UNCHANGED <<clock, asked, fn, created, evidence, result>>
         /\ UNCHANGED wrapper => UNCHANGED Placed
         /\ \A r \in Requests, s \in {"firing", "returned"} :
              (stage[r] = "left" /\ wrapper' = [wrapper EXCEPT ![r] = s]) =>
                /\ Placed' = [Placed EXCEPT ![r] = s]
                /\ Placed[r] = IF wrapper[r] = "calling" THEN "left" ELSE wrapper[r]
  BY DEF vars, shieldVars, Placed, ContractInv, OuterTypeOK

LEMMA ContractStep ==
  ASSUME ContractInv, [WrappedNext]_wrappedVars
  PROVE  [Contract!ProtectedNext]_Contract!protectedVars
<1>1. ASSUME ShieldEnvironment, UNCHANGED <<observationVars, wrapperVars>>
      PROVE  [Contract!ProtectedNext]_Contract!protectedVars
  <2>1. /\ UNCHANGED <<Placed, asked, fn, created, evidence, result, callbacks, toFire>>
        /\ UNCHANGED clock \/ clock' = clock + 1
    BY <1>1
       DEF ShieldEnvironment, Pass, Tick, Synchronise, Operate, requestVars, shieldVars,
           observationVars, wrapperVars, Placed
  <2> QED
    BY <2>1
       DEF Contract!ProtectedNext, Contract!Elapse, Contract!protectedVars,
           Contract!callVars
<1>2. CASE \E r \in Requests : ShieldStep(r) /\ UNCHANGED <<observationVars, wrapperVars>>
  BY <1>2, ShieldKeepsContract
<1>3. ASSUME Elsewhere PROVE [Contract!ProtectedNext]_Contract!protectedVars
  <2>1. UNCHANGED <<clock, Placed, asked, fn, created, evidence, result, toFire>>
    BY <1>3, OutsideMoves DEF Elsewhere
  <2>2. UNCHANGED callbacks \/ \E h \in Hooks : callbacks' = Append(callbacks, h)
    BY <1>3, SubscribeObserves DEF Elsewhere
  <2> QED
    BY <2>1, <2>2
       DEF Contract!ProtectedNext, Contract!Observe, Contract!protectedVars,
           Contract!callVars
<1>4. ASSUME NEW r \in Requests, Record(r) PROVE Contract!Notify(r)
  <2>1. Contract!Go(r, "left", "firing")
    BY <1>4, OutsideMoves DEF Record, Contract!Go
  <2>2. UNCHANGED <<clock, asked, fn, created, evidence, result>>
    BY <1>4, OutsideMoves DEF Record
  <2> QED
    BY <1>4, <2>1, <2>2 DEF Record, RecordEvent, Contract!Notify, Contract!callVars
<1>5. ASSUME NEW r \in Requests, Fire(r) PROVE Contract!Tell(r)
  <2>1. UNCHANGED <<clock, Placed, asked, fn, created, evidence, result>>
    BY <1>5, OutsideMoves DEF Fire
  <2>2. UNCHANGED callbacks \/ \E h \in Hooks : callbacks' = Append(callbacks, h)
    BY <1>5, SubscribeObserves DEF Fire
  <2>3. Placed[r] = "firing" /\ toFire[r] # <<>> /\ toFire' = [toFire EXCEPT ![r] = Tail(@)]
    BY <1>5 DEF Fire, Remaining, Placed
  <2> QED
    BY <2>1, <2>2, <2>3 DEF Contract!Tell, Contract!callVars
<1>6. ASSUME NEW r \in Requests, HandOn(r) PROVE Contract!Return(r)
  <2>1. Contract!Go(r, "firing", "returned")
    BY <1>6, OutsideMoves DEF HandOn, Contract!Go, ContractInv, BehindInv
  <2>2. UNCHANGED <<clock, asked, fn, created, evidence, result, callbacks, toFire>>
    BY <1>6, OutsideMoves DEF HandOn, observationVars
  <2> QED
    BY <1>6, <2>1, <2>2 DEF HandOn, Contract!Return, Contract!callVars
<1>7. CASE UNCHANGED wrappedVars
  BY <1>7, OutsideMoves
     DEF wrappedVars, observationVars, wrapperVars, Contract!protectedVars,
         Contract!callVars
<1> QED
  BY <1>1, <1>2, <1>3, <1>4, <1>5, <1>6, <1>7 DEF WrappedNext, Contract!ProtectedNext

(* The decorators implement the abstract promise of module Protected, for  *)
(* any functions, resolvers, policies, callbacks and interleavings: a call *)
(* runs its function at most once, on evidence that held when it was put   *)
(* to the verifier and within its envelope's lifetime, ends in the outcome *)
(* its policy asks for, and returns when all who observe it were told.     *)
THEOREM WrappedKeepsContract == WrappedSpec => KeepsContract
<1>1. WrappedInit => Contract!ProtectedInit
  BY DEF WrappedInit, Init, ClockInit, ShieldInit, ObservationInit, Placed,
         Contract!ProtectedInit
<1>2. WrappedInit => OuterTypeOK /\ EvidenceInv /\ BehindInv
  BY EmptySeq
     DEF WrappedInit, ShieldInit, ObservationInit, OuterTypeOK, ObservationTypeOK,
         Counters, NoCounts, EvidenceInv, BehindInv
<1>3. Init => OrderInv
  BY DEF Init, OrderInv, InOrder
<1>4. Spec => []OrderInv
  BY <1>3, OrderStep, VerifyTypeCorrect, PTL DEF Spec
<1>5. OuterTypeOK /\ InsideTypeOK /\ [WrappedNext]_wrappedVars => OuterTypeOK'
  BY OuterTypeStep DEF InsideTypeOK
<1>6. OuterTypeOK /\ InsideTypeOK /\ BehindInv /\ [WrappedNext]_wrappedVars => BehindInv'
  BY BehindStep
<1>7. InsideTypeOK /\ EvidenceInv /\ [WrappedNext]_wrappedVars => EvidenceInv'
  BY EvidenceStep
<1>8. WrappedSpec => [](InsideTypeOK /\ OuterTypeOK /\ EvidenceInv /\ BehindInv)
  BY <1>2, <1>5, <1>6, <1>7, InsideTypeInvariant, PTL DEF WrappedSpec
<1>9. InsideTypeOK /\ OuterTypeOK /\ EvidenceInv /\ BehindInv /\ OrderInv => ContractInv
  BY DEF ContractInv
<1>10. ContractInv /\ [WrappedNext]_wrappedVars
         => [Contract!ProtectedNext]_Contract!protectedVars
  BY ContractStep
<1> QED
  BY <1>1, <1>4, <1>8, <1>9, <1>10, ShieldImplementsVerify, PTL
     DEF WrappedSpec, KeepsContract, Contract!ProtectedSpec
=============================================================================
