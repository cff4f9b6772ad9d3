------------------------- MODULE VerifyIntent_proofs -------------------------
(***************************************************************************)
(* Proofs about the verification pipeline, for any number of concurrent    *)
(* requests, any calls and any orders of the operator: type correctness,   *)
(* the kill switch, reservations, the order of the steps, the counters;    *)
(* the total of a set of ledger entries and the limit it stays within; and *)
(* that a nonce is spent once in a retention period.                       *)
(***************************************************************************)
EXTENDS VerifyIntent, RevocationStore_lemmas, FiniteSetTheorems

(* The fields of a call.                                                   *)
LEMMA CallFields ==
  ASSUME VerifyTypeOK, NEW r \in Requests
  PROVE  /\ call[r] \in Calls
         /\ now[r] \in Nat
         /\ call[r].agent \in Agents /\ call[r].agent \in Subjects
         /\ call[r].nonce \in Nonces
         /\ call[r].issuer \in Subjects \/ call[r].issuer = NoIssuer
         /\ call[r].amount \in Nat \/ call[r].amount = NoAmount
         /\ call[r].depth \in Nat
         /\ call[r].tier \in 0..2
         /\ call[r].build \in Hashes \cup {NoHash}
         /\ call[r].prompt \in Hashes \cup {NoHash}
  BY VerifyAssumption DEF VerifyTypeOK, Call

LEMMA WatchType ==
  ASSUME barred \in [Requests -> SUBSET Subjects], Watch
  PROVE  /\ barred' \in [Requests -> SUBSET Subjects]
         /\ outdated' \in [Requests -> BOOLEAN]
<1>1. barred' \in [Requests -> SUBSET Subjects]
  BY DEF Watch
<1>2. outdated' \in [Requests -> BOOLEAN]
  BY Zenon DEF Watch
<1> QED
  BY <1>1, <1>2

(* Every method of the trust engine keeps the type of its variables.       *)
LEMMA TrustMethodTypes ==
  ASSUME TrustTypeOK, NEW a \in Agents
  PROVE  /\ \A success \in BOOLEAN : RecordIntent(a, success) => TrustTypeOK'
         /\ RecordViolation(a) => TrustTypeOK'
         /\ \A b, p \in Hashes \cup {NoHash} : RecordAttestation(a, b, p) => TrustTypeOK'
         /\ \A d \in Nat : RecordDepth(a, d) => TrustTypeOK'
         /\ \A at \in Nat : DayTotal(a, at) => TrustTypeOK'
         /\ \A token \in Tokens, amount, limit, at \in Nat :
              ReserveAmount(a, token, amount, limit, at) => TrustTypeOK'
         /\ \A token \in Tokens : ReleaseAmount(a, token) => TrustTypeOK'
<1>0. history \in [Agents -> History] /\ ledger \in [Agents -> SUBSET Entry]
  BY DEF TrustTypeOK
<1>1. \A success \in BOOLEAN : RecordIntent(a, success) => TrustTypeOK'
  <2> TAKE success \in BOOLEAN
  <2> HAVE RecordIntent(a, success)
  <2> DEFINE t == history[a].total + 1
             n == IF success THEN history[a].successful + 1 ELSE history[a].successful
             h == [history[a] EXCEPT !.total = t, !.successful = n]
  <2>1. history[a] \in History /\ t \in Nat /\ n \in Nat
    BY <1>0 DEF History
  <2>2. history' = [history EXCEPT ![a] = h]
    BY <1>0, <2>1 DEF RecordIntent, History
  <2> HIDE DEF t, n
  <2>3. h \in History
    BY <2>1 DEF History
  <2> QED
    BY <1>0, <2>2, <2>3 DEF TrustTypeOK, RecordIntent
<1>2. RecordViolation(a) => TrustTypeOK'
  BY <1>0 DEF TrustTypeOK, RecordViolation, History
<1>3. \A b, p \in Hashes \cup {NoHash} : RecordAttestation(a, b, p) => TrustTypeOK'
  <2> TAKE b, p \in Hashes \cup {NoHash}
  <2> HAVE RecordAttestation(a, b, p)
  <2> DEFINE x == Changed(history[a].build, b)
             y == Changed(history[a].prompt, p)
             u == Latest(history[a].build, b)
             v == Latest(history[a].prompt, p)
  <2>1. x \in {0, 1} /\ y \in {0, 1}
    BY DEF Changed
  <2>2. u \in Hashes \cup {NoHash} /\ v \in Hashes \cup {NoHash}
    BY <1>0 DEF Latest, History
  <2> DEFINE c == history[a].changes + x + y
             h == [history[a] EXCEPT !.changes = c, !.build = u, !.prompt = v]
  <2>3. history' = [history EXCEPT ![a] = h]
    BY <1>0 DEF RecordAttestation, History
  <2>4. history[a] \in History /\ c \in Nat
    <3> HIDE DEF x, y
    <3> QED
      BY <1>0, <2>1 DEF History
  <2> HIDE DEF x, y, u, v, c
  <2>5. h \in History
    BY <2>2, <2>4 DEF History
  <2> QED
    BY <1>0, <2>3, <2>5 DEF TrustTypeOK, RecordAttestation
<1>4. \A d \in Nat : RecordDepth(a, d) => TrustTypeOK'
  BY <1>0 DEF TrustTypeOK, RecordDepth, History
<1>5. \A at \in Nat : Fresh(a, at) \subseteq Entry
  BY <1>0 DEF Fresh
<1>6. \A at \in Nat : DayTotal(a, at) => TrustTypeOK'
  BY <1>0, <1>5 DEF TrustTypeOK, DayTotal
<1>7. \A token \in Tokens, amount, limit, at \in Nat :
        ReserveAmount(a, token, amount, limit, at) => TrustTypeOK'
  <2> TAKE token \in Tokens, amount, limit, at \in Nat
  <2>1. [token |-> token, at |-> at, amount |-> amount] \in Entry
    BY DEF Entry
  <2> QED
    BY <1>0, <1>5, <2>1 DEF TrustTypeOK, ReserveAmount, RecordAmount, DayTotal
<1>8. \A token \in Tokens : ReleaseAmount(a, token) => TrustTypeOK'
  BY <1>0 DEF TrustTypeOK, ReleaseAmount
<1> QED
  BY <1>1, <1>2, <1>3, <1>4, <1>6, <1>7, <1>8

LEMMA LateStepsAreVerdicts ==
  ASSUME VerifyTypeOK, NEW r \in Requests
  PROVE  \A i \in 1..Len(LateSteps(call[r])) :
           LateSteps(call[r])[i] \in StaticSteps
<1>1. call[r].tier \in {0, 1, 2}
  BY CallFields
<1>2. CASE call[r].tier = 0
  BY <1>2 DEF LateSteps
<1>3. CASE call[r].tier = 1
  BY <1>3 DEF LateSteps, StaticSteps
<1>4. CASE call[r].tier = 2
  BY <1>4 DEF LateSteps, StaticSteps
<1> QED
  BY <1>1, <1>2, <1>3, <1>4

(* MeetsMarket moves on, or refuses with the name of a late step.          *)
LEMMA MarketMoves ==
  ASSUME VerifyTypeOK, NEW r \in Requests, MeetsMarket(r)
  PROVE  \/ \E v \in StaticSteps : FailAuthenticated(r, v)
         \/ \E to \in {"trust", "succeed"} : Goto(r, to) /\ UNCHANGED verdict
  BY LateStepsAreVerdicts DEF MeetsMarket

(* What every step of a request that has been received leaves alone, and   *)
(* where it may take the request.                                          *)
LEMMA StepTypes ==
  ASSUME VerifyTypeOK, NEW r \in Requests, UNCHANGED <<call, now>>, Watch,
         reserved' \in [Requests -> BOOLEAN],
         \/ \E to \in PCs : Goto(r, to) /\ UNCHANGED verdict
         \/ \E v \in Verdicts : FailAuthenticated(r, v)
  PROVE  VerifyTypeOK'
<1>1. pc' \in [Requests -> PCs] /\ verdict' \in [Requests -> Verdicts]
  BY DEF VerifyTypeOK, Goto, FailAuthenticated, Refuse, PCs
<1> QED
  BY <1>1, WatchType DEF VerifyTypeOK

LEMMA ReceiveTypes ==
  ASSUME TypeOK, NEW r \in Requests, NEW c \in Calls, Reject(r, c) \/ Authenticate(r, c)
  PROVE  TypeOK'
<1>1. /\ call' \in [Requests -> Calls] /\ now' \in [Requests -> Nat]
      /\ barred' \in [Requests -> SUBSET Subjects]
      /\ outdated' \in [Requests -> BOOLEAN]
  BY ClockAssumption, WatchType
     DEF TypeOK, ClockTypeOK, VerifyTypeOK, Reject, Authenticate, Receive
<1>2. pc' \in [Requests -> PCs]
  BY DEF TypeOK, VerifyTypeOK, Reject, Authenticate, Receive, Goto, PCs
<1>3. verdict' \in [Requests -> Verdicts]
  BY DEF TypeOK, VerifyTypeOK, Reject, Authenticate, Refuse, EarlySteps, Verdicts,
         StaticSteps
<1> QED
  BY <1>1, <1>2, <1>3
     DEF TypeOK, ClockTypeOK, StoreTypeOK, TrustTypeOK, VerifyTypeOK, Reject,
         Authenticate, Receive, storeVars, trustVars

(* A step of a received request ends in one of the places a step may end.  *)
LEMMA StepMoves ==
  ASSUME VerifyTypeOK, NEW r \in Requests, Step(r)
  PROVE  /\ UNCHANGED <<clock, call, now>> /\ Watch
         /\ reserved' \in [Requests -> BOOLEAN]
         /\ \/ \E to \in PCs : Goto(r, to) /\ UNCHANGED verdict
            \/ \E v \in Verdicts : FailAuthenticated(r, v)
            \/ Succeed(r)
<1> DEFINE Moves == \/ \E to \in PCs : Goto(r, to) /\ UNCHANGED verdict
                    \/ \E v \in Verdicts : FailAuthenticated(r, v)
                    \/ Succeed(r)
           Quiet == UNCHANGED <<clock, call, now>> /\ Watch
<1> USE DEF VerifyTypeOK
<1>1. CASE Attest(r)
  BY <1>1 DEF Attest, PCs
<1>2. CASE Depth(r)
  BY <1>2 DEF Depth, PCs, Verdicts, StaticSteps
<1>3. CASE SpendNonceOf(r)
  BY <1>3 DEF SpendNonceOf, PCs, Verdicts
<1>4. CASE Reserve(r)
  <2>1. \E to \in PCs : Goto(r, to) /\ UNCHANGED verdict
    BY <1>4 DEF Reserve, PCs
  <2>2. reserved' \in [Requests -> BOOLEAN]
    BY <1>4 DEF Reserve, HasAmount, FitsLimit, Fits
  <2> QED
    BY <1>4, <2>1, <2>2 DEF Reserve
<1>5. CASE Violation(r)
  BY <1>5 DEF Violation, Verdicts, StaticSteps
<1>6. CASE Freshness(r)
  BY <1>6 DEF Freshness, PCs, Verdicts, RevocationVerdicts
<1>7. ASSUME MeetsMarket(r) PROVE Moves
  BY <1>7, MarketMoves DEF PCs, Verdicts
<1>8. CASE CheckAgent(r)
  BY <1>7, <1>8 DEF CheckAgent, PCs
<1>9. CASE CheckSuspended(r)
  <2>1. \E v \in Verdicts : FailAuthenticated(r, v)
    BY <1>9 DEF CheckSuspended, Verdicts, RevocationVerdicts
  <2> QED
    BY <1>9, <2>1 DEF CheckSuspended
<1>10. CASE CheckIssuer(r)
  BY <1>7, <1>10 DEF CheckIssuer, PCs, Verdicts, RevocationVerdicts
<1>11. CASE CheckTrust(r)
  BY <1>11 DEF CheckTrust, PCs, Verdicts
<1>12. CASE Release(r)
  BY <1>12 DEF Release, PCs
<1>13. CASE RecordFailure(r)
  BY <1>13 DEF RecordFailure, PCs
<1>14. CASE Succeed(r)
  BY <1>14 DEF Succeed
<1> QED
  BY <1>1, <1>2, <1>3, <1>4, <1>5, <1>6, <1>8, <1>9, <1>10, <1>11, <1>12, <1>13,
     <1>14 DEF Step

(* A step of one request leaves the others where they are.                 *)
LEMMA OthersStay ==
  ASSUME VerifyTypeOK, NEW r \in Requests, Step(r), NEW q \in Requests, q # r
  PROVE  pc'[q] = pc[q] /\ verdict'[q] = verdict[q] /\ call'[q] = call[q]
<1>1. UNCHANGED call
  BY StepMoves
<1>2. CASE \E to \in PCs : Goto(r, to) /\ UNCHANGED verdict
  BY <1>1, <1>2 DEF Goto, VerifyTypeOK
<1>3. CASE \E v \in Verdicts : FailAuthenticated(r, v)
  BY <1>1, <1>3 DEF FailAuthenticated, Goto, Refuse, VerifyTypeOK
<1>4. CASE Succeed(r)
  BY <1>1, <1>4 DEF Succeed, Goto, VerifyTypeOK
<1> QED
  BY <1>2, <1>3, <1>4, StepMoves

LEMMA RequestTypes ==
  ASSUME VerifyTypeOK, NEW r \in Requests, Step(r)
  PROVE  VerifyTypeOK'
<1>1. CASE Succeed(r)
  <2>1. pc' \in [Requests -> PCs] /\ verdict' \in [Requests -> Verdicts]
    BY <1>1 DEF VerifyTypeOK, Succeed, Goto, PCs, Verdicts
  <2> QED
    BY <1>1, <2>1, WatchType DEF VerifyTypeOK, Succeed
<1>2. CASE ~Succeed(r)
  BY <1>2, StepMoves, StepTypes
<1> QED
  BY <1>1, <1>2

(* A step touches the store and the trust engine through their methods.    *)
LEMMA SharedTypes ==
  ASSUME TypeOK, NEW r \in Requests, Step(r)
  PROVE  StoreTypeOK' /\ TrustTypeOK'
<1>0. /\ clock \in Nat /\ StoreTypeOK /\ TrustTypeOK /\ VerifyTypeOK
  BY ClockAssumption DEF TypeOK, ClockTypeOK
<1>1. ASSUME UNCHANGED storeVars PROVE StoreTypeOK'
  BY <1>0, <1>1 DEF StoreTypeOK, storeVars
<1>2. ASSUME UNCHANGED trustVars PROVE TrustTypeOK'
  BY <1>0, <1>2 DEF TrustTypeOK, trustVars
<1>3. ASSUME NEW s \in Subjects, ReadStanding(s) PROVE StoreTypeOK'
  BY <1>0, <1>3, StoreMethodTypes
<1>4. /\ call[r].agent \in Agents /\ call[r].agent \in Subjects
      /\ call[r].nonce \in Nonces /\ now[r] \in Nat /\ r \in Tokens
      /\ call[r].depth \in Nat /\ call[r].perDay \in Nat
      /\ call[r].build \in Hashes \cup {NoHash}
      /\ call[r].prompt \in Hashes \cup {NoHash}
      /\ HasAmount(call[r]) => call[r].amount \in Nat
  BY <1>0, CallFields, VerifyAssumption DEF HasAmount, Call
<1>5. CASE Attest(r)
  BY <1>0, <1>1, <1>4, <1>5, TrustMethodTypes DEF Attest
<1>6. CASE Depth(r)
  BY <1>0, <1>1, <1>4, <1>6, TrustMethodTypes DEF Depth
<1>7. CASE SpendNonceOf(r)
  BY <1>0, <1>2, <1>4, <1>7, StoreMethodTypes DEF SpendNonceOf
<1>8. CASE Reserve(r)
  BY <1>0, <1>1, <1>4, <1>8, TrustMethodTypes DEF Reserve
<1>9. CASE Violation(r)
  BY <1>0, <1>1, <1>4, <1>9, TrustMethodTypes DEF Violation
<1>10. CASE Freshness(r) \/ CheckTrust(r)
  BY <1>1, <1>2, <1>10 DEF Freshness, CheckTrust
<1>11. CASE CheckAgent(r) \/ CheckSuspended(r)
  BY <1>2, <1>3, <1>4, <1>11 DEF CheckAgent, CheckSuspended
<1>12. CASE CheckIssuer(r)
  <2>1. CASE call[r].issuer \in Subjects
    BY <1>2, <1>3, <1>12, <2>1 DEF CheckIssuer
  <2>2. CASE call[r].issuer \notin Subjects
    <3>1. records' = records
      BY <1>0, <1>12, <2>2 DEF CheckIssuer, ReadStanding, DropLapsed, StoreTypeOK
    <3> QED
      BY <1>1, <1>2, <1>12, <3>1 DEF CheckIssuer, ReadStanding, storeVars
  <2> QED
    BY <2>1, <2>2
<1>13. CASE Release(r)
  BY <1>0, <1>1, <1>2, <1>4, <1>13, TrustMethodTypes DEF Release
<1>14. CASE RecordFailure(r) \/ Succeed(r)
  BY <1>0, <1>1, <1>4, <1>14, TrustMethodTypes DEF RecordFailure, Succeed
<1> QED
  BY <1>5, <1>6, <1>7, <1>8, <1>9, <1>10, <1>11, <1>12, <1>13, <1>14 DEF Step

LEMMA TypeStep ==
  ASSUME TypeOK, [Next]_vars
  PROVE  TypeOK'
<1>0. clock \in Nat /\ StoreTypeOK /\ VerifyTypeOK
  BY ClockAssumption DEF TypeOK, ClockTypeOK
<1>1. ASSUME Watch, UNCHANGED requestVars PROVE VerifyTypeOK'
  BY <1>0, <1>1, WatchType DEF VerifyTypeOK, requestVars
<1>2. CASE Pass
  BY <1>1, <1>2, ClockAssumption
     DEF Pass, Tick, TypeOK, ClockTypeOK, StoreTypeOK, TrustTypeOK, storeVars,
         trustVars
<1>3. CASE Synchronise
  BY <1>0, <1>1, <1>3, StoreMethodTypes
     DEF Synchronise, TypeOK, ClockTypeOK, TrustTypeOK, trustVars
<1>4. ASSUME NEW s \in Targets, Operate(s) PROVE TypeOK'
  <2>1. StoreTypeOK'
    BY <1>0, <1>4, StoreMethodTypes, VerifyAssumption DEF Operate
  <2> QED
    BY <1>1, <1>4, <2>1
       DEF Operate, TypeOK, ClockTypeOK, TrustTypeOK, trustVars
<1>5. ASSUME NEW r \in Requests, NEW c \in Calls, Reject(r, c) \/ Authenticate(r, c)
      PROVE  TypeOK'
  BY <1>5, ReceiveTypes
<1>6. ASSUME NEW r \in Requests, Step(r) PROVE TypeOK'
  BY <1>0, <1>6, StepMoves, RequestTypes, SharedTypes DEF TypeOK, ClockTypeOK
<1>7. CASE UNCHANGED vars
  BY <1>7
     DEF vars, historyVars, storeVars, trustVars, requestVars, TypeOK, ClockTypeOK, StoreTypeOK,
         TrustTypeOK, VerifyTypeOK
<1> QED
  BY <1>2, <1>3, <1>4, <1>5, <1>6, <1>7 DEF Next

LEMMA InitialTypes ==
  ASSUME Init, Calls # {}
  PROVE  TypeOK
<1>1. StoreTypeOK
  BY ClockAssumption, EmptySeq
     DEF Init, ClockInit, StoreInit, StoreTypeOK, Unrecorded, Standing
<1>2. TrustTypeOK
  BY DEF Init, TrustInit, TrustTypeOK, NewHistory, History
<1>3. VerifyTypeOK
  BY DEF Init, VerifyTypeOK, PCs, Verdicts
<1> QED
  BY <1>1, <1>2, <1>3, ClockAssumption DEF Init, TypeOK, ClockInit, ClockTypeOK

(* Every variable of the verifier and of the objects it shares keeps its   *)
(* type, whatever the requests, the operator and the clock do.             *)
THEOREM VerifyTypeCorrect == Spec => []TypeOK
<1>1. Init => TypeOK
  BY InitialTypes, VerifyAssumption
<1>2. TypeOK /\ [Next]_vars => TypeOK'
  BY TypeStep
<1> QED
  BY <1>1, <1>2, PTL DEF Spec

-----------------------------------------------------------------------------
(* The kill switch.  Whoever is barred from a request is refused by the    *)
(* store now, so a look-up that finds no live record proves its subject is *)
(* not barred, and nobody is barred later who was not before.  So it is    *)
(* with a store that is out of sync.                                       *)

KillSwitchInv ==
  \A r \in Requests :
    /\ pc[r] # "idle" => \A s \in barred[r] : Live(s)
    /\ verdict[r] = "allow" => pc[r] = "done"
    /\ pc[r] \in {"issuer", "trust", "succeed"} \/ verdict[r] = "allow"
         => call[r].agent \notin barred[r]
    /\ pc[r] \in {"trust", "succeed"} \/ verdict[r] = "allow"
         => call[r].issuer \notin barred[r]
    /\ pc[r] # "idle" => (outdated[r] => Stale)
    /\ pc[r] \in {"agent", "issuer", "trust", "succeed"} \/ verdict[r] = "allow"
         => ~outdated[r]

LEMMA BarredShrinks ==
  ASSUME Watch, NEW r \in Requests, pc[r] # "idle"
  PROVE  barred'[r] \subseteq barred[r] /\ (outdated'[r] => outdated[r])
  BY DEF Watch

LEMMA BarredAreLive ==
  ASSUME Watch, NEW r \in Requests, pc'[r] # "idle"
  PROVE  (\A s \in barred'[r] : Live(s)') /\ (outdated'[r] => Stale')
  BY DEF Watch

(* A request that no step moves keeps its part of the invariant.           *)
LEMMA OthersKeepClear ==
  ASSUME TypeOK, KillSwitchInv, Watch, NEW q \in Requests,
         pc'[q] = pc[q], verdict'[q] = verdict[q], call'[q] = call[q]
  PROVE  KillSwitchInv!(q)'
<1>1. pc[q] # "idle" =>
        barred'[q] \subseteq barred[q] /\ (outdated'[q] => outdated[q])
  BY BarredShrinks
<1>2. pc'[q] # "idle" =>
        (\A s \in barred'[q] : Live(s)') /\ (outdated'[q] => Stale')
  BY BarredAreLive
<1>3. verdict[q] = "allow" => pc[q] = "done"
  BY DEF KillSwitchInv
<1> QED
  BY <1>1, <1>2, <1>3 DEF KillSwitchInv

(* A step that refuses, or goes on to a place before the kill switch.      *)
LEMMA RefusedKeepClear ==
  ASSUME VerifyTypeOK, KillSwitchInv, Watch, NEW r \in Requests, pc[r] # "idle",
         pc[r] # "done", UNCHANGED call,
         \/ \E to \in PCs \ {"idle", "agent", "issuer", "trust", "succeed"} :
              Goto(r, to) /\ UNCHANGED verdict
         \/ \E v \in Verdicts \ {"allow"} : FailAuthenticated(r, v)
  PROVE  KillSwitchInv!(r)'
<1>1. /\ pc'[r] \notin {"idle", "agent", "issuer", "trust", "succeed"}
      /\ verdict'[r] # "allow"
  BY DEF VerifyTypeOK, KillSwitchInv, Goto, FailAuthenticated, Refuse
<1> QED
  BY <1>1, BarredAreLive

(* A look-up that finds nobody.                                            *)
LEMMA MarketKeepsClear ==
  ASSUME VerifyTypeOK, KillSwitchInv, Watch, NEW r \in Requests, UNCHANGED call,
         pc[r] \notin {"idle", "done"}, MeetsMarket(r),
         call[r].agent \notin barred[r], call[r].issuer \notin barred[r],
         ~outdated[r]
  PROVE  KillSwitchInv!(r)'
<1>1. pc'[r] # "idle" /\ verdict'[r] # "allow"
  BY MarketMoves
     DEF VerifyTypeOK, KillSwitchInv, Goto, FailAuthenticated, Refuse, StaticSteps
<1>2. barred'[r] \subseteq barred[r] /\ (outdated'[r] => outdated[r])
  BY BarredShrinks
<1> QED
  BY <1>1, <1>2, BarredAreLive

LEMMA OwnStepKeepsClear ==
  ASSUME TypeOK, KillSwitchInv, NEW r \in Requests, Step(r)
  PROVE  KillSwitchInv!(r)'
<1>0. VerifyTypeOK /\ Watch /\ UNCHANGED call
  BY StepMoves DEF TypeOK
<1>1. pc[r] \notin {"idle", "done"}
  BY DEF Step, Attest, Depth, SpendNonceOf, Reserve, Violation, Freshness,
         CheckAgent, CheckSuspended, CheckIssuer, CheckTrust, Release,
         RecordFailure, Succeed
<1>2. verdict[r] # "allow"
  BY <1>1 DEF KillSwitchInv
<1>3. barred'[r] \subseteq barred[r] /\ (outdated'[r] => outdated[r])
  BY <1>0, <1>1, BarredShrinks
<1>4. CASE \/ Attest(r) \/ Depth(r) \/ SpendNonceOf(r) \/ Reserve(r) \/ Violation(r)
           \/ CheckSuspended(r) \/ Release(r) \/ RecordFailure(r)
           \/ Freshness(r) /\ Stale
  <2>1. \/ \E to \in PCs \ {"idle", "agent", "issuer", "trust", "succeed"} :
             Goto(r, to) /\ UNCHANGED verdict
        \/ \E v \in Verdicts \ {"allow"} : FailAuthenticated(r, v)
    BY <1>4
       DEF Attest, Depth, SpendNonceOf, Reserve, Violation, Freshness,
           CheckSuspended, Release, RecordFailure, PCs, Verdicts, StaticSteps,
           RevocationVerdicts
  <2> QED
    BY <1>0, <1>1, <2>1, RefusedKeepClear
<1>5. CASE CheckAgent(r)
  <2>1. CASE Live(call[r].agent)
    <3>1. Goto(r, "suspended") /\ UNCHANGED verdict
      BY <1>5, <2>1 DEF CheckAgent
    <3> QED
      BY <1>0, <1>1, <3>1, RefusedKeepClear DEF PCs
  <2>2. CASE ~Live(call[r].agent)
    <3>1. call[r].agent \notin barred[r] /\ ~outdated[r]
      BY <1>1, <1>5, <2>2 DEF KillSwitchInv, CheckAgent
    <3>2. CASE call[r].issuer # NoIssuer
      <4>1. pc'[r] = "issuer" /\ verdict'[r] = verdict[r]
        BY <1>0, <1>5, <2>2, <3>2 DEF CheckAgent, Goto, VerifyTypeOK
      <4> QED
        BY <1>0, <1>2, <1>3, <3>1, <4>1, BarredAreLive
    <3>3. CASE call[r].issuer = NoIssuer
      <4>1. call[r].issuer \notin barred[r]
        BY <1>0, <3>3, VerifyAssumption DEF VerifyTypeOK
      <4> QED
        BY <1>0, <1>1, <1>5, <2>2, <3>1, <3>3, <4>1, MarketKeepsClear DEF CheckAgent
    <3> QED
      BY <3>2, <3>3
  <2> QED
    BY <2>1, <2>2
<1>6. CASE CheckIssuer(r)
  <2>1. CASE Live(call[r].issuer)
    <3>1. FailAuthenticated(r, "issuer")
      BY <1>6, <2>1 DEF CheckIssuer
    <3> QED
      BY <1>0, <1>1, <3>1, RefusedKeepClear DEF Verdicts, RevocationVerdicts
  <2>2. CASE ~Live(call[r].issuer)
    <3>1. /\ call[r].issuer \notin barred[r] /\ call[r].agent \notin barred[r]
          /\ ~outdated[r]
      BY <1>1, <1>6, <2>2 DEF KillSwitchInv, CheckIssuer
    <3> QED
      BY <1>0, <1>1, <1>6, <2>2, <3>1, MarketKeepsClear DEF CheckIssuer
  <2> QED
    BY <2>1, <2>2
<1>7. CASE CheckTrust(r) \/ Succeed(r)
  <2>1. /\ call[r].issuer \notin barred[r] /\ call[r].agent \notin barred[r]
        /\ ~outdated[r]
    BY <1>7 DEF KillSwitchInv, CheckTrust, Succeed
  <2>2. pc'[r] # "idle" /\ (verdict'[r] = "allow" => pc'[r] = "done")
    BY <1>0, <1>2, <1>7
       DEF CheckTrust, Succeed, Goto, FailAuthenticated, Refuse, VerifyTypeOK
  <2> QED
    BY <1>0, <1>3, <2>1, <2>2, BarredAreLive
<1>8. CASE Freshness(r) /\ ~Stale
  <2>1. pc'[r] = "agent" /\ verdict'[r] = verdict[r]
    BY <1>0, <1>8 DEF Freshness, Goto, VerifyTypeOK
  <2>2. ~outdated[r]
    BY <1>1, <1>8 DEF KillSwitchInv
  <2> QED
    BY <1>0, <1>2, <1>3, <2>1, <2>2, BarredAreLive
<1> QED
  BY <1>4, <1>5, <1>6, <1>7, <1>8 DEF Step

LEMMA KillSwitchStep ==
  ASSUME TypeOK, KillSwitchInv, [Next]_vars
  PROVE  KillSwitchInv'
<1>1. ASSUME Watch, UNCHANGED requestVars PROVE KillSwitchInv'
  BY <1>1, OthersKeepClear DEF requestVars, KillSwitchInv
<1>2. CASE Pass \/ Synchronise \/ \E s \in Targets : Operate(s)
  BY <1>1, <1>2 DEF Pass, Synchronise, Operate
<1>3. ASSUME NEW r \in Requests, NEW c \in Calls, Reject(r, c) \/ Authenticate(r, c)
      PROVE  KillSwitchInv'
  <2>1. Watch /\ pc[r] = "idle" /\ VerifyTypeOK
    BY <1>3 DEF Reject, Authenticate, Receive, TypeOK
  <2>2. verdict[r] # "allow"
    BY <2>1 DEF KillSwitchInv
  <2>3. pc'[r] \in {"attest", "done"} /\ verdict'[r] # "allow"
    BY <1>3, <2>1, <2>2
       DEF Reject, Authenticate, Receive, Goto, Refuse, EarlySteps, VerifyTypeOK
  <2>4. KillSwitchInv!(r)'
    BY <2>1, <2>3, BarredAreLive
  <2>5. ASSUME NEW q \in Requests, q # r PROVE KillSwitchInv!(q)'
    <3>1. pc'[q] = pc[q] /\ verdict'[q] = verdict[q] /\ call'[q] = call[q]
      BY <1>3, <2>1, <2>5
         DEF Reject, Authenticate, Receive, Goto, Refuse, VerifyTypeOK
    <3> QED
      BY <2>1, <3>1, OthersKeepClear
  <2> QED
    BY <2>4, <2>5 DEF KillSwitchInv
<1>4. ASSUME NEW r \in Requests, Step(r) PROVE KillSwitchInv'
  <2>1. VerifyTypeOK
    BY DEF TypeOK
  <2>2. ASSUME NEW q \in Requests, q # r PROVE KillSwitchInv!(q)'
    <3>1. pc'[q] = pc[q] /\ verdict'[q] = verdict[q] /\ call'[q] = call[q]
      BY <1>4, <2>1, <2>2, OthersStay
    <3> QED
      BY <1>4, <2>1, <3>1, StepMoves, OthersKeepClear
  <2> QED
    BY <1>4, <2>2, OwnStepKeepsClear DEF KillSwitchInv
<1>5. CASE UNCHANGED vars
  BY <1>5
     DEF vars, historyVars, storeVars, requestVars, KillSwitchInv, Live, Lapsed, Stale
<1> QED
  BY <1>2, <1>3, <1>4, <1>5 DEF Next

(* No request is allowed whose agent or issuer stood revoked or suspended  *)
(* from its arrival to the answer, nor while the store was out of sync all *)
(* that time, at any tier (step 7 of verify_intent).                       *)
THEOREM KillSwitchHolds == Spec => []BarredNeverAllowed
<1>1. Init => KillSwitchInv
  BY DEF Init, KillSwitchInv
<1>2. TypeOK /\ KillSwitchInv /\ [Next]_vars => KillSwitchInv'
  BY KillSwitchStep
<1>3. KillSwitchInv => BarredNeverAllowed
  BY DEF KillSwitchInv, BarredNeverAllowed, Allowed
<1> QED
  BY <1>1, <1>2, <1>3, VerifyTypeCorrect, PTL DEF Spec

-----------------------------------------------------------------------------
(* Reservations.  The accounting is inductive once a request is known to   *)
(* reserve only at step 6 and to be allowed only at the end.               *)

ReservationInv ==
  /\ ReservationAccounted
  /\ \A r \in Requests :
       /\ reserved[r] => PastReserve(r)
       /\ verdict[r] = "allow" => pc[r] = "done"

(* A step that neither touches the ledger nor what anybody holds.          *)
LEMMA QuietStepAccounts ==
  ASSUME ReservationInv, UNCHANGED <<ledger, reserved>>,
         \A q \in Requests :
           /\ Holding(q)' <=> Holding(q)
           /\ PastReserve(q) => PastReserve(q)'
           /\ pc[q] # "idle" => call'[q] = call[q] /\ now'[q] = now[q]
           /\ verdict'[q] = "allow" => pc'[q] = "done"
  PROVE  ReservationInv'
<1>1. ASSUME NEW q \in Requests, pc[q] # "idle"
      PROVE  EntryOf(q)' = EntryOf(q) /\ call'[q].agent = call[q].agent
  BY <1>1 DEF EntryOf
<1>2. \A q \in Requests : Holding(q) \/ PastReserve(q) => pc[q] # "idle"
  BY DEF Holding, Allowed, Done, PastReserve
<1>3. \A a \in Agents : \A e \in ledger'[a] :
        \E q \in Requests : Holding(q)' /\ call'[q].agent = a /\ e = EntryOf(q)'
  BY <1>1, <1>2 DEF ReservationInv, ReservationAccounted
<1>4. ASSUME NEW r \in Requests, Holding(r)'
      PROVE  \/ EntryOf(r)' \in ledger'[call'[r].agent]
             \/ \E q \in Requests :
                  /\ PastReserve(q)' /\ call'[q].agent = call'[r].agent
                  /\ now'[q] >= now'[r] + Day
  <2>1. Holding(r) /\ pc[r] # "idle"
    BY <1>2, <1>4
  <2>2. CASE EntryOf(r) \in ledger[call[r].agent]
    BY <1>1, <2>1, <2>2
  <2>3. ASSUME NEW q \in Requests, PastReserve(q), call[q].agent = call[r].agent,
               now[q] >= now[r] + Day
        PROVE  PastReserve(q)' /\ call'[q].agent = call'[r].agent
               /\ now'[q] >= now'[r] + Day
    BY <1>1, <1>2, <2>1, <2>3
  <2> QED
    BY <2>1, <2>2, <2>3 DEF ReservationInv, ReservationAccounted
<1> QED
  BY <1>3, <1>4 DEF ReservationInv, ReservationAccounted

(* Moving between two places that both hold, or neither of which does.     *)
LEMMA QuietMove ==
  ASSUME VerifyTypeOK, ReservationInv, NEW r \in Requests,
         UNCHANGED <<ledger, reserved, call, now>>,
         pc[r] \notin {"idle", "done"},
         \/ \E to \in PCs : Goto(r, to) /\ UNCHANGED verdict
         \/ \E v \in Verdicts \ {"allow"} : FailAuthenticated(r, v),
         PastReserve(r) => PastReserve(r)',
         reserved[r] => (pc[r] = "failure" <=> pc'[r] \in {"failure", "done"})
  PROVE  ReservationInv'
<1>1. ASSUME NEW q \in Requests, q # r
      PROVE  pc'[q] = pc[q] /\ verdict'[q] = verdict[q]
  BY <1>1 DEF VerifyTypeOK, Goto, FailAuthenticated, Refuse
<1>2. pc'[r] \in PCs /\ pc[r] \in PCs /\ verdict[r] # "allow" /\ verdict'[r] # "allow"
  BY DEF VerifyTypeOK, ReservationInv, Goto, FailAuthenticated, Refuse, PCs
<1>3. Holding(r)' <=> Holding(r)
  BY <1>2 DEF Holding, Allowed, Done, ReservationInv, PastReserve, PCs
<1>4. \A q \in Requests : Holding(q)' <=> Holding(q)
  BY <1>1, <1>3 DEF Holding, Allowed, Done
<1>5. \A q \in Requests : PastReserve(q) => PastReserve(q)'
  BY <1>1 DEF PastReserve
<1>6. \A q \in Requests : verdict'[q] = "allow" => pc'[q] = "done"
  BY <1>1, <1>2 DEF ReservationInv
<1> QED
  BY <1>4, <1>5, <1>6, QuietStepAccounts

LEMMA MarketAccounts ==
  ASSUME VerifyTypeOK, ReservationInv, NEW r \in Requests,
         UNCHANGED <<ledger, reserved, call, now>>, pc[r] \in {"agent", "issuer"},
         MeetsMarket(r)
  PROVE  ReservationInv'
<1>1. \/ \E to \in {"trust", "succeed"} : Goto(r, to) /\ UNCHANGED verdict
      \/ \E v \in Verdicts \ {"allow"} : FailAuthenticated(r, v)
  BY MarketMoves DEF Verdicts, StaticSteps
<1>2. pc'[r] \in {"trust", "succeed", "release"}
  BY <1>1 DEF VerifyTypeOK, Goto, FailAuthenticated
<1> QED
  BY <1>1, <1>2, QuietMove DEF PCs, PastReserve

(* Step 6.                                                                 *)
LEMMA ReserveAccounts ==
  ASSUME VerifyTypeOK, TrustTypeOK, ReservationInv, NEW r \in Requests, Reserve(r)
  PROVE  ReservationInv'
<1> DEFINE a == call[r].agent
           kept == Fresh(a, now[r])
           granted == HasAmount(call[r]) /\ FitsLimit(r)
<1>0. /\ a \in Agents /\ UNCHANGED <<call, now, verdict>>
      /\ pc[r] = "reserve" /\ ~reserved[r] /\ now \in [Requests -> Nat]
  BY CallFields DEF Reserve, ReservationInv, PastReserve, VerifyTypeOK
<1>1. /\ pc'[r] \in {"freshness", "violation"}
      /\ reserved'[r] <=> granted
      /\ \A q \in Requests : q # r => pc'[q] = pc[q] /\ reserved'[q] = reserved[q]
  BY DEF Reserve, Goto, VerifyTypeOK
<1>2. /\ granted => ledger'[a] = kept \cup {EntryOf(r)}
      /\ ~granted => ledger'[a] = kept
      /\ \A b \in Agents : b # a => ledger'[b] = ledger[b]
  BY <1>0 DEF Reserve, ReserveAmount, RecordAmount, DayTotal, FitsLimit, EntryOf,
              TrustTypeOK
<1>3. \A q \in Requests : EntryOf(q)' = EntryOf(q)
  BY <1>0 DEF EntryOf
<1>4. \A q \in Requests : q # r => (Holding(q)' <=> Holding(q))
  BY <1>0, <1>1 DEF Holding, Allowed, Done
<1>5. Holding(r)' <=> granted
  BY <1>1 DEF Holding, Allowed, Done
<1>6. ~Holding(r)
  BY <1>0 DEF Holding
<1>7. PastReserve(r)' /\ \A q \in Requests : PastReserve(q) => PastReserve(q)'
  BY <1>1 DEF PastReserve
<1> HIDE DEF granted
<1>8. ASSUME NEW b \in Agents, NEW e \in ledger'[b]
      PROVE  \E q \in Requests : Holding(q)' /\ call'[q].agent = b /\ e = EntryOf(q)'
  <2>1. CASE e \in ledger[b]
    <3>1. PICK q \in Requests : Holding(q) /\ call[q].agent = b /\ e = EntryOf(q)
      BY <2>1 DEF ReservationInv, ReservationAccounted
    <3> QED
      BY <1>0, <1>3, <1>4, <1>6, <3>1
  <2>2. CASE e \notin ledger[b]
    <3>1. b = a /\ granted /\ e = EntryOf(r)
      BY <1>2, <1>8, <2>2 DEF Fresh
    <3> QED
      BY <1>0, <1>3, <1>5, <3>1
  <2> QED
    BY <2>1, <2>2
<1>9. ASSUME NEW p \in Requests, Holding(p)'
      PROVE  \/ EntryOf(p)' \in ledger'[call'[p].agent]
             \/ \E q \in Requests :
                  /\ PastReserve(q)' /\ call'[q].agent = call'[p].agent
                  /\ now'[q] >= now'[p] + Day
  <2>1. CASE p = r
    BY <1>0, <1>2, <1>3, <1>5, <1>9, <2>1
  <2>2. CASE p # r
    <3>1. Holding(p) /\ call[p].agent \in Agents
      BY <1>4, <1>9, <2>2, CallFields
    <3>2. CASE EntryOf(p) \in ledger[call[p].agent]
      <4>1. CASE call[p].agent = a /\ ~(now[p] + Day > now[r])
        <5>1. now[r] >= now[p] + Day
          BY <1>0, <4>1, TrustAssumption
        <5> QED
          BY <1>0, <1>7, <4>1, <5>1
      <4>2. CASE call[p].agent = a /\ now[p] + Day > now[r]
        <5>1. EntryOf(p) \in kept
          BY <3>2, <4>2 DEF Fresh, EntryOf
        <5> QED
          BY <1>0, <1>2, <1>3, <4>2, <5>1
      <4>3. CASE call[p].agent # a
        BY <1>0, <1>2, <1>3, <3>1, <3>2, <4>3
      <4> QED
        BY <4>1, <4>2, <4>3
    <3>3. CASE \E q \in Requests : PastReserve(q) /\ call[q].agent = call[p].agent
                                   /\ now[q] >= now[p] + Day
      BY <1>0, <1>7, <3>3
    <3> QED
      BY <3>1, <3>2, <3>3 DEF ReservationInv, ReservationAccounted
  <2> QED
    BY <2>1, <2>2
<1>10. \A q \in Requests : /\ reserved'[q] => PastReserve(q)'
                           /\ verdict'[q] = "allow" => pc'[q] = "done"
  BY <1>0, <1>1, <1>7 DEF ReservationInv, PastReserve
<1> QED
  BY <1>8, <1>9, <1>10 DEF ReservationInv, ReservationAccounted

(* fail_authenticated gives back exactly what the request had reserved.    *)
LEMMA ReleaseAccounts ==
  ASSUME VerifyTypeOK, TrustTypeOK, ReservationInv, NEW r \in Requests, Release(r),
         reserved[r]
  PROVE  ReservationInv'
<1> DEFINE a == call[r].agent
<1>0. /\ a \in Agents /\ UNCHANGED <<call, now, reserved, verdict>>
      /\ pc[r] = "release" /\ pc'[r] = "failure" /\ verdict[r] # "allow"
      /\ \A q \in Requests : q # r => pc'[q] = pc[q]
  BY CallFields DEF Release, Goto, ReservationInv, VerifyTypeOK
<1>1. /\ ledger'[a] = {e \in ledger[a] : e.token # r}
      /\ \A b \in Agents : b # a => ledger'[b] = ledger[b]
  BY <1>0 DEF Release, ReleaseAmount, TrustTypeOK
<1>2. \A q \in Requests : EntryOf(q)' = EntryOf(q) /\ EntryOf(q).token = q
  BY <1>0 DEF EntryOf
<1>3. ~Holding(r)' /\ \A q \in Requests : q # r => (Holding(q)' <=> Holding(q))
  BY <1>0 DEF Holding, Allowed, Done
<1>4. \A q \in Requests : PastReserve(q) => PastReserve(q)'
  BY <1>0 DEF PastReserve
<1>5. ASSUME NEW b \in Agents, NEW e \in ledger'[b]
      PROVE  \E q \in Requests : Holding(q)' /\ call'[q].agent = b /\ e = EntryOf(q)'
  <2>1. e \in ledger[b] /\ (b = a => e.token # r)
    BY <1>1, <1>5
  <2>2. PICK q \in Requests : Holding(q) /\ call[q].agent = b /\ e = EntryOf(q)
    BY <2>1 DEF ReservationInv, ReservationAccounted
  <2>3. q # r
    BY <1>2, <2>1, <2>2
  <2> QED
    BY <1>0, <1>2, <1>3, <2>2, <2>3
<1>6. ASSUME NEW p \in Requests, Holding(p)'
      PROVE  \/ EntryOf(p)' \in ledger'[call'[p].agent]
             \/ \E q \in Requests :
                  /\ PastReserve(q)' /\ call'[q].agent = call'[p].agent
                  /\ now'[q] >= now'[p] + Day
  <2>1. p # r /\ Holding(p) /\ call[p].agent \in Agents
    BY <1>3, <1>6, CallFields
  <2>2. CASE EntryOf(p) \in ledger[call[p].agent]
    <3>1. EntryOf(p) \in ledger'[call[p].agent]
      BY <1>1, <1>2, <2>1, <2>2
    <3> QED
      BY <1>0, <1>2, <3>1
  <2>3. CASE \E q \in Requests : PastReserve(q) /\ call[q].agent = call[p].agent
                                 /\ now[q] >= now[p] + Day
    BY <1>0, <1>4, <2>3
  <2> QED
    BY <2>1, <2>2, <2>3 DEF ReservationInv, ReservationAccounted
<1>7. \A q \in Requests : /\ reserved'[q] => PastReserve(q)'
                          /\ verdict'[q] = "allow" => pc'[q] = "done"
  BY <1>0, <1>4 DEF ReservationInv
<1> QED
  BY <1>5, <1>6, <1>7 DEF ReservationInv, ReservationAccounted

LEMMA ReceiveAccounts ==
  ASSUME VerifyTypeOK, ReservationInv, NEW r \in Requests, NEW c \in Calls,
         Reject(r, c) \/ Authenticate(r, c)
  PROVE  ReservationInv'
<1>0. /\ UNCHANGED <<ledger, reserved>>
      /\ pc[r] = "idle" /\ pc'[r] \in {"attest", "done"}
      /\ \A q \in Requests : q # r =>
           /\ pc'[q] = pc[q] /\ call'[q] = call[q] /\ now'[q] = now[q]
           /\ verdict'[q] = verdict[q]
  BY DEF Reject, Authenticate, Receive, Goto, Refuse, VerifyTypeOK, trustVars
<1>1. verdict[r] # "allow" /\ ~reserved[r]
  BY <1>0 DEF ReservationInv, PastReserve
<1>2. verdict'[r] # "allow"
  BY <1>1 DEF Reject, Authenticate, Refuse, EarlySteps, VerifyTypeOK
<1>3. \A q \in Requests : Holding(q)' <=> Holding(q)
  BY <1>0, <1>1 DEF Holding, Allowed, Done
<1>4. \A q \in Requests : PastReserve(q) => PastReserve(q)'
  BY <1>0 DEF PastReserve
<1>5. \A q \in Requests : verdict'[q] = "allow" => pc'[q] = "done"
  BY <1>0, <1>2 DEF ReservationInv
<1> QED
  BY <1>0, <1>3, <1>4, <1>5, QuietStepAccounts

LEMMA StepAccounts ==
  ASSUME TypeOK, ReservationInv, NEW r \in Requests, Step(r)
  PROVE  ReservationInv'
<1>0. VerifyTypeOK /\ TrustTypeOK /\ UNCHANGED <<call, now>>
  BY StepMoves DEF TypeOK
<1>1. CASE \/ Attest(r) \/ Depth(r) \/ SpendNonceOf(r) \/ Violation(r) \/ Freshness(r)
           \/ CheckSuspended(r) \/ CheckTrust(r) \/ RecordFailure(r)
  <2>1. UNCHANGED <<ledger, reserved>>
    BY <1>1
       DEF Attest, Depth, SpendNonceOf, Violation, Freshness, CheckSuspended,
           CheckTrust, RecordFailure, RecordAttestation, RecordDepth,
           RecordViolation, RecordIntent, trustVars
  <2>2. \/ \E to \in PCs : Goto(r, to) /\ UNCHANGED verdict
        \/ \E v \in Verdicts \ {"allow"} : FailAuthenticated(r, v)
    BY <1>1
       DEF Attest, Depth, SpendNonceOf, Violation, Freshness, CheckSuspended,
           CheckTrust, RecordFailure, PCs, Verdicts, StaticSteps, RevocationVerdicts
  <2>3. /\ pc[r] \notin {"idle", "done"}
        /\ pc'[r] \notin {"idle", "attest"}
        /\ PastReserve(r) => PastReserve(r)'
        /\ pc[r] = "failure" <=> pc'[r] \in {"failure", "done"}
    BY <1>0, <1>1
       DEF Attest, Depth, SpendNonceOf, Violation, Freshness, CheckSuspended,
           CheckTrust, RecordFailure, Goto, FailAuthenticated, PastReserve,
           VerifyTypeOK
  <2> QED
    BY <1>0, <2>1, <2>2, <2>3, QuietMove
<1>2. CASE Reserve(r)
  BY <1>0, <1>2, ReserveAccounts
<1>3. CASE CheckAgent(r)
  <2>1. UNCHANGED <<ledger, reserved>> /\ pc[r] = "agent"
    BY <1>3 DEF CheckAgent, trustVars
  <2>2. \/ MeetsMarket(r)
        \/ \E to \in {"suspended", "issuer"} : Goto(r, to) /\ UNCHANGED verdict
    BY <1>3 DEF CheckAgent
  <2>3. CASE \E to \in {"suspended", "issuer"} : Goto(r, to) /\ UNCHANGED verdict
    <3>1. pc'[r] \in {"suspended", "issuer"}
      BY <1>0, <2>3 DEF Goto, VerifyTypeOK
    <3> QED
      BY <1>0, <2>1, <2>3, <3>1, QuietMove DEF PCs, PastReserve
  <2> QED
    BY <1>0, <2>1, <2>2, <2>3, MarketAccounts
<1>4. CASE CheckIssuer(r)
  <2>1. UNCHANGED <<ledger, reserved>> /\ pc[r] = "issuer"
    BY <1>4 DEF CheckIssuer, trustVars
  <2>2. CASE FailAuthenticated(r, "issuer")
    <3>1. pc'[r] = "release"
      BY <1>0, <2>2 DEF FailAuthenticated, Goto, VerifyTypeOK
    <3> QED
      BY <1>0, <2>1, <2>2, <3>1, QuietMove DEF Verdicts, RevocationVerdicts, PastReserve
  <2> QED
    BY <1>0, <1>4, <2>1, <2>2, MarketAccounts DEF CheckIssuer
<1>5. CASE Release(r)
  <2>1. CASE reserved[r]
    BY <1>0, <1>5, <2>1, ReleaseAccounts
  <2>2. CASE ~reserved[r]
    <3>1. UNCHANGED <<ledger, reserved, verdict>> /\ pc[r] = "release" /\ pc'[r] = "failure"
      BY <1>0, <1>5, <2>2 DEF Release, Goto, trustVars, VerifyTypeOK
    <3> QED
      BY <1>0, <1>5, <2>2, <3>1, QuietMove DEF Release, PCs, PastReserve
  <2> QED
    BY <2>1, <2>2
<1>6. CASE Succeed(r)
  <2>1. /\ UNCHANGED <<ledger, reserved>>
        /\ pc[r] = "succeed" /\ pc'[r] = "done" /\ verdict'[r] = "allow"
        /\ \A q \in Requests : q # r => pc'[q] = pc[q] /\ verdict'[q] = verdict[q]
    BY <1>0, <1>6 DEF Succeed, RecordIntent, Goto, VerifyTypeOK
  <2>2. \A q \in Requests : Holding(q)' <=> Holding(q)
    BY <2>1 DEF Holding, Allowed, Done
  <2>3. \A q \in Requests : /\ PastReserve(q) => PastReserve(q)'
                            /\ verdict'[q] = "allow" => pc'[q] = "done"
    BY <2>1 DEF PastReserve, ReservationInv
  <2> QED
    BY <1>0, <2>1, <2>2, <2>3, QuietStepAccounts
<1> QED
  BY <1>1, <1>2, <1>3, <1>4, <1>5, <1>6 DEF Step

LEMMA AccountingStep ==
  ASSUME TypeOK, ReservationInv, [Next]_vars
  PROVE  ReservationInv'
<1>1. ASSUME UNCHANGED <<ledger, requestVars>> PROVE ReservationInv'
  <2>1. \A q \in Requests : /\ Holding(q)' <=> Holding(q)
                            /\ PastReserve(q)' <=> PastReserve(q)
    BY <1>1 DEF requestVars, Holding, Allowed, Done, PastReserve
  <2> QED
    BY <1>1, <2>1, QuietStepAccounts DEF requestVars, ReservationInv
<1>2. CASE Pass \/ Synchronise \/ \E s \in Targets : Operate(s)
  BY <1>1, <1>2 DEF Pass, Synchronise, Operate, trustVars
<1>3. ASSUME NEW r \in Requests, NEW c \in Calls, Reject(r, c) \/ Authenticate(r, c)
      PROVE  ReservationInv'
  BY <1>3, ReceiveAccounts DEF TypeOK
<1>4. ASSUME NEW r \in Requests, Step(r) PROVE ReservationInv'
  BY <1>4, StepAccounts
<1>5. CASE UNCHANGED vars
  BY <1>1, <1>5 DEF vars, trustVars
<1> QED
  BY <1>2, <1>3, <1>4, <1>5 DEF Next

(* The ledger holds the amounts of the requests still deciding or allowed, *)
(* and no others; and it lacks none that a request a day later has not     *)
(* pruned: no refusal keeps budget, no allowed request loses it.           *)
THEOREM ReservationsAccountedFor == Spec => []ReservationAccounted
<1>1. Init => ReservationInv
  BY DEF Init, TrustInit, ReservationInv, ReservationAccounted, Holding
<1>2. TypeOK /\ ReservationInv /\ [Next]_vars => ReservationInv'
  BY AccountingStep
<1>3. ReservationInv => ReservationAccounted
  BY DEF ReservationInv
<1> QED
  BY <1>1, <1>2, <1>3, VerifyTypeCorrect, PTL DEF Spec

(* Whoever is past step 6 with an amount has reserved it.                  *)

ReservedInv ==
  \A r \in Requests :
    HasAmount(call[r]) /\ ~reserved[r] =>
      /\ verdict[r] # "allow"
      /\ pc[r] \notin {"freshness", "agent", "suspended", "issuer", "trust", "succeed"}

LEMMA StepReserved ==
  ASSUME TypeOK, ReservationInv, ReservedInv, NEW r \in Requests, Step(r)
  PROVE  ReservedInv'
<1>0. VerifyTypeOK /\ UNCHANGED <<call, now>>
  BY StepMoves DEF TypeOK
<1>1. ASSUME NEW q \in Requests, q # r
      PROVE  pc'[q] = pc[q] /\ verdict'[q] = verdict[q] /\ reserved'[q] = reserved[q]
  <2>1. pc'[q] = pc[q] /\ verdict'[q] = verdict[q]
    BY <1>0, <1>1, OthersStay
  <2>2. CASE Reserve(r)
    BY <1>0, <1>1, <2>1, <2>2 DEF Reserve, VerifyTypeOK
  <2>3. CASE ~Reserve(r)
    BY <2>1, <2>3
       DEF Step, Attest, Depth, SpendNonceOf, Violation, Freshness, CheckAgent,
           CheckSuspended, CheckIssuer, CheckTrust, Release, RecordFailure, Succeed
  <2> QED
    BY <2>2, <2>3
<1>2. ASSUME HasAmount(call[r]), ~reserved'[r]
      PROVE  /\ verdict'[r] # "allow"
             /\ pc'[r] \notin {"freshness", "agent", "suspended", "issuer", "trust",
                              "succeed"}
  <2>1. CASE Reserve(r)
    <3>1. ~FitsLimit(r)
      BY <1>0, <1>2, <2>1 DEF Reserve, VerifyTypeOK
    <3>2. pc'[r] = "violation"
      BY <1>0, <1>2, <2>1, <3>1 DEF Reserve, WithinBoundaries, Goto, VerifyTypeOK
    <3>3. verdict' = verdict /\ pc[r] = "reserve"
      BY <2>1 DEF Reserve
    <3> QED
      BY <1>0, <1>2, <3>2, <3>3 DEF ReservationInv
  <2>2. ASSUME ~Reserve(r) PROVE UNCHANGED reserved
    BY <2>2
       DEF Step, Attest, Depth, SpendNonceOf, Violation, Freshness, CheckAgent,
           CheckSuspended, CheckIssuer, CheckTrust, Release, RecordFailure, Succeed
  <2>3. CASE \/ Attest(r) \/ Depth(r) \/ SpendNonceOf(r) \/ Violation(r)
             \/ Release(r) \/ RecordFailure(r)
    <3>1. UNCHANGED reserved
      BY <2>3 DEF Attest, Depth, SpendNonceOf, Violation, Release, RecordFailure
    <3> QED
      BY <1>0, <1>2, <2>3, <3>1
         DEF Attest, Depth, SpendNonceOf, Violation, Release, RecordFailure, Goto,
             FailAuthenticated, Refuse, VerifyTypeOK, ReservedInv
  <2>4. CASE \/ Freshness(r) \/ CheckAgent(r) \/ CheckSuspended(r) \/ CheckIssuer(r)
             \/ CheckTrust(r) \/ Succeed(r)
    <3>1. UNCHANGED reserved
      BY <2>4
         DEF Freshness, CheckAgent, CheckSuspended, CheckIssuer, CheckTrust, Succeed
    <3> QED
      BY <1>2, <2>4, <3>1
         DEF Freshness, CheckAgent, CheckSuspended, CheckIssuer, CheckTrust, Succeed,
             ReservedInv
  <2> QED
    BY <2>1, <2>3, <2>4 DEF Step
<1> QED
  BY <1>0, <1>1, <1>2 DEF ReservedInv

(* Spec keeps ReservedInv: no request passes step 6 with an amount it has  *)
(* not reserved (reserve_amount and its caller in verify_intent).          *)
LEMMA ReservedStep ==
  ASSUME TypeOK, ReservationInv, ReservedInv, [Next]_vars
  PROVE  ReservedInv'
<1>1. ASSUME UNCHANGED requestVars PROVE ReservedInv'
  BY <1>1 DEF requestVars, ReservedInv
<1>2. ASSUME NEW r \in Requests, NEW c \in Calls, Reject(r, c) \/ Authenticate(r, c)
      PROVE  ReservedInv'
  <2>1. /\ \A q \in Requests : q # r =>
             pc'[q] = pc[q] /\ verdict'[q] = verdict[q] /\ call'[q] = call[q]
        /\ pc'[r] \in {"attest", "done"} /\ reserved' = reserved
    BY <1>2 DEF Reject, Authenticate, Receive, Goto, Refuse, TypeOK, VerifyTypeOK
  <2>2. verdict'[r] # "allow"
    <3>1. verdict[r] # "allow"
      BY <1>2 DEF ReservationInv, Reject, Authenticate, Receive
    <3>2. \A i \in 1..Len(EarlySteps) : EarlySteps[i] # "allow"
      BY DEF EarlySteps
    <3> QED
      BY <1>2, <3>1, <3>2 DEF Reject, Authenticate, Refuse, TypeOK, VerifyTypeOK
  <2> QED
    BY <2>1, <2>2 DEF ReservedInv
<1> QED
  BY <1>1, <1>2, StepReserved
     DEF Next, vars, Pass, Synchronise, Operate

(* Whoever is allowed with an amount has reserved it.                      *)
LEMMA ReservedInvariant == Spec => [](ReservationInv /\ ReservedInv)
<1>1. Init => ReservationInv /\ ReservedInv
  BY DEF Init, TrustInit, ReservationInv, ReservationAccounted, Holding, ReservedInv
<1>2. /\ TypeOK /\ ReservationInv /\ ReservedInv /\ [Next]_vars
        => ReservationInv' /\ ReservedInv'
  BY AccountingStep, ReservedStep
<1> QED
  BY <1>1, <1>2, VerifyTypeCorrect, PTL DEF Spec

-----------------------------------------------------------------------------
(* The total of a ledger.  MapThenSumSet takes elements out one by one, by *)
(* a recursive function on the subsets of the ledger; its facts are proved *)
(* from a least subset that would break them.                              *)

(* A nonempty set of subsets of a finite set has a member none of whose    *)
(* proper subsets is one.                                                  *)
LEMMA LeastSubset ==
  ASSUME NEW E, IsFiniteSet(E), NEW C \in SUBSET (SUBSET E), C # {}
  PROVE  \E T \in C : \A U \in C : U \subseteq T => U = T
<1>1. IsWellFoundedOn(StrictSubsetOrdering(E), SUBSET E)
  BY FS_StrictSubsetOrderingWellFounded, FS_FiniteSubsetsOfFinite
<1>2. PICK T \in C : \A U \in C : ~(<<U, T>> \in StrictSubsetOrdering(E))
  BY <1>1, WFMin
<1>3. ASSUME NEW U \in C, U \subseteq T PROVE U = T
  BY <1>2, <1>3 DEF StrictSubsetOrdering
<1> QED
  BY <1>3

(* The element MapThenSumSet takes first, and the function it recurses by. *)
First(T) == CHOOSE x \in T : TRUE

Sums(s, E) ==
  s = [T \in SUBSET E |-> IF T = {} THEN 0 ELSE First(T).amount + s[T \ {First(T)}]]

LEMMA FirstIsMember == ASSUME NEW T, T # {} PROVE First(T) \in T
  BY DEF First

LEMMA SumsAt ==
  ASSUME NEW s, NEW E, Sums(s, E), NEW T \in SUBSET E
  PROVE  s[T] = IF T = {} THEN 0 ELSE First(T).amount + s[T \ {First(T)}]
  BY DEF Sums

LEMMA TotalIsSum == ASSUME NEW E PROVE Total(E) = (CHOOSE s : Sums(s, E))[E]
  BY DEF Total, Sets!MapThenSumSet, Sets!MapThenFoldSet, Sums, First

LEMMA SumsAgree ==
  ASSUME NEW E, NEW F, NEW s, NEW t, Sums(s, E), Sums(t, F),
         NEW T, IsFiniteSet(T), T \subseteq E, T \subseteq F
  PROVE  s[T] = t[T]
<1> DEFINE C == {U \in SUBSET T : s[U] # t[U]}
<1> SUFFICES ASSUME C # {} PROVE FALSE
  OBVIOUS
<1>1. PICK U \in C : \A V \in C : V \subseteq U => V = U
  <2>1. C \in SUBSET (SUBSET T)
    OBVIOUS
  <2> HIDE DEF C
  <2> QED
    BY <2>1, LeastSubset
<1>2. U \in SUBSET E /\ U \in SUBSET F
  OBVIOUS
<1>3. U # {}
  BY <1>2, SumsAt
<1>4. s[U \ {First(U)}] = t[U \ {First(U)}]
  BY <1>1, <1>3, FirstIsMember
<1> QED
  BY <1>2, <1>3, <1>4, SumsAt

LEMMA SumsExist == ASSUME NEW E, IsFiniteSet(E) PROVE \E s : Sums(s, E)
<1> DEFINE C == {U \in SUBSET E : ~\E s : Sums(s, U)}
<1> SUFFICES ASSUME C # {} PROVE FALSE
  OBVIOUS
<1>1. PICK U \in C : \A V \in C : V \subseteq U => V = U
  <2>1. C \in SUBSET (SUBSET E)
    OBVIOUS
  <2> HIDE DEF C
  <2> QED
    BY <2>1, LeastSubset
<1> DEFINE part(V) == CHOOSE s : Sums(s, V)
           at(V) == IF V = {} THEN 0 ELSE First(V).amount + part(V \ {First(V)})[V \ {First(V)}]
           all == [V \in SUBSET U |-> at(V)]
<1>2. ASSUME NEW V \in SUBSET U, V # U PROVE Sums(part(V), V)
  <2>1. \E s : Sums(s, V)
    BY <1>1, <1>2
  <2> QED
    BY <2>1
<1>3. ASSUME NEW V \in SUBSET U, V # U PROVE all[V] = part(V)[V]
  <2>1. CASE V = {}
    BY <1>2, <1>3, <2>1, SumsAt
  <2>2. CASE V # {}
    <3> DEFINE W == V \ {First(V)}
    <3>1. W \in SUBSET V /\ W # U
      BY <1>3
    <3>2. IsFiniteSet(W)
      BY <3>1, FS_Subset
    <3>3. Sums(part(W), W) /\ Sums(part(V), V)
      BY <1>2, <1>3, <3>1
    <3> HIDE DEF part
    <3>4. part(V)[W] = part(W)[W]
      BY <3>1, <3>2, <3>3, SumsAgree
    <3>5. part(V)[V] = First(V).amount + part(V)[W]
      BY <2>2, <3>3, SumsAt
    <3> QED
      BY <2>2, <3>4, <3>5
  <2> QED
    BY <2>1, <2>2
<1>4. ASSUME NEW V \in SUBSET U, V # {}
      PROVE  all[V] = First(V).amount + all[V \ {First(V)}]
  <2> DEFINE W == V \ {First(V)}
  <2>1. W \in SUBSET U /\ W # U
    BY <1>4, FirstIsMember
  <2>2. all[W] = part(W)[W]
    BY <1>3, <2>1
  <2> HIDE DEF part
  <2> QED
    BY <1>4, <2>2
<1>5. all[{}] = 0
  OBVIOUS
<1> HIDE DEF at
<1>6. all = [V \in SUBSET U |-> IF V = {} THEN 0 ELSE First(V).amount + all[V \ {First(V)}]]
  BY <1>4, <1>5
<1>7. Sums(all, U)
  BY <1>6 DEF Sums
<1> QED
  BY <1>1, <1>7

LEMMA TotalUnfolds ==
  ASSUME NEW E, IsFiniteSet(E)
  PROVE  /\ E = {} => Total(E) = 0
         /\ E # {} => Total(E) = First(E).amount + Total(E \ {First(E)})
<1> DEFINE sum(T) == CHOOSE s : Sums(s, T)
<1>1. \A T \in SUBSET E : IsFiniteSet(T) /\ Sums(sum(T), T) /\ Total(T) = sum(T)[T]
  BY SumsExist, TotalIsSum, FS_Subset
<1> HIDE DEF sum
<1>2. CASE E = {}
  BY <1>1, <1>2, SumsAt
<1>3. CASE E # {}
  <2> DEFINE W == E \ {First(E)}
  <2>1. sum(E)[E] = First(E).amount + sum(E)[W]
    BY <1>1, <1>3, SumsAt
  <2>2. sum(E)[W] = sum(W)[W]
    BY <1>1, SumsAgree
  <2> QED
    BY <1>1, <1>3, <2>1, <2>2
<1> QED
  BY <1>2, <1>3

(* A finite set of entries with natural amounts.                           *)
Summable(E) == IsFiniteSet(E) /\ \A e \in E : e.amount \in Nat

LEMMA PartIsSummable ==
  ASSUME NEW E, Summable(E), NEW F, F \subseteq E PROVE Summable(F)
  BY FS_Subset DEF Summable

LEMMA TotalType == ASSUME NEW E, Summable(E) PROVE Total(E) \in Nat
<1> DEFINE C == {U \in SUBSET E : Total(U) \notin Nat}
<1> SUFFICES ASSUME C # {} PROVE FALSE
  OBVIOUS
<1>1. PICK U \in C : \A V \in C : V \subseteq U => V = U
  <2>1. C \in SUBSET (SUBSET E) /\ IsFiniteSet(E)
    BY DEF Summable
  <2> HIDE DEF C
  <2> QED
    BY <2>1, LeastSubset
<1>2. Summable(U)
  BY PartIsSummable
<1>3. U # {}
  <2>1. Total(U) \notin Nat
    BY <1>1
  <2>2. U = {} => Total(U) = 0
    BY <1>2, TotalUnfolds DEF Summable
  <2> QED
    BY <2>1, <2>2
<1> DEFINE W == U \ {First(U)}
<1>4. Total(U) = First(U).amount + Total(W) /\ First(U) \in U
  BY <1>2, <1>3, TotalUnfolds, FirstIsMember DEF Summable
<1>5. Total(W) \in Nat
  BY <1>1, <1>4
<1> QED
  BY <1>2, <1>4, <1>5 DEF Summable

(* Whichever element is taken out first, the total is the same.            *)
LEMMA TotalWithout ==
  ASSUME NEW E, Summable(E), NEW x \in E
  PROVE  Total(E) = x.amount + Total(E \ {x})
<1> DEFINE Splits(U, y) == Total(U) = y.amount + Total(U \ {y})
           C == {U \in SUBSET E : \E y \in U : ~Splits(U, y)}
<1> SUFFICES ASSUME C # {} PROVE FALSE
  OBVIOUS
<1>1. PICK U \in C : \A V \in C : V \subseteq U => V = U
  <2>1. C \in SUBSET (SUBSET E) /\ IsFiniteSet(E)
    BY DEF Summable
  <2> HIDE DEF C
  <2> QED
    BY <2>1, LeastSubset
<1>2. PICK y \in U : ~Splits(U, y)
  BY <1>1
<1>3. Summable(U) /\ U \in SUBSET E
  BY PartIsSummable
<1> DEFINE f == First(U)
           R == (U \ {f}) \ {y}
<1>4. f \in U /\ Splits(U, f)
  BY <1>2, <1>3, TotalUnfolds, FirstIsMember DEF Summable
<1>5. f # y
  BY <1>2, <1>4
<1>6. Splits(U \ {f}, y) /\ Splits(U \ {y}, f)
  <2>1. ASSUME NEW V \in SUBSET U, V # U, NEW z \in V PROVE Splits(V, z)
    BY <1>1, <1>3, <2>1
  <2> QED
    BY <1>4, <1>5, <2>1
<1>7. /\ Total(U) = f.amount + Total(U \ {f}) /\ Total(U \ {f}) = y.amount + Total(R)
      /\ Total(U) # y.amount + Total(U \ {y}) /\ Total(U \ {y}) = f.amount + Total(R)
  <2>1. (U \ {y}) \ {f} = R
    OBVIOUS
  <2> QED
    BY <1>2, <1>4, <1>6, <2>1
<1>8. /\ f.amount \in Nat /\ y.amount \in Nat
      /\ Total(R) \in Nat
  BY <1>3, <1>4, PartIsSummable, TotalType DEF Summable
<1> HIDE DEF f, R
<1> QED
  BY <1>7, <1>8

LEMMA TotalWith ==
  ASSUME NEW E, Summable(E), NEW x, x.amount \in Nat
  PROVE  /\ Summable(E \cup {x})
         /\ Total(E \cup {x}) <= Total(E) + x.amount
<1>1. Summable(E \cup {x})
  BY FS_AddElement DEF Summable
<1>2. CASE x \in E
  <2>1. E \cup {x} = E
    BY <1>2
  <2>2. Total(E \cup {x}) = Total(E) /\ Total(E) \in Nat
    BY <2>1, TotalType
  <2> QED
    BY <1>1, <2>2
<1>3. CASE x \notin E
  <2>1. (E \cup {x}) \ {x} = E
    BY <1>3
  <2> QED
    BY <1>1, <2>1, TotalType, TotalWithout
<1> QED
  BY <1>2, <1>3

(* A part of a ledger totals no more than the whole of it.                 *)
LEMMA TotalOfPart ==
  ASSUME NEW E, Summable(E), NEW F, F \subseteq E
  PROVE  Total(F) <= Total(E)
<1> DEFINE C == {U \in SUBSET E : F \subseteq U /\ ~(Total(F) <= Total(U))}
<1> SUFFICES ASSUME C # {} PROVE FALSE
  BY TotalType
<1>1. PICK U \in C : \A V \in C : V \subseteq U => V = U
  <2>1. C \in SUBSET (SUBSET E) /\ IsFiniteSet(E)
    BY DEF Summable
  <2> HIDE DEF C
  <2> QED
    BY <2>1, LeastSubset
<1>2. /\ Summable(U) /\ Summable(F)
      /\ Total(F) \in Nat /\ Total(U) \in Nat /\ U \in SUBSET E
  BY PartIsSummable, TotalType
<1>3. PICK x \in U : x \notin F
  <2>1. F \subseteq U /\ ~(Total(F) <= Total(U))
    BY <1>1
  <2>2. U # F
    BY <1>2, <2>1
  <2> QED
    BY <2>1, <2>2
<1>4. /\ Total(U) = x.amount + Total(U \ {x})
      /\ x.amount \in Nat /\ Total(U \ {x}) \in Nat
  BY <1>2, PartIsSummable, TotalType, TotalWithout DEF Summable
<1>5. Total(F) <= Total(U \ {x})
  BY <1>1, <1>2, <1>3
<1> QED
  BY <1>1, <1>2, <1>4, <1>5

-----------------------------------------------------------------------------
(* The per-day limit.  The ledger within the limit of one of its entries   *)
(* is not inductive: that entry may be pruned or released.  What is kept   *)
(* is that every part of a ledger is within the limit of one of its own.   *)

WithinLimitOfOne(E) ==
  \E e \in E : call[e.token].perDay = 0 \/ Total(E) <= call[e.token].perDay

LimitInv ==
  \A a \in Agents :
    /\ Summable(ledger[a])
    /\ \A E \in SUBSET ledger[a] : E # {} => WithinLimitOfOne(E)

(* Whatever only takes entries out of the ledgers keeps it.                *)
LEMMA LimitStays ==
  ASSUME ReservationInv, LimitInv,
         \A a \in Agents : ledger'[a] \subseteq ledger[a],
         \A q \in Requests : pc[q] # "idle" => call'[q] = call[q]
  PROVE  LimitInv'
<1> SUFFICES ASSUME NEW a \in Agents
             PROVE  /\ Summable(ledger'[a])
                    /\ \A E \in SUBSET ledger'[a] : E # {} => WithinLimitOfOne(E)'
  BY DEF LimitInv
<1>1. Summable(ledger'[a])
  BY PartIsSummable DEF LimitInv
<1>2. ASSUME NEW E \in SUBSET ledger'[a], E # {} PROVE WithinLimitOfOne(E)'
  <2>1. E \in SUBSET ledger[a]
    OBVIOUS
  <2>2. PICK e \in E : call[e.token].perDay = 0 \/ Total(E) <= call[e.token].perDay
    BY <1>2, <2>1 DEF LimitInv, WithinLimitOfOne
  <2>3. PICK r \in Requests : Holding(r) /\ e = EntryOf(r)
    BY <2>1 DEF ReservationInv, ReservationAccounted
  <2>4. call'[e.token] = call[e.token]
    BY <2>3 DEF Holding, Allowed, Done, EntryOf
  <2> QED
    BY <2>2, <2>4 DEF WithinLimitOfOne
<1> QED
  BY <1>1, <1>2

(* Step 6: whoever enters the ledger fits what it leaves there.            *)
LEMMA ReserveKeepsLimit ==
  ASSUME VerifyTypeOK, TrustTypeOK, ReservationInv, LimitInv,
         NEW r \in Requests, Reserve(r)
  PROVE  LimitInv'
<1> DEFINE a == call[r].agent
           kept == Fresh(a, now[r])
           x == EntryOf(r)
           granted == HasAmount(call[r]) /\ FitsLimit(r)
<1>1. /\ a \in Agents /\ call' = call
      /\ call[r].amount \in Nat \/ call[r].amount = NoAmount
  BY CallFields DEF Reserve
<1>2. /\ granted => ledger'[a] = kept \cup {x}
      /\ ~granted => ledger'[a] = kept
      /\ \A b \in Agents : b # a => ledger'[b] = ledger[b]
  BY <1>1 DEF Reserve, ReserveAmount, RecordAmount, DayTotal, FitsLimit, EntryOf,
              TrustTypeOK
<1>3. kept \subseteq ledger[a]
  BY DEF Fresh
<1>4. CASE ~granted
  BY <1>1, <1>2, <1>3, <1>4, LimitStays
<1>5. CASE granted
  <2>1. /\ x.token = r /\ x.amount = call[r].amount /\ x.amount \in Nat
        /\ call[r].perDay \in Nat
        /\ call[r].perDay = 0 \/ Total(kept) + x.amount <= call[r].perDay
    BY <1>1, <1>5, CallFields, VerifyAssumption
       DEF EntryOf, HasAmount, FitsLimit, Fits, Call
  <2>2. Summable(kept) /\ Total(kept) \in Nat
    BY <1>1, <1>3, PartIsSummable, TotalType DEF LimitInv
  <2>3. Summable(kept \cup {x}) /\ Total(kept \cup {x}) <= Total(kept) + x.amount
    BY <2>1, <2>2, TotalWith
  <2> HIDE DEF a, kept, x, granted
  <2>4. ASSUME NEW E \in SUBSET (kept \cup {x}), E # {} PROVE WithinLimitOfOne(E)'
    <3>1. CASE x \in E
      <4>1. Total(E) <= Total(kept \cup {x})
        BY <2>3, TotalOfPart
      <4>2. Total(E) \in Nat /\ Total(kept \cup {x}) \in Nat
        BY <2>3, PartIsSummable, TotalType
      <4>3. call[r].perDay = 0 \/ Total(E) <= call[r].perDay
        BY <2>1, <2>2, <2>3, <4>1, <4>2
      <4> QED
        BY <1>1, <2>1, <3>1, <4>3 DEF WithinLimitOfOne
    <3>2. CASE x \notin E
      <4>1. E \in SUBSET ledger[a]
        BY <1>3, <3>2
      <4> QED
        BY <1>1, <2>4, <4>1 DEF LimitInv, WithinLimitOfOne
    <3> QED
      BY <3>1, <3>2
  <2> QED
    BY <1>1, <1>2, <1>5, <2>3, <2>4 DEF LimitInv, WithinLimitOfOne
<1> QED
  BY <1>4, <1>5

LEMMA LimitStep ==
  ASSUME TypeOK, ReservationInv, LimitInv, [Next]_vars
  PROVE  LimitInv'
<1>1. VerifyTypeOK /\ TrustTypeOK
  BY DEF TypeOK
<1>2. CASE Pass \/ Synchronise \/ (\E s \in Targets : Operate(s)) \/ UNCHANGED vars
  BY <1>2, LimitStays
     DEF Pass, Synchronise, Operate, vars, trustVars, requestVars
<1>3. ASSUME NEW r \in Requests, NEW c \in Calls, Reject(r, c) \/ Authenticate(r, c)
      PROVE  LimitInv'
  <2>1. ledger' = ledger /\ \A q \in Requests : pc[q] # "idle" => call'[q] = call[q]
    BY <1>1, <1>3 DEF Reject, Authenticate, Receive, trustVars, VerifyTypeOK
  <2> QED
    BY <2>1, LimitStays
<1>4. ASSUME NEW r \in Requests, Step(r) PROVE LimitInv'
  <2>1. call' = call
    BY <1>1, <1>4, StepMoves
  <2>2. CASE Reserve(r)
    BY <1>1, <2>2, ReserveKeepsLimit
  <2>3. CASE Release(r)
    <3>1. \A a \in Agents : ledger'[a] \subseteq ledger[a]
      BY <1>1, <2>3 DEF Release, ReleaseAmount, trustVars, TrustTypeOK
    <3> QED
      BY <2>1, <3>1, LimitStays
  <2>4. CASE ~Reserve(r) /\ ~Release(r)
    <3>1. ledger' = ledger
      BY <1>4, <2>4
         DEF Step, Attest, Depth, SpendNonceOf, Violation, Freshness, CheckAgent,
             CheckSuspended, CheckIssuer, CheckTrust, RecordFailure, Succeed,
             RecordAttestation, RecordDepth, RecordViolation, RecordIntent, trustVars
    <3> QED
      BY <2>1, <3>1, LimitStays
  <2> QED
    BY <2>2, <2>3, <2>4
<1> QED
  BY <1>2, <1>3, <1>4 DEF Next

LEMMA LimitInvariant == Spec => []LimitInv
<1>1. Init => LimitInv
  <2>1. Summable({})
    BY FS_EmptySet DEF Summable
  <2> QED
    BY <2>1 DEF Init, TrustInit, LimitInv
<1>2. TypeOK /\ ReservationInv /\ LimitInv /\ [Next]_vars => LimitInv'
  BY LimitStep
<1> QED
  BY <1>1, <1>2, VerifyTypeCorrect, ReservedInvariant, PTL DEF Spec

(* However the requests for an agent interleave, its ledger is within the  *)
(* per-day limit some entry still in it was signed with (reserve_amount).  *)
THEOREM LimitHolds == Spec => []LedgerWithinLimit
<1>1. LimitInv => LedgerWithinLimit
  BY DEF LimitInv, LedgerWithinLimit, WithinLimitOfOne
<1> QED
  BY <1>1, LimitInvariant, PTL

-----------------------------------------------------------------------------
(* The order of the steps.                                                 *)

(* The first n steps find nothing wrong with the call of r.                *)
Clean(r, n) == \A i \in 1..n : ~Fails(call[r], StepOrder[i], now[r])

RefusedInOrder(r) ==
  /\ verdict[r] \in Verdicts \ {"none", "allow"}
  /\ Clean(r, Position(StepOf(verdict[r])) - 1)

(* Where a request is says which steps it has passed.                      *)
InOrder(r) ==
  /\ pc[r] \in {"attest", "depth"} => Clean(r, 5)
  /\ pc[r] = "nonce" => Clean(r, 6)
  /\ pc[r] \in {"reserve", "violation"} => Clean(r, 7)
  /\ pc[r] \in {"freshness", "agent", "suspended", "issuer"} => Clean(r, 8)
  /\ pc[r] = "trust" => Clean(r, 12)
  /\ pc[r] = "succeed" => Clean(r, LastPosition(call[r].tier))
  /\ pc[r] \in {"release", "failure"} => RefusedInOrder(r)
  /\ pc[r] = "done" =>
       \/ verdict[r] = "allow" /\ Clean(r, LastPosition(call[r].tier))
       \/ RefusedInOrder(r)

OrderInv == \A r \in Requests : InOrder(r)

LEMMA StepsAreDistinct ==
  /\ Len(StepOrder) = 13
  /\ \A i, j \in 1..13 : StepOrder[i] = StepOrder[j] => i = j
<1>1. Len(StepOrder) = 13
  BY DEF StepOrder
<1>2. \A i \in 1..13 :
        /\ StepOrder[i] = "version" => i = 1
        /\ StepOrder[i] = "schema" => i = 2
        /\ StepOrder[i] = "expiry" => i = 3
        /\ StepOrder[i] = "clock_skew" => i = 4
        /\ StepOrder[i] = "signature" => i = 5
        /\ StepOrder[i] = "nonce_format" => i = 6
        /\ StepOrder[i] = "replay" => i = 7
  BY DEF StepOrder
<1>3. \A i \in 1..13 :
        /\ StepOrder[i] = "boundaries" => i = 8
        /\ StepOrder[i] = "revocation" => i = 9
        /\ StepOrder[i] = "asset_truth" => i = 10
        /\ StepOrder[i] = "attestation" => i = 11
        /\ StepOrder[i] = "delegation" => i = 12
        /\ StepOrder[i] = "trust" => i = 13
  BY DEF StepOrder
<1>4. \A i \in 1..13 :
        StepOrder[i] \in {"version", "schema", "expiry", "clock_skew", "signature",
                          "nonce_format", "replay", "boundaries", "revocation",
                          "asset_truth", "attestation", "delegation", "trust"}
  BY DEF StepOrder
<1> QED
  BY <1>1, <1>2, <1>3, <1>4

LEMMA PositionOfStep ==
  ASSUME NEW k \in 1..13
  PROVE  Position(StepOrder[k]) = k
<1>1. \E i \in 1..Len(StepOrder) : StepOrder[i] = StepOrder[k]
  BY StepsAreDistinct
<1>2. /\ Position(StepOrder[k]) \in 1..13
      /\ StepOrder[Position(StepOrder[k])] = StepOrder[k]
  BY <1>1, StepsAreDistinct DEF Position
<1> QED
  BY <1>2, StepsAreDistinct

LEMMA StepNames ==
  /\ StepOrder[1] = "version" /\ StepOrder[2] = "schema" /\ StepOrder[3] = "expiry"
  /\ StepOrder[4] = "clock_skew" /\ StepOrder[5] = "signature"
  /\ StepOrder[6] = "nonce_format" /\ StepOrder[7] = "replay"
  /\ StepOrder[8] = "boundaries" /\ StepOrder[9] = "revocation"
  /\ StepOrder[10] = "asset_truth" /\ StepOrder[11] = "attestation"
  /\ StepOrder[12] = "delegation" /\ StepOrder[13] = "trust"
  BY DEF StepOrder

LEMMA Positions ==
  /\ Position("nonce_format") = 6 /\ Position("replay") = 7
  /\ Position("boundaries") = 8 /\ Position("revocation") = 9
  /\ Position("asset_truth") = 10 /\ Position("attestation") = 11
  /\ Position("delegation") = 12 /\ Position("trust") = 13
  /\ \A i \in 1..5 : EarlySteps[i] = StepOrder[i] /\ Position(EarlySteps[i]) = i
<1>1. \A i \in 1..5 : EarlySteps[i] = StepOrder[i]
  BY DEF EarlySteps, StepOrder
<1> QED
  BY <1>1, StepNames, PositionOfStep

LEMMA LastPositions ==
  LastPosition(0) = 9 /\ LastPosition(1) = 11 /\ LastPosition(2) = 13
<1>1. LastPosition(0) = Position("revocation")
  BY DEF LastPosition
<1>2. LastPosition(1) = Position("attestation")
  BY DEF LastPosition
<1>3. LastPosition(2) = Position("trust")
  BY DEF LastPosition
<1> QED
  BY <1>1, <1>2, <1>3, Positions

(* What has no flaw of its own is checked against shared state.            *)
LEMMA SharedStepsNeverFail ==
  ASSUME VerifyTypeOK, NEW r \in Requests
  PROVE  /\ ~Fails(call[r], "replay", now[r])
         /\ ~Fails(call[r], "revocation", now[r])
         /\ ~Fails(call[r], "trust", now[r])
<1>1. call[r].flaws \subseteq StaticSteps
  BY CallFields, VerifyAssumption DEF Call
<1> QED
  BY <1>1 DEF Fails, StaticSteps

LEMMA CleanOneMore ==
  ASSUME NEW r \in Requests, NEW n \in Nat, Clean(r, n),
         ~Fails(call[r], StepOrder[n + 1], now[r])
  PROVE  Clean(r, n + 1)
  BY DEF Clean

LEMMA CleanStays ==
  ASSUME NEW r \in Requests, call'[r] = call[r], now'[r] = now[r]
  PROVE  /\ \A n \in Int : Clean(r, n)' <=> Clean(r, n)
         /\ LastPosition(call'[r].tier) = LastPosition(call[r].tier)
  BY DEF Clean

LEMMA RefusesInOrder ==
  ASSUME VerifyTypeOK, NEW r \in Requests, call'[r] = call[r], now'[r] = now[r],
         NEW v \in Verdicts \ {"none", "allow"}, FailAuthenticated(r, v),
         Position(StepOf(v)) \in Int, Clean(r, Position(StepOf(v)) - 1)
  PROVE  InOrder(r)'
<1>1. pc'[r] = "release" /\ verdict'[r] = v
  BY DEF VerifyTypeOK, FailAuthenticated, Goto, Refuse
<1>2. RefusedInOrder(r)'
  BY <1>1, CleanStays DEF RefusedInOrder
<1> QED
  BY <1>1, <1>2 DEF InOrder

(* The market's steps, from the eight before.                              *)
LEMMA MarketInOrder ==
  ASSUME VerifyTypeOK, NEW r \in Requests, UNCHANGED <<call, now>>,
         MeetsMarket(r), Clean(r, 8)
  PROVE  InOrder(r)'
<1>0. call[r].tier \in {0, 1, 2} /\ call'[r] = call[r] /\ now'[r] = now[r]
  BY CallFields
<1>1. Clean(r, 9)
  BY CleanOneMore, SharedStepsNeverFail, StepNames
<1> DEFINE steps == LateSteps(call[r])
<1>2. \A i \in 1..Len(steps) :
        /\ steps[i] = StepOrder[9 + i] /\ Position(StepOf(steps[i])) = 9 + i
        /\ steps[i] \in Verdicts \ {"none", "allow"}
  <2>1. CASE call[r].tier = 0
    BY <2>1 DEF LateSteps
  <2>2. CASE call[r].tier = 1
    <3>1. Len(steps) = 2 /\ steps[1] = "asset_truth" /\ steps[2] = "attestation"
      BY <2>2 DEF LateSteps
    <3> HIDE DEF steps
    <3>2. \A i \in 1..Len(steps) : i = 1 \/ i = 2
      BY <3>1
    <3> QED
      BY <3>1, <3>2, StepNames, Positions
         DEF StepOf, RevocationVerdicts, Verdicts, StaticSteps
  <2>3. CASE call[r].tier = 2
    <3>1. /\ Len(steps) = 3 /\ steps[1] = "asset_truth" /\ steps[2] = "attestation"
          /\ steps[3] = "delegation"
      BY <2>3 DEF LateSteps
    <3> HIDE DEF steps
    <3>2. \A i \in 1..Len(steps) : i = 1 \/ i = 2 \/ i = 3
      BY <3>1
    <3> QED
      BY <3>1, <3>2, StepNames, Positions
         DEF StepOf, RevocationVerdicts, Verdicts, StaticSteps
  <2> QED
    BY <1>0, <2>1, <2>2, <2>3
<1>3. Len(steps) \in Nat
  BY <1>0 DEF LateSteps
<1>4. ASSUME NEW i \in 1..Len(steps), StopsAt(steps, call[r], now[r], i),
             FailAuthenticated(r, steps[i])
      PROVE  InOrder(r)'
  <2>1. \A k \in 1..(8 + i) : ~Fails(call[r], StepOrder[k], now[r])
    <3> TAKE k \in 1..(8 + i)
    <3>1. CASE k \in 1..9
      BY <1>1, <3>1 DEF Clean
    <3>2. CASE k > 9
      <4>1. k - 9 \in 1..(i - 1) /\ k - 9 \in 1..Len(steps) /\ 9 + (k - 9) = k
        BY <1>3, <1>4, <3>2
      <4>2. steps[k - 9] = StepOrder[k]
        BY <1>2, <4>1
      <4> QED
        BY <1>4, <4>1, <4>2 DEF StopsAt
    <3> QED
      BY <3>1, <3>2
  <2>2. Clean(r, Position(StepOf(steps[i])) - 1)
    BY <1>2, <1>3, <2>1 DEF Clean
  <2> QED
    BY <1>0, <1>2, <1>3, <1>4, <2>2, RefusesInOrder
<1>5. ASSUME PassesAll(steps, call[r], now[r]) PROVE Clean(r, 9 + Len(steps))
  <2> SUFFICES ASSUME NEW k \in 1..(9 + Len(steps))
               PROVE  ~Fails(call[r], StepOrder[k], now[r])
    BY DEF Clean
  <2>1. CASE k \in 1..9
    BY <1>1, <2>1 DEF Clean
  <2>2. CASE k > 9
    <3>1. k - 9 \in 1..Len(steps) /\ 9 + (k - 9) = k
      BY <1>3, <2>2
    <3>2. steps[k - 9] = StepOrder[k]
      BY <1>2, <3>1
    <3> QED
      BY <1>5, <3>1, <3>2 DEF PassesAll
  <2> QED
    BY <2>1, <2>2
<1>6. ASSUME PassesAll(steps, call[r], now[r]),
             Goto(r, IF call[r].tier = 2 /\ MinTrust > 0 THEN "trust" ELSE "succeed")
      PROVE  InOrder(r)'
  <2>1. pc'[r] = IF call[r].tier = 2 /\ MinTrust > 0 THEN "trust" ELSE "succeed"
    BY <1>6 DEF Goto, VerifyTypeOK
  <2>2. CASE call[r].tier = 0
    <3>1. Len(steps) = 0
      BY <2>2 DEF LateSteps
    <3> QED
      BY <1>0, <1>1, <2>1, <2>2, CleanStays, LastPositions DEF InOrder
  <2>3. CASE call[r].tier = 1
    <3>1. Len(steps) = 2
      BY <2>3 DEF LateSteps
    <3>2. Clean(r, 11)
      BY <1>5, <1>6, <3>1
    <3> QED
      BY <1>0, <2>1, <2>3, <3>2, CleanStays, LastPositions DEF InOrder
  <2>4. CASE call[r].tier = 2
    <3>1. Len(steps) = 3
      BY <2>4 DEF LateSteps
    <3>2. Clean(r, 12)
      BY <1>5, <1>6, <3>1
    <3>3. Clean(r, 13)
      BY <3>2, CleanOneMore, SharedStepsNeverFail, StepNames
    <3> QED
      BY <1>0, <2>1, <2>4, <3>2, <3>3, CleanStays, LastPositions DEF InOrder
  <2> QED
    BY <1>0, <2>2, <2>3, <2>4
<1> QED
  BY <1>4, <1>6 DEF MeetsMarket

LEMMA StepInOrder ==
  ASSUME VerifyTypeOK, NEW r \in Requests, InOrder(r), Step(r)
  PROVE  InOrder(r)'
<1>0. UNCHANGED <<call, now>> /\ call'[r] = call[r] /\ now'[r] = now[r]
  BY StepMoves
<1>1. ASSUME NEW to, Goto(r, to) PROVE pc'[r] = to
  BY <1>1 DEF Goto, VerifyTypeOK
<1>2. CASE Attest(r)
  <2>1. pc'[r] = "depth" /\ Clean(r, 5)
    BY <1>1, <1>2 DEF Attest, InOrder
  <2> QED
    BY <1>0, <2>1, CleanStays DEF InOrder
<1>3. CASE Depth(r)
  <2>1. Clean(r, 5)
    BY <1>3 DEF Depth, InOrder
  <2>2. CASE FailAuthenticated(r, "nonce_format")
    BY <1>0, <2>1, <2>2, RefusesInOrder, Positions
       DEF Verdicts, StaticSteps, StepOf, RevocationVerdicts
  <2>3. CASE "nonce_format" \notin call[r].flaws /\ Goto(r, "nonce")
    <3>1. Clean(r, 6)
      BY <2>1, <2>3, CleanOneMore, StepNames DEF Fails
    <3> QED
      BY <1>0, <1>1, <2>3, <3>1, CleanStays DEF InOrder
  <2> QED
    BY <1>3, <2>2, <2>3 DEF Depth
<1>4. CASE SpendNonceOf(r)
  <2>1. Clean(r, 6)
    BY <1>4 DEF SpendNonceOf, InOrder
  <2>2. CASE FailAuthenticated(r, "replay")
    BY <1>0, <2>1, <2>2, RefusesInOrder, Positions
       DEF Verdicts, StaticSteps, StepOf, RevocationVerdicts
  <2>3. CASE Goto(r, "reserve")
    <3>1. Clean(r, 7)
      BY <2>1, CleanOneMore, SharedStepsNeverFail, StepNames
    <3> QED
      BY <1>0, <1>1, <2>3, <3>1, CleanStays DEF InOrder
  <2> QED
    BY <1>4, <2>2, <2>3 DEF SpendNonceOf
<1>5. CASE Reserve(r)
  <2>1. Clean(r, 7)
    BY <1>5 DEF Reserve, InOrder
  <2>2. CASE WithinBoundaries(r)
    <3>1. Clean(r, 8)
      BY <2>1, <2>2, CleanOneMore, StepNames DEF WithinBoundaries, Fails
    <3>2. pc'[r] = "freshness"
      BY <1>1, <1>5, <2>2 DEF Reserve
    <3> QED
      BY <1>0, <3>1, <3>2, CleanStays DEF InOrder
  <2>3. CASE ~WithinBoundaries(r)
    <3>1. pc'[r] = "violation"
      BY <1>1, <1>5, <2>3 DEF Reserve
    <3> QED
      BY <1>0, <2>1, <3>1, CleanStays DEF InOrder
  <2> QED
    BY <2>2, <2>3
<1>6. CASE Violation(r)
  <2>1. Clean(r, 7) /\ FailAuthenticated(r, "boundaries")
    BY <1>6 DEF Violation, InOrder
  <2> QED
    BY <1>0, <2>1, RefusesInOrder, Positions
       DEF Verdicts, StaticSteps, StepOf, RevocationVerdicts
<1>7. ASSUME NEW v \in RevocationVerdicts, FailAuthenticated(r, v), Clean(r, 8)
      PROVE  InOrder(r)'
  <2>1. v \in Verdicts \ {"none", "allow"} /\ Position(StepOf(v)) = 9
    BY Positions DEF Verdicts, StepOf, RevocationVerdicts
  <2> QED
    BY <1>0, <1>7, <2>1, RefusesInOrder
<1>8. CASE Freshness(r)
  <2>1. Clean(r, 8)
    BY <1>8 DEF Freshness, InOrder
  <2>2. CASE FailAuthenticated(r, "stale")
    BY <1>7, <2>1, <2>2 DEF RevocationVerdicts
  <2>3. CASE Goto(r, "agent")
    BY <1>0, <1>1, <2>1, <2>3, CleanStays DEF InOrder
  <2> QED
    BY <1>8, <2>2, <2>3 DEF Freshness
<1>9. CASE CheckAgent(r)
  <2>1. Clean(r, 8)
    BY <1>9 DEF CheckAgent, InOrder
  <2>2. CASE MeetsMarket(r)
    BY <1>0, <2>1, <2>2, MarketInOrder
  <2>3. ASSUME NEW to \in {"suspended", "issuer"}, Goto(r, to) PROVE InOrder(r)'
    BY <1>0, <1>1, <2>1, <2>3, CleanStays DEF InOrder
  <2> QED
    BY <1>9, <2>2, <2>3 DEF CheckAgent
<1>10. CASE CheckSuspended(r)
  <2>1. Clean(r, 8) /\ \E v \in RevocationVerdicts : FailAuthenticated(r, v)
    BY <1>10 DEF CheckSuspended, InOrder, RevocationVerdicts
  <2> QED
    BY <1>7, <2>1
<1>11. CASE CheckIssuer(r)
  <2>1. Clean(r, 8)
    BY <1>11 DEF CheckIssuer, InOrder
  <2>2. CASE MeetsMarket(r)
    BY <1>0, <2>1, <2>2, MarketInOrder
  <2>3. CASE FailAuthenticated(r, "issuer")
    BY <1>7, <2>1, <2>3 DEF RevocationVerdicts
  <2> QED
    BY <1>11, <2>2, <2>3 DEF CheckIssuer
<1>12. CASE CheckTrust(r)
  <2>1. Clean(r, 12)
    BY <1>12 DEF CheckTrust, InOrder
  <2>2. CASE FailAuthenticated(r, "trust")
    BY <1>0, <2>1, <2>2, RefusesInOrder, Positions
       DEF Verdicts, StepOf, RevocationVerdicts
  <2>3. CASE Goto(r, "succeed")
    <3>1. Clean(r, 13)
      BY <2>1, CleanOneMore, SharedStepsNeverFail, StepNames
    <3>2. Clean(r, LastPosition(call[r].tier))
      <4>1. call[r].tier \in {0, 1, 2}
        BY CallFields
      <4> QED
        BY <3>1, <4>1, LastPositions DEF Clean
    <3> QED
      BY <1>0, <1>1, <2>3, <3>2, CleanStays DEF InOrder, Clean
  <2> QED
    BY <1>12, <2>2, <2>3 DEF CheckTrust
<1>13. CASE Release(r) \/ RecordFailure(r)
  <2>1. /\ pc'[r] \in {"failure", "done"} /\ RefusedInOrder(r)
        /\ verdict'[r] = verdict[r]
    BY <1>1, <1>13 DEF Release, RecordFailure, InOrder
  <2>2. RefusedInOrder(r)'
    BY <1>0, <2>1 DEF RefusedInOrder, Clean
  <2> QED
    BY <2>1, <2>2 DEF InOrder
<1>14. CASE Succeed(r)
  <2>1. /\ pc'[r] = "done" /\ verdict'[r] = "allow"
        /\ Clean(r, LastPosition(call[r].tier))
    BY <1>1, <1>14 DEF Succeed, InOrder, VerifyTypeOK
  <2> QED
    BY <1>0, <2>1 DEF InOrder, Clean
<1> QED
  BY <1>2, <1>3, <1>4, <1>5, <1>6, <1>8, <1>9, <1>10, <1>11, <1>12, <1>13, <1>14
     DEF Step

LEMMA ReceiveInOrder ==
  ASSUME VerifyTypeOK, NEW r \in Requests, NEW c \in Calls,
         Reject(r, c) \/ Authenticate(r, c)
  PROVE  InOrder(r)'
<1>1. call'[r] = c /\ now'[r] = clock
  BY DEF Reject, Authenticate, Receive, VerifyTypeOK
<1>2. Len(EarlySteps) = 5
  BY DEF EarlySteps
<1>3. CASE Reject(r, c)
  <2>1. PICK i \in 1..5 : StopsAt(EarlySteps, c, clock, i) /\ Refuse(r, EarlySteps[i])
    BY <1>2, <1>3 DEF Reject
  <2>2. pc'[r] = "done" /\ verdict'[r] = EarlySteps[i]
    BY <1>3, <2>1 DEF Reject, Receive, Goto, Refuse, VerifyTypeOK
  <2>3. EarlySteps[i] \in Verdicts \ {"none", "allow"}
        /\ EarlySteps[i] \notin RevocationVerdicts
    BY DEF EarlySteps, Verdicts, StaticSteps, RevocationVerdicts
  <2>4. Position(StepOf(EarlySteps[i])) = i
    BY <2>3, Positions DEF StepOf
  <2>5. \A j \in 1..(i - 1) : ~Fails(c, StepOrder[j], clock)
    BY <2>1, Positions DEF StopsAt
  <2>6. RefusedInOrder(r)'
    BY <1>1, <2>2, <2>3, <2>4, <2>5 DEF RefusedInOrder, Clean
  <2> QED
    BY <2>2, <2>6 DEF InOrder
<1>4. CASE Authenticate(r, c)
  <2>1. pc'[r] = "attest"
    BY <1>4 DEF Authenticate, Receive, Goto, VerifyTypeOK
  <2>2. \A j \in 1..5 : ~Fails(c, StepOrder[j], clock)
    BY <1>2, <1>4, Positions DEF Authenticate, PassesAll
  <2> QED
    BY <1>1, <2>1, <2>2 DEF InOrder, Clean
<1> QED
  BY <1>3, <1>4

LEMMA OrderStep ==
  ASSUME TypeOK, OrderInv, [Next]_vars
  PROVE  OrderInv'
<1>0. VerifyTypeOK
  BY DEF TypeOK
<1>1. ASSUME NEW q \in Requests, pc'[q] = pc[q], verdict'[q] = verdict[q],
             call'[q] = call[q], now'[q] = now[q]
      PROVE  InOrder(q)'
  <2>1. InOrder(q)
    BY DEF OrderInv
  <2> QED
    BY <1>1, <2>1 DEF InOrder, RefusedInOrder, Clean
<1>2. CASE UNCHANGED requestVars
  BY <1>1, <1>2 DEF requestVars, OrderInv
<1>3. ASSUME NEW r \in Requests, NEW c \in Calls, Reject(r, c) \/ Authenticate(r, c)
      PROVE  OrderInv'
  <2>1. \A q \in Requests : q # r =>
          /\ pc'[q] = pc[q] /\ verdict'[q] = verdict[q]
          /\ call'[q] = call[q] /\ now'[q] = now[q]
    BY <1>0, <1>3 DEF Reject, Authenticate, Receive, Goto, Refuse, VerifyTypeOK
  <2> QED
    BY <1>0, <1>1, <1>3, <2>1, ReceiveInOrder DEF OrderInv
<1>4. ASSUME NEW r \in Requests, Step(r) PROVE OrderInv'
  <2>1. \A q \in Requests : q # r =>
          /\ pc'[q] = pc[q] /\ verdict'[q] = verdict[q]
          /\ call'[q] = call[q] /\ now'[q] = now[q]
    BY <1>0, <1>4, OthersStay, StepMoves
  <2> QED
    BY <1>0, <1>1, <1>4, <2>1, StepInOrder DEF OrderInv
<1> QED
  BY <1>2, <1>3, <1>4 DEF Next, vars, Pass, Synchronise, Operate

(* The code reported names the most fundamental problem, and none that the *)
(* tier asks about is passed over, for any envelopes, tiers and            *)
(* interleavings (verify_intent, the order of _STEPS).                     *)
THEOREM MostFundamental == Spec => []MostFundamentalReported
<1>1. Init => OrderInv
  BY DEF Init, OrderInv, InOrder
<1>2. TypeOK /\ OrderInv => MostFundamentalReported
  <2> SUFFICES ASSUME VerifyTypeOK, OrderInv, NEW r \in Requests, Done(r),
                      NEW i \in 1..Len(StepOrder), Fails(call[r], StepOrder[i], now[r])
               PROVE  IF Allowed(r) THEN i > LastPosition(call[r].tier)
                      ELSE i >= Position(StepOf(verdict[r]))
    BY DEF MostFundamentalReported, TypeOK
  <2>1. \A n \in Int : Clean(r, n) => i > n
    BY StepsAreDistinct DEF Clean
  <2>2. LastPosition(call[r].tier) \in Int
    BY LastPositions, CallFields
  <2>3. ASSUME RefusedInOrder(r) PROVE ~Allowed(r) /\ Position(StepOf(verdict[r])) \in Int
    <3>1. verdict[r] \in Verdicts \ {"none", "allow"}
      BY <2>3 DEF RefusedInOrder
    <3>2. \E k \in 1..13 : StepOf(verdict[r]) = StepOrder[k]
      BY <3>1, StepNames DEF Verdicts, StaticSteps, RevocationVerdicts, StepOf
    <3>3. PICK k \in 1..13 : StepOf(verdict[r]) = StepOrder[k]
      BY <3>2
    <3>4. Position(StepOf(verdict[r])) = k /\ k \in Int
      BY <3>3, PositionOfStep
    <3>5. ~Allowed(r)
      BY <3>1 DEF Allowed
    <3> QED
      BY <3>4, <3>5
  <2>4. \/ Allowed(r) /\ Clean(r, LastPosition(call[r].tier))
        \/ RefusedInOrder(r)
    BY DEF OrderInv, InOrder, Done, Allowed
  <2>5. CASE RefusedInOrder(r)
    BY <2>1, <2>3, <2>5, StepsAreDistinct DEF RefusedInOrder
  <2> QED
    BY <2>1, <2>2, <2>4, <2>5
<1> QED
  BY <1>1, <1>2, OrderStep, VerifyTypeCorrect, PTL DEF Spec

-----------------------------------------------------------------------------
(* The counters of the history.                                            *)

Early == {"version", "schema", "expiry", "clock_skew", "signature"}

Ended(a) == {r \in Requests : Authenticated(r) /\ call[r].agent = a}
Granted(a) == {r \in Requests : Allowed(r) /\ call[r].agent = a}
Violating(a) == {r \in Requests : verdict[r] = "boundaries" /\ call[r].agent = a}

(* A verdict is reached once, on the way out; none of the early ones is    *)
(* reached by who was authenticated.                                       *)
VerdictInv == \A r \in Requests :
  /\ pc[r] \notin {"release", "failure", "done"} => verdict[r] = "none"
  /\ pc[r] \in {"release", "failure"} => verdict[r] \notin Early \cup {"none", "allow"}
  /\ pc[r] = "done" => verdict[r] # "none"

(* Every counter is the number of the requests it is to count, always: a   *)
(* violation from when it is found, the others from the answer on.         *)
CountInv == \A a \in Agents :
  /\ IsFiniteSet(Ended(a)) /\ history[a].total = Cardinality(Ended(a))
  /\ IsFiniteSet(Granted(a)) /\ history[a].successful = Cardinality(Granted(a))
  /\ IsFiniteSet(Violating(a)) /\ history[a].violations = Cardinality(Violating(a))

LEMMA EarlyVerdicts ==
  ASSUME NEW v
  PROVE  (\E i \in 1..Len(EarlySteps) : v = EarlySteps[i]) <=> v \in Early
<1>1. Len(EarlySteps) = 5
  BY DEF EarlySteps
<1>2. /\ EarlySteps[1] = "version" /\ EarlySteps[2] = "schema"
      /\ EarlySteps[3] = "expiry" /\ EarlySteps[4] = "clock_skew"
      /\ EarlySteps[5] = "signature"
  BY DEF EarlySteps
<1>3. 1..5 = {1, 2, 3, 4, 5}
  OBVIOUS
<1> QED
  BY <1>1, <1>2, <1>3 DEF Early

LEMMA OneMore ==
  ASSUME NEW S, IsFiniteSet(S), NEW x, x \notin S
  PROVE  /\ IsFiniteSet(S \cup {x})
         /\ Cardinality(S \cup {x}) = Cardinality(S) + 1
<1>1. /\ IsFiniteSet(S \cup {x})
      /\ Cardinality(S \cup {x}) = IF x \in S THEN Cardinality(S) ELSE Cardinality(S) + 1
  BY FS_AddElement
<1> QED
  BY <1>1

(* A step of r that changes neither what r counts for nor a counter.       *)
LEMMA CountsStay ==
  ASSUME CountInv, NEW r \in Requests,
         \A q \in Requests : q # r =>
           pc'[q] = pc[q] /\ verdict'[q] = verdict[q] /\ call'[q] = call[q],
         ~Authenticated(r), ~Authenticated(r)',
         verdict'[r] = "boundaries" <=> verdict[r] = "boundaries",
         verdict[r] = "boundaries" => call'[r] = call[r],
         ~Allowed(r), ~Allowed(r)',
         \A a \in Agents :
           /\ history'[a].total = history[a].total
           /\ history'[a].successful = history[a].successful
           /\ history'[a].violations = history[a].violations
  PROVE  CountInv'
<1>1. \A a : Ended(a)' = Ended(a)
  <2>1. \A q \in Requests : q # r => (Authenticated(q)' <=> Authenticated(q))
    BY DEF Authenticated, Done
  <2> QED
    BY <2>1 DEF Ended
<1>2. \A a : Granted(a)' = Granted(a)
  <2>1. \A q \in Requests : q # r => (Allowed(q)' <=> Allowed(q))
    BY DEF Allowed, Done
  <2> QED
    BY <2>1 DEF Granted
<1>3. \A a : Violating(a)' = Violating(a)
  BY DEF Violating
<1> QED
  BY <1>1, <1>2, <1>3 DEF CountInv

(* What a step of r that ends it adds.                                     *)
LEMMA CountsEnd ==
  ASSUME CountInv, VerifyTypeOK, TrustTypeOK, NEW r \in Requests, NEW success \in BOOLEAN,
         \A q \in Requests : q # r =>
           pc'[q] = pc[q] /\ verdict'[q] = verdict[q] /\ call'[q] = call[q],
         UNCHANGED call, pc[r] # "done", pc'[r] = "done", verdict'[r] \notin Early,
         success <=> verdict'[r] = "allow",
         verdict'[r] = "boundaries" <=> verdict[r] = "boundaries",
         RecordIntent(call[r].agent, success)
  PROVE  CountInv'
<1> DEFINE b == call[r].agent
<1>0. b \in Agents
  BY CallFields
<1>1. \A a \in Agents :
        /\ history'[a].total = history[a].total + (IF a = b THEN 1 ELSE 0)
        /\ history'[a].successful =
             history[a].successful + (IF a = b /\ success THEN 1 ELSE 0)
        /\ history'[a].violations = history[a].violations
  <2>1. history \in [Agents -> History]
    BY DEF TrustTypeOK
  <2>2. \A a \in Agents : history[a].total \in Nat /\ history[a].successful \in Nat
    BY <2>1 DEF History
  <2> HIDE DEF b
  <2>3. history' = [history EXCEPT ![b].total = @ + 1,
                      ![b].successful = IF success THEN @ + 1 ELSE @]
    BY DEF RecordIntent, b
  <2> QED
    BY <1>0, <2>1, <2>2, <2>3 DEF History
<1>2. \A q \in Requests : q # r => (Authenticated(q)' <=> Authenticated(q))
  BY DEF Authenticated, Done
<1>3. ~Authenticated(r) /\ ~Allowed(r) /\ (Allowed(r)' <=> success)
  BY DEF Authenticated, Allowed, Done
<1>4. Authenticated(r)'
  BY EarlyVerdicts DEF Authenticated, Done
<1>5. \A q \in Requests : q # r => (Allowed(q)' <=> Allowed(q))
  BY DEF Allowed, Done
<1>6. ASSUME NEW a \in Agents
      PROVE  Ended(a)' = IF a = b THEN Ended(a) \cup {r} ELSE Ended(a)
  BY <1>2, <1>3, <1>4 DEF Ended
<1>7. ASSUME NEW a \in Agents
      PROVE  Granted(a)' = IF a = b /\ success THEN Granted(a) \cup {r} ELSE Granted(a)
  BY <1>3, <1>5 DEF Granted
<1>8. ASSUME NEW a \in Agents PROVE Violating(a)' = Violating(a)
  BY DEF Violating
<1>9. \A a \in Agents : r \notin Ended(a) /\ r \notin Granted(a)
  BY <1>3 DEF Ended, Granted
<1> HIDE DEF b
<1>10. ASSUME NEW a \in Agents
       PROVE  IsFiniteSet(Ended(a)') /\ history'[a].total = Cardinality(Ended(a)')
  <2>1. CASE a = b
    <3>1. /\ IsFiniteSet(Ended(a) \cup {r})
          /\ Cardinality(Ended(a) \cup {r}) = Cardinality(Ended(a)) + 1
      BY <1>9, OneMore DEF CountInv
    <3> QED
      BY <1>1, <1>6, <2>1, <3>1 DEF CountInv
  <2>2. CASE a # b
    <3>1. history[a].total \in Nat
      BY DEF TrustTypeOK, History
    <3> QED
      BY <1>1, <1>6, <2>2, <3>1 DEF CountInv
  <2> QED
    BY <2>1, <2>2
<1>11. ASSUME NEW a \in Agents
       PROVE  IsFiniteSet(Granted(a)') /\ history'[a].successful = Cardinality(Granted(a)')
  <2>1. CASE a = b /\ success
    <3>1. /\ IsFiniteSet(Granted(a) \cup {r})
          /\ Cardinality(Granted(a) \cup {r}) = Cardinality(Granted(a)) + 1
      BY <1>9, OneMore DEF CountInv
    <3> QED
      BY <1>1, <1>7, <2>1, <3>1 DEF CountInv
  <2>2. CASE ~(a = b /\ success)
    <3>1. history[a].successful \in Nat
      BY DEF TrustTypeOK, History
    <3> QED
      BY <1>1, <1>7, <2>2, <3>1 DEF CountInv
  <2> QED
    BY <2>1, <2>2
<1> QED
  BY <1>1, <1>8, <1>10, <1>11 DEF CountInv

LEMMA ViolationCounts ==
  ASSUME CountInv, VerdictInv, VerifyTypeOK, TrustTypeOK, NEW r \in Requests, Violation(r)
  PROVE  CountInv'
<1> DEFINE b == call[r].agent
<1>0. /\ b \in Agents /\ UNCHANGED call
      /\ pc[r] = "violation" /\ verdict[r] = "none"
      /\ pc'[r] = "release" /\ verdict'[r] = "boundaries"
      /\ \A q \in Requests : q # r =>
           pc'[q] = pc[q] /\ verdict'[q] = verdict[q] /\ call'[q] = call[q]
  BY CallFields DEF Violation, FailAuthenticated, Goto, Refuse, VerifyTypeOK, VerdictInv
<1>1. \A a \in Agents :
        /\ history'[a].total = history[a].total
        /\ history'[a].successful = history[a].successful
        /\ history'[a].violations = history[a].violations + (IF a = b THEN 1 ELSE 0)
  <2>1. history \in [Agents -> History]
    BY DEF TrustTypeOK
  <2>2. \A a \in Agents : history[a].violations \in Nat
    BY <2>1 DEF History
  <2>3. history' = [history EXCEPT ![b].violations = @ + 1]
    BY DEF Violation, RecordViolation
  <2> HIDE DEF b
  <2> QED
    BY <1>0, <2>1, <2>2, <2>3 DEF History
<1>2. \A a : Ended(a)' = Ended(a)
  <2>1. \A q \in Requests : Authenticated(q)' <=> Authenticated(q)
    BY <1>0 DEF Authenticated, Done
  <2> QED
    BY <1>0, <2>1 DEF Ended
<1>3. \A a : Granted(a)' = Granted(a)
  <2>1. \A q \in Requests : Allowed(q)' <=> Allowed(q)
    BY <1>0 DEF Allowed, Done
  <2> QED
    BY <1>0, <2>1 DEF Granted
<1>4. ASSUME NEW a \in Agents
      PROVE  Violating(a)' = IF a = b THEN Violating(a) \cup {r} ELSE Violating(a)
  BY <1>0 DEF Violating
<1>5. \A a \in Agents : r \notin Violating(a)
  BY <1>0 DEF Violating
<1> HIDE DEF b
<1>6. ASSUME NEW a \in Agents
      PROVE  IsFiniteSet(Violating(a)') /\ history'[a].violations = Cardinality(Violating(a)')
  <2>1. CASE a = b
    <3>1. /\ IsFiniteSet(Violating(a) \cup {r})
          /\ Cardinality(Violating(a) \cup {r}) = Cardinality(Violating(a)) + 1
      BY <1>5, OneMore DEF CountInv
    <3> QED
      BY <1>1, <1>4, <2>1, <3>1 DEF CountInv
  <2>2. CASE a # b
    <3>1. history[a].violations \in Nat
      BY DEF TrustTypeOK, History
    <3> QED
      BY <1>1, <1>4, <2>2, <3>1 DEF CountInv
  <2> QED
    BY <2>1, <2>2
<1> QED
  BY <1>1, <1>2, <1>3, <1>6 DEF CountInv

(* What the other methods of the engine leave of the history.              *)
LEMMA AttestationKeepsCounters ==
  ASSUME TrustTypeOK, NEW b \in Agents, NEW x, NEW y, RecordAttestation(b, x, y)
  PROVE  \A a \in Agents :
           /\ history'[a].total = history[a].total
           /\ history'[a].successful = history[a].successful
           /\ history'[a].violations = history[a].violations
<1> DEFINE n == history[b].changes + Changed(history[b].build, x)
                                  + Changed(history[b].prompt, y)
           f == Latest(history[b].build, x)
           g == Latest(history[b].prompt, y)
           h == [history[b] EXCEPT !.changes = n, !.build = f, !.prompt = g]
<1>1. history \in [Agents -> History]
  BY DEF TrustTypeOK
<1>2. history' = [history EXCEPT ![b] = h]
  BY <1>1 DEF RecordAttestation, History
<1>3. history[b] \in History
  BY <1>1
<1> HIDE DEF n, f, g
<1>4. /\ h.total = history[b].total /\ h.successful = history[b].successful
      /\ h.violations = history[b].violations
  BY <1>3 DEF History
<1> HIDE DEF h
<1> QED
  BY <1>1, <1>2, <1>4

LEMMA DepthKeepsCounters ==
  ASSUME TrustTypeOK, NEW b \in Agents, NEW d, RecordDepth(b, d)
  PROVE  \A a \in Agents :
           /\ history'[a].total = history[a].total
           /\ history'[a].successful = history[a].successful
           /\ history'[a].violations = history[a].violations
  BY DEF TrustTypeOK, RecordDepth, History

LEMMA MarketRefuses ==
  ASSUME VerifyTypeOK, NEW r \in Requests, MeetsMarket(r)
  PROVE  \/ \E v \in {"asset_truth", "attestation", "delegation"} : FailAuthenticated(r, v)
         \/ \E to \in {"trust", "succeed"} : Goto(r, to) /\ UNCHANGED verdict
<1> DEFINE steps == LateSteps(call[r])
<1>1. \A i \in 1..Len(steps) : steps[i] \in {"asset_truth", "attestation", "delegation"}
  <2>1. call[r].tier \in {0, 1, 2}
    BY CallFields
  <2>2. CASE call[r].tier = 0
    BY <2>2 DEF LateSteps
  <2>3. CASE call[r].tier = 1
    BY <2>3 DEF LateSteps
  <2>4. CASE call[r].tier = 2
    BY <2>4 DEF LateSteps
  <2> QED
    BY <2>1, <2>2, <2>3, <2>4
<1> QED
  BY <1>1 DEF MeetsMarket

Leaving == {"release", "failure", "done"}

Refusal(v) == v \notin Early \cup {"none", "allow", "boundaries"}

(* A step that records nothing moves on, or refuses with a verdict of its  *)
(* own, or is on its way out already.                                      *)
LEMMA SilentStep ==
  ASSUME VerifyTypeOK, NEW r \in Requests, Step(r),
         ~Violation(r), ~RecordFailure(r), ~Succeed(r)
  PROVE  \/ /\ pc[r] \notin Leaving
            /\ \/ \E to : to \notin Leaving /\ Goto(r, to) /\ UNCHANGED verdict
               \/ \E v : Refusal(v) /\ FailAuthenticated(r, v)
         \/ pc[r] = "release" /\ Goto(r, "failure") /\ UNCHANGED verdict
<1> DEFINE Moves == \/ \E to : to \notin Leaving /\ Goto(r, to) /\ UNCHANGED verdict
                    \/ \E v : Refusal(v) /\ FailAuthenticated(r, v)
<1>1. ASSUME MeetsMarket(r) PROVE Moves
  <2>1. CASE \E to \in {"trust", "succeed"} : Goto(r, to) /\ UNCHANGED verdict
    BY <2>1 DEF Leaving
  <2>2. CASE \E v \in {"asset_truth", "attestation", "delegation"} : FailAuthenticated(r, v)
    BY <2>2 DEF Refusal, Early
  <2> QED
    BY <1>1, <2>1, <2>2, MarketRefuses
<1>2. CASE Attest(r)
  BY <1>2 DEF Attest, Leaving
<1>3. CASE Depth(r)
  BY <1>3 DEF Depth, Leaving, Refusal, Early
<1>4. CASE SpendNonceOf(r)
  BY <1>4 DEF SpendNonceOf, Leaving, Refusal, Early
<1>5. CASE Reserve(r)
  <2>1. \E to \in {"freshness", "violation"} : Goto(r, to)
    BY <1>5 DEF Reserve
  <2> QED
    BY <1>5, <2>1 DEF Reserve, Leaving
<1>6. CASE Freshness(r)
  BY <1>6 DEF Freshness, Leaving, Refusal, Early
<1>7. CASE CheckAgent(r)
  BY <1>1, <1>7 DEF CheckAgent, Leaving
<1>8. CASE CheckSuspended(r)
  <2>1. \E v \in {"suspended", "revoked"} : FailAuthenticated(r, v)
    BY <1>8 DEF CheckSuspended
  <2> QED
    BY <1>8, <2>1 DEF CheckSuspended, Leaving, Refusal, Early
<1>9. CASE CheckIssuer(r)
  <2>1. Moves
    BY <1>1, <1>9 DEF CheckIssuer, Refusal, Early
  <2> QED
    BY <1>9, <2>1 DEF CheckIssuer, Leaving
<1>10. CASE CheckTrust(r)
  BY <1>10 DEF CheckTrust, Leaving, Refusal, Early
<1>11. CASE Release(r)
  BY <1>11 DEF Release
<1> QED
  BY <1>2, <1>3, <1>4, <1>5, <1>6, <1>7, <1>8, <1>9, <1>10, <1>11 DEF Step

(* It leaves the counters alone, too.                                      *)
LEMMA SilentHistory ==
  ASSUME VerifyTypeOK, TrustTypeOK, NEW r \in Requests, Step(r),
         ~Violation(r), ~RecordFailure(r), ~Succeed(r)
  PROVE  \A a \in Agents :
           /\ history'[a].total = history[a].total
           /\ history'[a].successful = history[a].successful
           /\ history'[a].violations = history[a].violations
<1>1. CASE Attest(r)
  BY <1>1, CallFields, AttestationKeepsCounters DEF Attest
<1>2. CASE Depth(r)
  BY <1>2, CallFields, DepthKeepsCounters DEF Depth
<1>3. CASE Reserve(r)
  BY <1>3 DEF Reserve, ReserveAmount, RecordAmount, DayTotal
<1>4. CASE Release(r)
  BY <1>4 DEF Release, ReleaseAmount, trustVars
<1>5. CASE \/ SpendNonceOf(r) \/ Freshness(r) \/ CheckAgent(r) \/ CheckSuspended(r)
           \/ CheckIssuer(r) \/ CheckTrust(r)
  BY <1>5
     DEF SpendNonceOf, Freshness, CheckAgent, CheckSuspended, CheckIssuer, CheckTrust,
         trustVars
<1> QED
  BY <1>1, <1>2, <1>3, <1>4, <1>5 DEF Step

LEMMA StepCounts ==
  ASSUME VerifyTypeOK, TrustTypeOK, VerdictInv, CountInv, NEW r \in Requests, Step(r)
  PROVE  VerdictInv' /\ CountInv'
<1>1. UNCHANGED call /\ \A q \in Requests : q # r =>
        pc'[q] = pc[q] /\ verdict'[q] = verdict[q] /\ call'[q] = call[q]
  BY OthersStay, StepMoves
<1>2. CASE Violation(r)
  <2>1. pc'[r] = "release" /\ verdict'[r] = "boundaries"
    BY <1>2 DEF Violation, FailAuthenticated, Goto, Refuse, VerifyTypeOK
  <2>2. VerdictInv'
    BY <1>1, <2>1 DEF VerdictInv, Early
  <2> QED
    BY <1>2, <2>2, ViolationCounts
<1>3. CASE RecordFailure(r)
  <2>1. /\ pc[r] = "failure" /\ pc'[r] = "done" /\ verdict'[r] = verdict[r]
        /\ verdict[r] \notin Early \cup {"none", "allow"}
    BY <1>3 DEF RecordFailure, Goto, VerifyTypeOK, VerdictInv
  <2>2. VerdictInv'
    BY <1>1, <2>1 DEF VerdictInv
  <2>3. RecordIntent(call[r].agent, FALSE)
    BY <1>3 DEF RecordFailure
  <2>4. CountInv'
    BY <1>1, <2>1, <2>3, CountsEnd
  <2> QED
    BY <2>2, <2>4
<1>4. CASE Succeed(r)
  <2>1. /\ pc[r] = "succeed" /\ pc'[r] = "done" /\ verdict'[r] = "allow"
        /\ verdict[r] = "none"
    BY <1>4 DEF Succeed, Goto, VerifyTypeOK, VerdictInv
  <2>2. VerdictInv'
    BY <1>1, <2>1 DEF VerdictInv
  <2>3. RecordIntent(call[r].agent, TRUE) /\ verdict'[r] \notin Early
    BY <1>4, <2>1 DEF Succeed, Early
  <2>4. CountInv'
    BY <1>1, <2>1, <2>3, CountsEnd
  <2> QED
    BY <2>2, <2>4
<1>5. CASE ~Violation(r) /\ ~RecordFailure(r) /\ ~Succeed(r)
  <2>1. \A a \in Agents :
          /\ history'[a].total = history[a].total
          /\ history'[a].successful = history[a].successful
          /\ history'[a].violations = history[a].violations
    BY <1>5, SilentHistory
  <2>2. ASSUME pc[r] # "done", pc'[r] # "done",
               verdict'[r] = "boundaries" <=> verdict[r] = "boundaries"
        PROVE  CountInv'
    <3>1. ~Authenticated(r) /\ ~Authenticated(r)' /\ ~Allowed(r) /\ ~Allowed(r)'
      BY <2>2 DEF Authenticated, Allowed, Done
    <3> QED
      BY <1>1, <2>1, <2>2, <3>1, CountsStay
  <2>3. CASE pc[r] = "release" /\ Goto(r, "failure") /\ UNCHANGED verdict
    <3>1. pc'[r] = "failure" /\ verdict'[r] = verdict[r]
      BY <2>3 DEF Goto, VerifyTypeOK
    <3>2. VerdictInv'
      BY <1>1, <2>3, <3>1 DEF VerdictInv
    <3> QED
      BY <2>2, <2>3, <3>1, <3>2
  <2>4. ASSUME NEW to, to \notin Leaving, Goto(r, to), UNCHANGED verdict,
               pc[r] \notin Leaving
        PROVE  VerdictInv' /\ CountInv'
    <3>1. pc'[r] = to /\ verdict'[r] = verdict[r]
      BY <2>4 DEF Goto, VerifyTypeOK
    <3>2. VerdictInv'
      BY <1>1, <2>4, <3>1 DEF VerdictInv, Leaving
    <3> QED
      BY <2>2, <2>4, <3>1, <3>2 DEF Leaving
  <2>5. ASSUME NEW v, Refusal(v), FailAuthenticated(r, v), pc[r] \notin Leaving
        PROVE  VerdictInv' /\ CountInv'
    <3>1. pc'[r] = "release" /\ verdict'[r] = v /\ verdict[r] = "none"
      BY <2>5 DEF FailAuthenticated, Goto, Refuse, VerifyTypeOK, VerdictInv, Leaving
    <3>2. VerdictInv'
      BY <1>1, <2>5, <3>1 DEF VerdictInv, Refusal
    <3> QED
      BY <2>2, <2>5, <3>1, <3>2 DEF Leaving, Refusal
  <2> QED
    BY <1>5, <2>3, <2>4, <2>5, SilentStep
<1> QED
  BY <1>2, <1>3, <1>4, <1>5

LEMMA ReceiveCounts ==
  ASSUME VerifyTypeOK, VerdictInv, CountInv, NEW r \in Requests, NEW c \in Calls,
         Reject(r, c) \/ Authenticate(r, c)
  PROVE  VerdictInv' /\ CountInv'
<1>1. /\ \A q \in Requests : q # r =>
           pc'[q] = pc[q] /\ verdict'[q] = verdict[q] /\ call'[q] = call[q]
      /\ pc[r] = "idle" /\ verdict[r] = "none" /\ UNCHANGED history
  BY DEF Reject, Authenticate, Receive, Goto, Refuse, VerifyTypeOK, VerdictInv, trustVars
<1>2. CASE Reject(r, c)
  <2>1. PICK i \in 1..Len(EarlySteps) : Refuse(r, EarlySteps[i])
    BY <1>2 DEF Reject
  <2>2. EarlySteps[i] \in Early
    BY EarlyVerdicts
  <2>3. pc'[r] = "done" /\ verdict'[r] \in Early
    BY <1>2, <2>1, <2>2 DEF Reject, Receive, Goto, Refuse, VerifyTypeOK
  <2>4. VerdictInv'
    BY <1>1, <2>3 DEF VerdictInv, Early
  <2>5. ~Authenticated(r) /\ ~Authenticated(r)' /\ ~Allowed(r) /\ ~Allowed(r)'
    <3>1. ~Authenticated(r)'
      BY <2>3, EarlyVerdicts DEF Authenticated
    <3> QED
      BY <1>1, <2>3, <3>1 DEF Authenticated, Allowed, Done, Early
  <2>6. CountInv'
    BY <1>1, <2>3, <2>5, CountsStay DEF Early
  <2> QED
    BY <2>4, <2>6
<1>3. CASE Authenticate(r, c)
  <2>1. pc'[r] = "attest" /\ verdict'[r] = verdict[r]
    BY <1>3 DEF Authenticate, Receive, Goto, VerifyTypeOK
  <2>2. VerdictInv'
    BY <1>1, <2>1 DEF VerdictInv
  <2>3. ~Authenticated(r) /\ ~Authenticated(r)' /\ ~Allowed(r) /\ ~Allowed(r)'
    BY <1>1, <2>1 DEF Authenticated, Allowed, Done
  <2>4. CountInv'
    BY <1>1, <2>1, <2>3, CountsStay
  <2> QED
    BY <2>2, <2>4
<1> QED
  BY <1>2, <1>3

LEMMA CountsNext ==
  ASSUME TypeOK, VerdictInv, CountInv, [Next]_vars
  PROVE  VerdictInv' /\ CountInv'
<1>0. VerifyTypeOK /\ TrustTypeOK
  BY DEF TypeOK
<1>1. CASE UNCHANGED <<requestVars, trustVars>>
  <2>1. /\ \A a : Ended(a)' = Ended(a) /\ Granted(a)' = Granted(a)
                   /\ Violating(a)' = Violating(a)
        /\ history' = history
    BY <1>1 DEF requestVars, trustVars, Ended, Granted, Violating, Authenticated,
                Allowed, Done
  <2>2. VerdictInv'
    BY <1>1 DEF requestVars, VerdictInv
  <2> QED
    BY <2>1, <2>2 DEF CountInv
<1>2. ASSUME NEW r \in Requests, NEW c \in Calls, Reject(r, c) \/ Authenticate(r, c)
      PROVE  VerdictInv' /\ CountInv'
  BY <1>0, <1>2, ReceiveCounts
<1>3. ASSUME NEW r \in Requests, Step(r) PROVE VerdictInv' /\ CountInv'
  BY <1>0, <1>3, StepCounts
<1> QED
  BY <1>1, <1>2, <1>3 DEF Next, vars, Pass, Synchronise, Operate

(* Every history counts the authenticated requests of its agent, the       *)
(* allowed and the violating among them, and nothing else, for any number  *)
(* of concurrent requests (record_intent, record_violation).               *)
THEOREM HistoriesMatchVerdicts == Spec => []HistoryMatchesVerdicts
<1>1. Init => VerdictInv /\ CountInv
  <2> SUFFICES ASSUME Init PROVE VerdictInv /\ CountInv
    OBVIOUS
  <2>1. VerdictInv
    BY DEF Init, VerdictInv
  <2>2. \A a : Ended(a) = {} /\ Granted(a) = {} /\ Violating(a) = {}
    BY DEF Init, Ended, Granted, Violating, Authenticated, Allowed, Done
  <2>3. \A a \in Agents : /\ history[a].total = 0 /\ history[a].successful = 0
                          /\ history[a].violations = 0
    BY DEF Init, TrustInit, NewHistory
  <2> QED
    BY <2>1, <2>2, <2>3, FS_EmptySet DEF CountInv
<1>2. VerdictInv /\ CountInv => HistoryMatchesVerdicts
  <2> SUFFICES ASSUME VerdictInv, CountInv, NEW a \in Agents,
                      \A r \in Requests : pc[r] \in {"idle", "done"}
               PROVE  LET mine == {r \in Requests : Authenticated(r) /\ call[r].agent = a}
                      IN  /\ history[a].total = Cardinality(mine)
                          /\ history[a].successful =
                               Cardinality({r \in mine : Allowed(r)})
                          /\ history[a].violations =
                               Cardinality({r \in mine : verdict[r] = "boundaries"})
    BY DEF HistoryMatchesVerdicts
  <2> DEFINE mine == {r \in Requests : Authenticated(r) /\ call[r].agent = a}
  <2>1. mine = Ended(a)
    BY DEF Ended
  <2>2. {r \in mine : Allowed(r)} = Granted(a)
    <3>1. \A r \in Requests : Allowed(r) => Authenticated(r)
      BY EarlyVerdicts DEF Allowed, Authenticated, Early
    <3> QED
      BY <3>1 DEF Granted
  <2>3. {r \in mine : verdict[r] = "boundaries"} = Violating(a)
    <3>1. \A r \in Requests : verdict[r] = "boundaries" => Authenticated(r)
      BY EarlyVerdicts DEF VerdictInv, Authenticated, Done, Early
    <3> QED
      BY <3>1 DEF Violating
  <2> QED
    BY <2>1, <2>2, <2>3 DEF CountInv
<1>3. TypeOK /\ VerdictInv /\ CountInv /\ [Next]_vars => VerdictInv' /\ CountInv'
  BY CountsNext
<1> QED
  BY <1>1, <1>2, <1>3, VerifyTypeCorrect, PTL DEF Spec
-----------------------------------------------------------------------------
(* Spent nonces.  Who was told that its nonce is new is remembered in the  *)
(* cache, unless a retention period has passed or more requests spent one  *)
(* than the cache holds: it is never longer than they are many.            *)

SpentRequests == {r \in Requests : SpentNonce(r)}

Remembered(r) ==
  \/ \E j \in 1..Len(nonces) : nonces[j].nonce = call[r].nonce /\ now[r] <= nonces[j].at
  \/ now[r] + NonceTTL <= clock
  \/ Cardinality(SpentRequests) > MaxNonces

NonceInv ==
  /\ IsFiniteSet(SpentRequests) /\ Len(nonces) <= Cardinality(SpentRequests)
  /\ \A r \in Requests : now[r] <= clock
  /\ \A r \in Requests : pc[r] \notin Leaving => verdict[r] = "none"
  /\ \A r \in SpentRequests : Remembered(r)
  /\ NonceSpentOncePerRetention

(* What a look-up makes of the cache: an entry that goes was out of        *)
(* retention, or the cache was full and the nonce is new.                  *)
LEMMA SpendNonceKeeps ==
  ASSUME nonces \in Seq(NonceEntry), clock \in Nat, NEW n \in Nonces
  PROVE  /\ Len(SpendNonce(n)) <= Len(nonces) + (IF NonceIsNew(n) THEN 1 ELSE 0)
         /\ \A j \in 1..Len(nonces) :
              \/ \E k \in 1..Len(SpendNonce(n)) : SpendNonce(n)[k] = nonces[j]
              \/ nonces[j].at + NonceTTL <= clock
              \/ NonceIsNew(n) /\ Len(nonces) >= MaxNonces
         /\ NonceIsNew(n) =>
              \E k \in 1..Len(SpendNonce(n)) :
                SpendNonce(n)[k] = [nonce |-> n, at |-> clock]
         /\ NonceIsNew(n) => \A j \in 1..Len(nonces) :
              nonces[j].nonce = n => nonces[j].at + NonceTTL <= clock
<1> DEFINE kept == DropStale(nonces)
           c == StaleCount(nonces)
           e == [nonce |-> n, at |-> clock]
           all == Append(kept, e)
           left == DropExcess(all)
<1>1. /\ c \in 0..Len(nonces) /\ Len(nonces) \in Nat
      /\ \A i \in 1..c : nonces[i].at + NonceTTL <= clock
  BY StaleCountProperty, LenProperties
<1>2. /\ kept \in Seq(NonceEntry) /\ Len(kept) = Len(nonces) - c
      /\ \A j \in 1..Len(kept) : kept[j] = nonces[c + j]
  BY DropStaleProperty
<1>3. e \in NonceEntry
  BY DEF NonceEntry
<1>4. /\ all \in Seq(NonceEntry) /\ Len(all) = Len(kept) + 1
      /\ \A j \in 1..Len(kept) : all[j] = kept[j]
      /\ all[Len(kept) + 1] = e
  BY <1>2, <1>3, AppendProperties
<1>5. /\ Len(left) \in 0..Len(all) /\ Len(left) <= MaxNonces
      /\ Len(left) < Len(all) => Len(left) = MaxNonces
      /\ \A j \in 1..Len(left) : left[j] = all[(Len(all) - Len(left)) + j]
  <2> DEFINE k == Len(all) - Len(left)
  <2>1. /\ left \in Seq(NonceEntry) /\ k \in 0..Len(all) /\ Len(left) <= MaxNonces
        /\ k > 0 => Len(left) = MaxNonces
        /\ \A j \in 1..Len(left) : left[j] = all[k + j]
    BY <1>4, DropExcessProperty
  <2>2. Len(left) \in Nat /\ Len(all) \in Nat
    BY <1>4, <2>1, LenProperties
  <2> HIDE DEF left, all
  <2> QED
    BY <2>1, <2>2
<1>6. MaxNonces \in Nat /\ MaxNonces > 0
  BY StoreAssumption
<1>7. ASSUME NEW j \in 1..Len(nonces)
      PROVE  \/ nonces[j].at + NonceTTL <= clock
             \/ \E i \in 1..Len(kept) : kept[i] = nonces[j]
  <2>1. CASE j <= c
    BY <1>1, <2>1
  <2>2. CASE j > c
    <3>1. j - c \in 1..Len(kept) /\ c + (j - c) = j
      BY <1>1, <1>2, <2>2
    <3> QED
      BY <1>2, <3>1
  <2> QED
    BY <1>1, <2>1, <2>2
<1>8. SpendNonce(n) = IF NonceIsNew(n) THEN left ELSE kept
  BY DEF SpendNonce
<1>9. NonceIsNew(n) <=> \A i \in 1..Len(kept) : kept[i].nonce # n
  BY DEF NonceIsNew, Holds
<1> HIDE DEF kept, c, e, all, left
<1>10. CASE ~NonceIsNew(n)
  BY <1>1, <1>2, <1>7, <1>8, <1>10
<1>11. CASE NonceIsNew(n)
  <2>1. Len(SpendNonce(n)) <= Len(nonces) + 1
    BY <1>1, <1>2, <1>4, <1>5, <1>8, <1>11
  <2>2. \E k \in 1..Len(left) : left[k] = e
    <3>1. Len(left) \in 1..Len(all) /\ Len(all) \in Nat
      BY <1>1, <1>2, <1>4, <1>5, <1>6
    <3>2. left[Len(left)] = all[(Len(all) - Len(left)) + Len(left)]
      BY <1>5, <3>1
    <3> QED
      BY <1>4, <3>1, <3>2
  <2>3. ASSUME NEW i \in 1..Len(kept), Len(nonces) < MaxNonces
        PROVE  \E k \in 1..Len(left) : left[k] = kept[i]
    <3>0. /\ Len(kept) \in Nat /\ Len(kept) <= Len(nonces)
          /\ Len(all) = Len(kept) + 1 /\ Len(left) \in 0..Len(all)
          /\ Len(left) < Len(all) => Len(left) = MaxNonces
      BY <1>1, <1>2, <1>4, <1>5
    <3>1. Len(left) = Len(all) /\ i \in 1..Len(left)
      BY <1>1, <1>6, <2>3, <3>0
    <3>2. left[i] = all[(Len(all) - Len(left)) + i]
      BY <1>5, <3>1
    <3>3. (Len(all) - Len(left)) + i = i
      BY <1>1, <1>2, <1>4, <3>1
    <3> QED
      BY <1>4, <3>1, <3>2, <3>3
  <2>4. ASSUME NEW j \in 1..Len(nonces)
        PROVE  \/ \E k \in 1..Len(left) : left[k] = nonces[j]
               \/ nonces[j].at + NonceTTL <= clock
               \/ Len(nonces) >= MaxNonces
    <3>1. CASE Len(nonces) < MaxNonces
      BY <1>7, <2>3, <3>1
    <3> QED
      BY <1>1, <1>6, <3>1
  <2>5. \A j \in 1..Len(nonces) :
          nonces[j].nonce = n => nonces[j].at + NonceTTL <= clock
    BY <1>7, <1>9, <1>11
  <2> QED
    BY <1>8, <1>11, <2>1, <2>2, <2>4, <2>5 DEF e
<1> QED
  BY <1>10, <1>11

(* While nobody looks a nonce up, and time may pass.                       *)
LEMMA NoncesStay ==
  ASSUME VerifyTypeOK, NonceInv, clock \in Nat, clock' \in Nat, clock <= clock',
         nonces' = nonces, SpentRequests' = SpentRequests,
         \A q \in SpentRequests : call'[q] = call[q] /\ now'[q] = now[q],
         \A q \in Requests : now'[q] <= clock',
         \A q \in Requests : pc'[q] \notin Leaving => verdict'[q] = "none"
  PROVE  NonceInv'
<1>1. NonceTTL \in Nat /\ MaxNonces \in Nat
  BY StoreAssumption
<1>2. \A q \in SpentRequests : now[q] \in Nat
  BY DEF SpentRequests, VerifyTypeOK
<1>3. \A q \in SpentRequests : Remembered(q)'
  BY <1>1, <1>2 DEF NonceInv, Remembered
<1>4. NonceSpentOncePerRetention'
  <2> SUFFICES ASSUME Cardinality(SpentRequests') <= MaxNonces,
                      NEW r \in SpentRequests, NEW q \in SpentRequests,
                      r # q, call'[r].nonce = call'[q].nonce
               PROVE  now'[r] + NonceTTL <= clock' \/ now'[q] + NonceTTL <= clock'
    BY DEF NonceSpentOncePerRetention, SpentRequests
  <2>1. now[r] + NonceTTL <= clock \/ now[q] + NonceTTL <= clock
    BY DEF NonceInv, NonceSpentOncePerRetention, SpentRequests
  <2> QED
    BY <1>1, <1>2, <2>1
<1> QED
  BY <1>3, <1>4 DEF NonceInv

(* A look-up: whoever is told that its nonce is new finds nobody who still *)
(* remembers it.                                                           *)
LEMMA LookUpKeepsNonces ==
  ASSUME StoreTypeOK, VerifyTypeOK, clock \in Nat, NonceInv,
         NEW r \in Requests, SpendNonceOf(r)
  PROVE  NonceInv'
<1> DEFINE n == call[r].nonce
<1>1. /\ NonceTTL \in Nat /\ MaxNonces \in Nat /\ n \in Nonces
      /\ nonces \in Seq(NonceEntry) /\ Len(nonces) \in Nat
      /\ \A j \in 1..Len(nonces) : nonces[j].at \in Nat
      /\ \A q \in Requests : now[q] \in Nat
  <2>1. nonces \in Seq(NonceEntry)
    BY DEF StoreTypeOK
  <2>2. \A j \in 1..Len(nonces) : nonces[j] \in NonceEntry
    BY <2>1, ElementOfSeq
  <2> QED
    BY <2>1, <2>2, StoreAssumption, CallFields, LenProperties
       DEF NonceEntry, VerifyTypeOK
<1>2. /\ nonces' = SpendNonce(n) /\ UNCHANGED <<clock, call, now>>
      /\ \A q \in Requests : q # r => pc'[q] = pc[q] /\ verdict'[q] = verdict[q]
      /\ pc[r] = "nonce" /\ verdict[r] = "none" /\ r \notin SpentRequests
      /\ \/ NonceIsNew(n) /\ pc'[r] = "reserve" /\ verdict'[r] = "none"
         \/ ~NonceIsNew(n) /\ pc'[r] = "release" /\ verdict'[r] = "replay"
  BY DEF SpendNonceOf, CheckNonce, FailAuthenticated, Goto, Refuse, VerifyTypeOK,
         NonceInv, Leaving, SpentRequests, SpentNonce
<1>3. SpentRequests' = IF NonceIsNew(n) THEN SpentRequests \cup {r} ELSE SpentRequests
  <2>1. SpentNonce(r)' <=> NonceIsNew(n)
    BY <1>2 DEF SpentNonce
  <2>2. \A q \in Requests : q # r => (SpentNonce(q)' <=> SpentNonce(q))
    BY <1>2 DEF SpentNonce
  <2> QED
    BY <1>2, <2>1, <2>2 DEF SpentRequests
<1> DEFINE many == Cardinality(SpentRequests)
           many2 == Cardinality(SpentRequests')
<1>4. /\ IsFiniteSet(SpentRequests') /\ many \in Nat
      /\ many2 = many + (IF NonceIsNew(n) THEN 1 ELSE 0)
  BY <1>2, <1>3, OneMore, FS_CardinalityType DEF NonceInv
<1>5. /\ Len(nonces) <= many
      /\ \A q \in SpentRequests :
           \/ \E j \in 1..Len(nonces) :
                nonces[j].nonce = call[q].nonce /\ now[q] <= nonces[j].at
           \/ now[q] + NonceTTL <= clock
           \/ many > MaxNonces
  BY DEF NonceInv, Remembered
<1>6. /\ Len(nonces') <= Len(nonces) + (IF NonceIsNew(n) THEN 1 ELSE 0)
      /\ \A j \in 1..Len(nonces) :
           \/ \E k \in 1..Len(nonces') : nonces'[k] = nonces[j]
           \/ nonces[j].at + NonceTTL <= clock
           \/ NonceIsNew(n) /\ Len(nonces) >= MaxNonces
      /\ NonceIsNew(n) =>
           \E k \in 1..Len(nonces') : nonces'[k] = [nonce |-> n, at |-> clock]
      /\ NonceIsNew(n) => \A j \in 1..Len(nonces) :
           nonces[j].nonce = n => nonces[j].at + NonceTTL <= clock
  BY <1>1, <1>2, SpendNonceKeeps
<1>7. \A q \in Requests : now[q] <= clock
  BY DEF NonceInv
<1> DEFINE Known(q) ==
             \/ \E k \in 1..Len(nonces') :
                  nonces'[k].nonce = call[q].nonce /\ now[q] <= nonces'[k].at
             \/ now[q] + NonceTTL <= clock
             \/ many2 > MaxNonces
<1>8. SpentRequests \subseteq Requests
  BY DEF SpentRequests
<1> HIDE DEF n, many, many2
<1>9. ASSUME NEW q \in SpentRequests PROVE Known(q)
  <2>1. CASE many > MaxNonces
    BY <1>1, <1>4, <2>1
  <2>2. ASSUME NEW j \in 1..Len(nonces),
               nonces[j].nonce = call[q].nonce, now[q] <= nonces[j].at
        PROVE  Known(q)
    <3>1. CASE nonces[j].at + NonceTTL <= clock
      BY <1>1, <1>8, <2>2, <3>1
    <3>2. CASE NonceIsNew(n) /\ Len(nonces) >= MaxNonces
      BY <1>1, <1>4, <1>5, <3>2
    <3> QED
      BY <1>6, <2>2, <3>1, <3>2
  <2> QED
    BY <1>5, <2>1, <2>2
<1>10. NonceIsNew(n) => Known(r)
  BY <1>6, <1>7 DEF n
<1>11. \A q \in SpentRequests' : Remembered(q)'
  BY <1>2, <1>3, <1>9, <1>10 DEF Remembered, many2
<1>12. Len(nonces') <= many2
  <2>1. Len(nonces') \in Nat
    BY <1>1, <1>2, SpendNonceType, LenProperties
  <2> QED
    BY <1>1, <1>4, <1>5, <1>6, <2>1
<1>13. ASSUME many2 <= MaxNonces, NonceIsNew(n),
              NEW q \in SpentRequests, call[q].nonce = n
       PROVE  now[q] + NonceTTL <= clock
  <2>1. ~(many > MaxNonces)
    BY <1>1, <1>4, <1>13
  <2>2. ASSUME NEW j \in 1..Len(nonces),
               nonces[j].nonce = call[q].nonce, now[q] <= nonces[j].at
        PROVE  now[q] + NonceTTL <= clock
    BY <1>1, <1>6, <1>8, <1>13, <2>2
  <2> QED
    BY <1>5, <2>1, <2>2
<1>14. NonceSpentOncePerRetention'
  <2> SUFFICES ASSUME many2 <= MaxNonces,
                      NEW p \in SpentRequests', NEW q \in SpentRequests',
                      p # q, call[p].nonce = call[q].nonce
               PROVE  now[p] + NonceTTL <= clock \/ now[q] + NonceTTL <= clock
    BY <1>2 DEF NonceSpentOncePerRetention, SpentRequests, many2
  <2>1. CASE p \in SpentRequests /\ q \in SpentRequests
    <3>1. many <= MaxNonces
      BY <1>1, <1>4
    <3> QED
      BY <2>1, <3>1 DEF NonceInv, NonceSpentOncePerRetention, SpentRequests, many
  <2>2. CASE p = r /\ q \in SpentRequests /\ NonceIsNew(n)
    BY <1>13, <2>2 DEF n
  <2>3. CASE q = r /\ p \in SpentRequests /\ NonceIsNew(n)
    BY <1>13, <2>3 DEF n
  <2> QED
    BY <1>3, <2>1, <2>2, <2>3
<1>15. /\ \A q \in Requests : now'[q] <= clock'
       /\ \A q \in Requests : pc'[q] \notin Leaving => verdict'[q] = "none"
  BY <1>2, <1>7 DEF NonceInv, Leaving
<1> QED
  BY <1>4, <1>11, <1>12, <1>14, <1>15 DEF NonceInv, many2

Before == {"idle", "attest", "depth", "nonce"}
Unspent == {"version", "schema", "expiry", "clock_skew", "signature", "nonce_format",
            "replay"}

(* Whoever is past the look-up of its nonce goes on, or is refused for     *)
(* something that is asked about later.                                    *)
LEMMA LaterSteps ==
  ASSUME VerifyTypeOK, NEW r \in Requests, Step(r), pc[r] \notin Before
  PROVE  /\ pc'[r] \notin Before /\ nonces' = nonces
         /\ \/ /\ verdict'[r] = verdict[r]
               /\ pc[r] \in Leaving <=> pc'[r] \in Leaving
            \/ /\ verdict'[r] \notin Unspent
               /\ pc[r] \notin Leaving /\ pc'[r] \in Leaving
<1> DEFINE Onward == \E to : to \notin Before /\ to \notin Leaving /\ Goto(r, to)
                              /\ UNCHANGED verdict
           Refused == \E v : v \notin Unspent /\ FailAuthenticated(r, v)
<1>1. /\ Onward => /\ pc'[r] \notin Before /\ pc'[r] \notin Leaving
                   /\ verdict'[r] = verdict[r]
      /\ Refused => /\ pc'[r] \notin Before /\ pc'[r] \in Leaving
                    /\ verdict'[r] \notin Unspent
  BY DEF Goto, FailAuthenticated, Refuse, VerifyTypeOK, Before, Leaving
<1>2. MeetsMarket(r) => Onward \/ Refused
  <2>1. /\ \A v \in {"asset_truth", "attestation", "delegation"} : v \notin Unspent
        /\ \A to \in {"trust", "succeed"} : to \notin Before /\ to \notin Leaving
    BY DEF Unspent, Before, Leaving
  <2> QED
    BY <2>1, MarketRefuses
<1> USE DEF Before, Leaving, Unspent
<1>3. CASE Reserve(r)
  <2>1. pc[r] = "reserve" /\ UNCHANGED <<nonces, verdict>>
        /\ \E to \in {"freshness", "violation"} : Goto(r, to)
    BY <1>3 DEF Reserve, storeVars
  <2> QED
    BY <1>1, <2>1
<1>4. CASE Violation(r)
  BY <1>1, <1>4 DEF Violation, storeVars
<1>5. CASE Freshness(r)
  BY <1>1, <1>5 DEF Freshness, storeVars
<1>6. CASE CheckAgent(r)
  <2>1. pc[r] = "agent" /\ nonces' = nonces
    BY <1>6 DEF CheckAgent, ReadStanding
  <2>2. Onward \/ Refused
    BY <1>2, <1>6 DEF CheckAgent
  <2> QED
    BY <1>1, <2>1, <2>2
<1>7. CASE CheckSuspended(r)
  <2>1. /\ pc[r] = "suspended" /\ nonces' = nonces
        /\ \E v \in {"suspended", "revoked"} : FailAuthenticated(r, v)
    BY <1>7 DEF CheckSuspended, ReadStanding
  <2> QED
    BY <1>1, <2>1
<1>8. CASE CheckIssuer(r)
  <2>1. pc[r] = "issuer" /\ nonces' = nonces
    BY <1>8 DEF CheckIssuer, ReadStanding
  <2>2. Onward \/ Refused
    BY <1>2, <1>8 DEF CheckIssuer
  <2> QED
    BY <1>1, <2>1, <2>2
<1>9. CASE CheckTrust(r)
  BY <1>1, <1>9 DEF CheckTrust, storeVars
<1>10. CASE Release(r) \/ RecordFailure(r)
  BY <1>10 DEF Release, RecordFailure, Goto, VerifyTypeOK, storeVars
<1>11. CASE Succeed(r)
  BY <1>11 DEF Succeed, Goto, VerifyTypeOK, storeVars
<1>12. ~(Attest(r) \/ Depth(r) \/ SpendNonceOf(r))
  BY DEF Attest, Depth, SpendNonceOf
<1> QED
  BY <1>3, <1>4, <1>5, <1>6, <1>7, <1>8, <1>9, <1>10, <1>11, <1>12 DEF Step

LEMMA StepKeepsNonces ==
  ASSUME TypeOK, NonceInv, NEW r \in Requests, Step(r)
  PROVE  NonceInv'
<1>0. StoreTypeOK /\ VerifyTypeOK /\ clock \in Nat
  BY ClockAssumption DEF TypeOK, ClockTypeOK
<1>1. /\ UNCHANGED <<clock, call, now>>
      /\ \A q \in Requests : q # r => pc'[q] = pc[q] /\ verdict'[q] = verdict[q]
  BY <1>0, OthersStay, StepMoves
<1>2. ASSUME nonces' = nonces, SpentNonce(r)' <=> SpentNonce(r),
             pc'[r] \notin Leaving => verdict'[r] = "none"
      PROVE  NonceInv'
  <2>1. \A q \in Requests : SpentNonce(q)' <=> SpentNonce(q)
    BY <1>1, <1>2 DEF SpentNonce
  <2>2. SpentRequests' = SpentRequests
    BY <2>1 DEF SpentRequests
  <2>3. /\ \A q \in Requests : now'[q] <= clock'
        /\ \A q \in Requests : pc'[q] \notin Leaving => verdict'[q] = "none"
    BY <1>1, <1>2 DEF NonceInv
  <2>4. /\ clock' \in Nat /\ clock <= clock'
        /\ \A q \in SpentRequests : call'[q] = call[q] /\ now'[q] = now[q]
    BY <1>0, <1>1
  <2> QED
    BY <1>0, <1>2, <2>2, <2>3, <2>4, NoncesStay
<1>3. CASE SpendNonceOf(r)
  BY <1>0, <1>3, LookUpKeepsNonces
<1>4. CASE Attest(r)
  <2>1. pc[r] = "attest" /\ pc'[r] = "depth" /\ UNCHANGED <<verdict, nonces>>
    BY <1>0, <1>4 DEF Attest, Goto, VerifyTypeOK, storeVars
  <2> QED
    BY <1>2, <2>1 DEF SpentNonce, NonceInv, Leaving
<1>5. CASE Depth(r)
  <2>1. /\ pc[r] = "depth" /\ UNCHANGED nonces
        /\ \/ pc'[r] = "nonce" /\ verdict'[r] = verdict[r]
           \/ pc'[r] = "release" /\ verdict'[r] = "nonce_format"
    BY <1>0, <1>5 DEF Depth, FailAuthenticated, Goto, Refuse, VerifyTypeOK, storeVars
  <2> QED
    BY <1>2, <2>1 DEF SpentNonce, NonceInv, Leaving
<1>6. CASE pc[r] \notin Before
  <2>1. pc[r] \notin Leaving => verdict[r] = "none"
    BY DEF NonceInv
  <2>2. SpentNonce(r)' <=> SpentNonce(r)
    BY <1>0, <1>6, <2>1, LaterSteps DEF SpentNonce, Before, Unspent
  <2> QED
    BY <1>0, <1>2, <1>6, <2>1, <2>2, LaterSteps
<1>7. pc[r] # "idle"
  BY DEF Step, Attest, Depth, SpendNonceOf, Reserve, Violation, Freshness, CheckAgent,
         CheckSuspended, CheckIssuer, CheckTrust, Release, RecordFailure, Succeed
<1>8. CASE pc[r] \in Before
  <2>1. Attest(r) \/ Depth(r) \/ SpendNonceOf(r)
    BY <1>7, <1>8
       DEF Step, Reserve, Violation, Freshness, CheckAgent, CheckSuspended,
           CheckIssuer, CheckTrust, Release, RecordFailure, Succeed, Before
  <2> QED
    BY <1>3, <1>4, <1>5, <2>1
<1> QED
  BY <1>6, <1>8

(* A request that comes in has spent nothing; one refused at once neither. *)
LEMMA ReceiveKeepsNonces ==
  ASSUME TypeOK, NonceInv, NEW r \in Requests, NEW c \in Calls,
         Reject(r, c) \/ Authenticate(r, c)
  PROVE  NonceInv'
<1>0. VerifyTypeOK /\ clock \in Nat
  BY ClockAssumption DEF TypeOK, ClockTypeOK
<1>1. /\ pc[r] = "idle" /\ UNCHANGED <<clock, nonces>> /\ now'[r] = clock
      /\ \A q \in Requests : q # r =>
           /\ pc'[q] = pc[q] /\ verdict'[q] = verdict[q]
           /\ call'[q] = call[q] /\ now'[q] = now[q]
  BY <1>0 DEF Reject, Authenticate, Receive, Goto, Refuse, VerifyTypeOK, storeVars
<1>2. \/ pc'[r] = "done" /\ verdict'[r] \in Early
      \/ pc'[r] = "attest" /\ verdict'[r] = verdict[r]
  <2>1. CASE Authenticate(r, c)
    BY <1>0, <2>1 DEF Authenticate, Receive, Goto, VerifyTypeOK
  <2>2. CASE Reject(r, c)
    <3>1. PICK i \in 1..Len(EarlySteps) : Refuse(r, EarlySteps[i])
      BY <2>2 DEF Reject
    <3>2. EarlySteps[i] \in Early
      BY EarlyVerdicts
    <3> QED
      BY <1>0, <2>2, <3>1, <3>2 DEF Reject, Receive, Goto, Refuse, VerifyTypeOK
  <2> QED
    BY <2>1, <2>2
<1>3. ~SpentNonce(r) /\ ~SpentNonce(r)'
  BY <1>1, <1>2 DEF SpentNonce, Early
<1>4. SpentRequests' = SpentRequests
  <2>1. \A q \in Requests : SpentNonce(q)' <=> SpentNonce(q)
    BY <1>1, <1>3 DEF SpentNonce
  <2> QED
    BY <2>1 DEF SpentRequests
<1>5. \A q \in SpentRequests : call'[q] = call[q] /\ now'[q] = now[q]
  BY <1>1, <1>3 DEF SpentRequests
<1>6. /\ \A q \in Requests : now'[q] <= clock'
      /\ \A q \in Requests : pc'[q] \notin Leaving => verdict'[q] = "none"
  BY <1>0, <1>1, <1>2 DEF NonceInv, Leaving
<1> QED
  BY <1>0, <1>1, <1>4, <1>5, <1>6, NoncesStay

(* Time, the operator and the synchronisation.                             *)
LEMMA QuietKeepsNonces ==
  ASSUME TypeOK, NonceInv, UNCHANGED <<pc, call, now, verdict, nonces>>,
         clock' \in Nat, clock <= clock'
  PROVE  NonceInv'
<1>0. VerifyTypeOK /\ clock \in Nat
  BY ClockAssumption DEF TypeOK, ClockTypeOK
<1>1. SpentRequests' = SpentRequests
  BY DEF SpentRequests, SpentNonce
<1>2. \A q \in Requests : now'[q] <= clock'
  <2>1. \A q \in Requests : now[q] <= clock /\ now[q] \in Nat
    BY <1>0 DEF NonceInv, VerifyTypeOK
  <2> QED
    BY <1>0, <2>1
<1>3. \A q \in Requests : pc'[q] \notin Leaving => verdict'[q] = "none"
  BY DEF NonceInv
<1> QED
  BY <1>0, <1>1, <1>2, <1>3, NoncesStay

LEMMA NonceStep ==
  ASSUME TypeOK, NonceInv, [Next]_vars
  PROVE  NonceInv'
<1>0. clock \in Nat
  BY ClockAssumption DEF TypeOK, ClockTypeOK
<1>1. CASE Pass \/ Synchronise \/ (\E s \in Targets : Operate(s)) \/ UNCHANGED vars
  <2>1. UNCHANGED <<pc, call, now, verdict, nonces>> /\ (clock' = clock \/ Tick)
    BY <1>1
       DEF Pass, Synchronise, Operate, TouchSync, Revoke, Reinstate, Suspend, vars,
           storeVars, requestVars
  <2>2. clock' \in Nat /\ clock <= clock'
    BY <1>0, <2>1 DEF Tick
  <2> QED
    BY <2>1, <2>2, QuietKeepsNonces
<1> QED
  BY <1>1, ReceiveKeepsNonces, StepKeepsNonces DEF Next

LEMMA NoNoncesYet ==
  ASSUME \A r \in Requests : pc[r] = "idle" /\ verdict[r] = "none",
         nonces = <<>>, \A r \in Requests : now[r] <= clock
  PROVE  NonceInv
<1>1. SpentRequests = {}
  BY DEF SpentRequests, SpentNonce
<1> QED
  BY <1>1, FS_EmptySet DEF NonceInv, NonceSpentOncePerRetention, SpentNonce

(* A nonce is told to be new to one request per retention period, for any  *)
(* number of requests, calls and interleavings, as long as no more of them *)
(* spend one than the cache holds (check_nonce, step 5 of verify_intent).  *)
THEOREM NonceSpentOnce == Spec => []NonceSpentOncePerRetention
<1>1. Init => NonceInv
  <2> SUFFICES ASSUME Init PROVE NonceInv
    OBVIOUS
  <2>1. clock \in Nat /\ \A r \in Requests : now[r] <= clock
    BY ClockAssumption DEF Init, ClockInit
  <2>2. nonces = <<>> /\ \A r \in Requests : pc[r] = "idle" /\ verdict[r] = "none"
    BY DEF Init, StoreInit
  <2> QED
    BY <2>1, <2>2, NoNoncesYet
<1>2. TypeOK /\ NonceInv /\ [Next]_vars => NonceInv'
  BY NonceStep
<1>3. NonceInv => NonceSpentOncePerRetention
  BY DEF NonceInv
<1> QED
  BY <1>1, <1>2, <1>3, VerifyTypeCorrect, PTL DEF Spec
=============================================================================
