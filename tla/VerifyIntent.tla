---------------------------- MODULE VerifyIntent ----------------------------
(***************************************************************************)
(* custos_protocol/verification.py: verify_intent, run by any number of    *)
(* threads that share one RevocationStore and one TrustEngine.             *)
(*                                                                         *)
(* A thread's steps are its lock acquisitions: each method of the shared   *)
(* objects is one action, together with the thread-local work up to the    *)
(* next one.  pc[r] names the method request r calls next.  Checks that    *)
(* are pure functions of the call (the signature, the boundary predicates  *)
(* other than the per-day limit, asset truth, ...) are the members of the  *)
(* call's `flaws`; what depends on the clock, the store, the ledger or the *)
(* history is computed here.                                               *)
(***************************************************************************)
EXTENDS RevocationStore, TrustEngine

CONSTANTS
  Requests,      \* concurrent calls of verify_intent
  Calls,         \* envelopes, each with the claim that comes with it
  NoIssuer,      \* the issuer of a call without a claim
  Grace,         \* clock_skew_seconds
  FutureSkew,    \* the five minutes of check 3b
  MaxSpan,       \* the longest expires_at - issued_at an envelope may have
  MinTrust,      \* min_trust_score, in ten-thousandths
  Targets        \* subjects the operator acts on during the run

StaticSteps ==
  {"version", "schema", "signature", "nonce_format", "boundaries",
   "asset_truth", "attestation", "delegation"}

NoAmount == -1

Call ==
  [agent : Agents, nonce : Nonces, amount : Nat \cup {NoAmount}, perDay : Nat,
   tier : 0..2, issued : Nat, expires : Nat, issuer : Subjects \cup {NoIssuer},
   depth : Nat, build : Hashes \cup {NoHash}, prompt : Hashes \cup {NoHash},
   flaws : SUBSET StaticSteps]

ASSUME VerifyAssumption ==
  /\ Agents \subseteq Subjects
  /\ Targets \subseteq Subjects
  /\ NoIssuer \notin Subjects
  /\ Tokens = Requests      \* a request reserves at most once: its uuid is its own
  /\ Calls # {} /\ Calls \subseteq Call
  /\ \A c \in Calls : c.issued < c.expires /\ c.expires <= c.issued + MaxSpan
  /\ Grace \in Nat /\ FutureSkew \in Nat /\ MaxSpan \in Nat
  /\ MinTrust \in Int

VARIABLES
  pc,         \* the shared-object method each request calls next
  call,       \* envelope and claim
  now,        \* the local `now`, read once on entry
  reserved,   \* ledger_token is not None
  verdict,    \* why it was refused, or "allow"
  barred,     \* history: subjects refused at every moment since entry
  outdated    \* history: whether the store was out of sync at each of them

requestVars == <<pc, call, now, reserved, verdict>>
historyVars == <<barred, outdated>>
vars == <<clock, storeVars, trustVars, requestVars, historyVars>>

PCs ==
  {"idle", "attest", "depth", "nonce", "reserve", "violation", "freshness",
   "agent", "suspended", "issuer", "trust", "succeed", "release", "failure",
   "done"}

RevocationVerdicts == {"stale", "revoked", "suspended", "issuer"}

Verdicts ==
  {"none", "allow", "expiry", "clock_skew", "replay", "trust"}
    \cup StaticSteps \cup RevocationVerdicts

VerifyTypeOK ==
  /\ pc \in [Requests -> PCs]
  /\ call \in [Requests -> Calls]
  /\ now \in [Requests -> Nat]
  /\ reserved \in [Requests -> BOOLEAN]
  /\ verdict \in [Requests -> Verdicts]
  /\ barred \in [Requests -> SUBSET Subjects]
  /\ outdated \in [Requests -> BOOLEAN]

TypeOK == ClockTypeOK /\ StoreTypeOK /\ TrustTypeOK /\ VerifyTypeOK

(* Before it is received a request's call is an arbitrary one of Calls.    *)
Init ==
  /\ ClockInit
  /\ StoreInit
  /\ TrustInit
  /\ pc = [r \in Requests |-> "idle"]
  /\ call = [r \in Requests |-> CHOOSE c \in Calls : TRUE]
  /\ now = [r \in Requests |-> 0]
  /\ reserved = [r \in Requests |-> FALSE]
  /\ verdict = [r \in Requests |-> "none"]
  /\ barred = [r \in Requests |-> {}]
  /\ outdated = [r \in Requests |-> FALSE]

-----------------------------------------------------------------------------
(* The steps of the pipeline that touch no shared object.                  *)

HasAmount(c) == c.amount # NoAmount

Fails(c, step, t) ==
  \/ step \in c.flaws
  \/ step = "expiry" /\ c.expires + Grace < t
  \/ step = "clock_skew" /\ c.issued > t + FutureSkew
  \/ step = "asset_truth" /\ c.issuer = NoIssuer

(* steps[i] is the check a fail-fast walk through steps stops at.          *)
StopsAt(steps, c, t, i) ==
  /\ Fails(c, steps[i], t)
  /\ \A j \in 1..(i - 1) : ~Fails(c, steps[j], t)

PassesAll(steps, c, t) == \A i \in 1..Len(steps) : ~Fails(c, steps[i], t)

EarlySteps == <<"version", "schema", "expiry", "clock_skew", "signature">>

(* Mutant: delegation is checked before the market is.                     *)
MutantLateSteps(c) ==
  CASE c.tier = 0 -> <<>>
    [] c.tier = 1 -> <<"asset_truth", "attestation">>
    [] c.tier = 2 -> <<"delegation", "asset_truth", "attestation">>
(* Steps 8 to 10, as far as the tier goes.                                 *)
LateSteps(c) ==
  CASE c.tier = 0 -> <<>>
    [] c.tier = 1 -> <<"asset_truth", "attestation">>
    [] c.tier = 2 -> <<"asset_truth", "attestation", "delegation">>

(* The history variables: who was refused, and whether the store was out   *)
(* of sync, at entry and at every state since.                             *)
Watch ==
  /\ barred' = [r \in Requests |->
       {s \in (IF pc[r] = "idle" THEN Subjects ELSE barred[r]) :
          pc'[r] # "idle" /\ Live(s)'}]
  /\ outdated' = [r \in Requests |->
       pc'[r] # "idle" /\ (pc[r] = "idle" \/ outdated[r]) /\ Stale']

Goto(r, to) == pc' = [pc EXCEPT ![r] = to]

Refuse(r, v) == verdict' = [verdict EXCEPT ![r] = v]

(* fail_authenticated: release_amount and record_intent are still to come. *)
FailAuthenticated(r, v) == Goto(r, "release") /\ Refuse(r, v)

-----------------------------------------------------------------------------
(* Entry: `now` is read, and checks 1 to 4 decide without shared state.    *)

Receive(r, c, to) ==
  /\ pc[r] = "idle"
  /\ Goto(r, to)
  /\ call' = [call EXCEPT ![r] = c]
  /\ now' = [now EXCEPT ![r] = clock]
  /\ UNCHANGED <<clock, storeVars, trustVars, reserved>> /\ Watch

(* Mutant: a forged or expired envelope counts against the agent it names. *)
MutantReject(r, c) ==
  /\ pc[r] = "idle"
  /\ Goto(r, "done")
  /\ call' = [call EXCEPT ![r] = c]
  /\ now' = [now EXCEPT ![r] = clock]
  /\ RecordIntent(c.agent, FALSE)
  /\ UNCHANGED <<clock, storeVars, reserved>> /\ Watch
  /\ \E i \in 1..Len(EarlySteps) :
       StopsAt(EarlySteps, c, clock, i) /\ Refuse(r, EarlySteps[i])
Reject(r, c) ==
  /\ Receive(r, c, "done")
  /\ \E i \in 1..Len(EarlySteps) :
       StopsAt(EarlySteps, c, clock, i) /\ Refuse(r, EarlySteps[i])

Authenticate(r, c) ==
  /\ Receive(r, c, "attest")
  /\ PassesAll(EarlySteps, c, clock)
  /\ UNCHANGED verdict

Attest(r) ==
  /\ pc[r] = "attest"
  /\ Goto(r, "depth")
  /\ RecordAttestation(call[r].agent, call[r].build, call[r].prompt)
  /\ UNCHANGED <<clock, storeVars, call, now, reserved, verdict>> /\ Watch

Depth(r) ==
  /\ pc[r] = "depth"
  /\ RecordDepth(call[r].agent, call[r].depth)
  /\ \/ "nonce_format" \in call[r].flaws /\ FailAuthenticated(r, "nonce_format")
     \/ "nonce_format" \notin call[r].flaws /\ Goto(r, "nonce") /\ UNCHANGED verdict
  /\ UNCHANGED <<clock, storeVars, call, now, reserved>> /\ Watch

SpendNonceOf(r) ==
  /\ pc[r] = "nonce"
  /\ CheckNonce(call[r].nonce)
  /\ \/ ~NonceIsNew(call[r].nonce) /\ FailAuthenticated(r, "replay")
     \/ NonceIsNew(call[r].nonce) /\ Goto(r, "reserve") /\ UNCHANGED verdict
  /\ UNCHANGED <<clock, trustVars, call, now, reserved>> /\ Watch

(* Step 6: the reservation and the boundary check computed from the same   *)
(* total.  Without an amount the ledger is only pruned.                    *)
FitsLimit(r) ==
  LET c == call[r] IN Fits(c.agent, c.amount, c.perDay, now[r])

WithinBoundaries(r) ==
  "boundaries" \notin call[r].flaws /\ (HasAmount(call[r]) => FitsLimit(r))

Reserve(r) ==
  /\ pc[r] = "reserve"
  /\ LET c == call[r] IN
       IF HasAmount(c)
         THEN ReserveAmount(c.agent, r, c.amount, c.perDay, now[r])
         ELSE DayTotal(c.agent, now[r])
  /\ reserved' = [reserved EXCEPT ![r] = HasAmount(call[r]) /\ FitsLimit(r)]
  /\ Goto(r, IF WithinBoundaries(r) THEN "freshness" ELSE "violation")
  /\ UNCHANGED <<clock, storeVars, call, now, verdict>> /\ Watch

Violation(r) ==
  /\ pc[r] = "violation"
  /\ FailAuthenticated(r, "boundaries")
  /\ RecordViolation(call[r].agent)
  /\ UNCHANGED <<clock, storeVars, call, now, reserved>> /\ Watch

-----------------------------------------------------------------------------
(* Step 7 and, once it has passed, what the tier still asks for.           *)

(* Mutant: forgets that the store was asked how fresh it is.               *)
MutantFreshness(r) ==
  /\ pc[r] = "freshness"
  /\ Goto(r, "agent") /\ UNCHANGED verdict
  /\ UNCHANGED <<clock, storeVars, trustVars, call, now, reserved>> /\ Watch
Freshness(r) ==
  /\ pc[r] = "freshness"
  /\ \/ Stale /\ FailAuthenticated(r, "stale")
     \/ ~Stale /\ Goto(r, "agent") /\ UNCHANGED verdict
  /\ UNCHANGED <<clock, storeVars, trustVars, call, now, reserved>> /\ Watch

MeetsMarket(r) ==
  LET c == call[r]
      steps == LateSteps(c)
  IN  \/ \E i \in 1..Len(steps) :
           StopsAt(steps, c, now[r], i) /\ FailAuthenticated(r, steps[i])
      \/ /\ PassesAll(steps, c, now[r])
         /\ Goto(r, IF c.tier = 2 /\ MinTrust > 0 THEN "trust" ELSE "succeed")
         /\ UNCHANGED verdict

(* Mutant: Tier 0 leaves before the kill switch is read.                   *)
MutantCheckAgent(r) ==
  /\ pc[r] = "agent"
  /\ ReadStanding(call[r].agent)
  /\ \/ /\ Live(call[r].agent) /\ call[r].tier > 0
        /\ Goto(r, "suspended") /\ UNCHANGED verdict
     \/ /\ ~(Live(call[r].agent) /\ call[r].tier > 0)
        /\ IF call[r].issuer # NoIssuer
             THEN Goto(r, "issuer") /\ UNCHANGED verdict
             ELSE MeetsMarket(r)
  /\ UNCHANGED <<clock, trustVars, call, now, reserved>> /\ Watch
CheckAgent(r) ==
  /\ pc[r] = "agent"
  /\ ReadStanding(call[r].agent)
  /\ \/ Live(call[r].agent) /\ Goto(r, "suspended") /\ UNCHANGED verdict
     \/ /\ ~Live(call[r].agent)
        /\ IF call[r].issuer # NoIssuer
             THEN Goto(r, "issuer") /\ UNCHANGED verdict
             ELSE MeetsMarket(r)
  /\ UNCHANGED <<clock, trustVars, call, now, reserved>> /\ Watch

(* Mutant: the code is picked from the bare record, lapsed or gone or not. *)
MutantCheckSuspended(r) ==
  /\ pc[r] = "suspended"
  /\ FailAuthenticated(r, records[call[r].agent].standing)
  /\ UNCHANGED <<clock, storeVars, trustVars, call, now, reserved>> /\ Watch
(* A second look-up picks the code, and may find what the first did not.   *)
CheckSuspended(r) ==
  /\ pc[r] = "suspended"
  /\ ReadStanding(call[r].agent)
  /\ FailAuthenticated(r,
       IF LiveSuspension(call[r].agent) THEN "suspended" ELSE "revoked")
  /\ UNCHANGED <<clock, trustVars, call, now, reserved>> /\ Watch

CheckIssuer(r) ==
  /\ pc[r] = "issuer"
  /\ ReadStanding(call[r].issuer)
  /\ \/ Live(call[r].issuer) /\ FailAuthenticated(r, "issuer")
     \/ ~Live(call[r].issuer) /\ MeetsMarket(r)
  /\ UNCHANGED <<clock, trustVars, call, now, reserved>> /\ Watch

CheckTrust(r) ==
  /\ pc[r] = "trust"
  /\ \/ ~MeetsThreshold(call[r].agent, MinTrust) /\ FailAuthenticated(r, "trust")
     \/ MeetsThreshold(call[r].agent, MinTrust) /\ Goto(r, "succeed") /\ UNCHANGED verdict
  /\ UNCHANGED <<clock, storeVars, trustVars, call, now, reserved>> /\ Watch

-----------------------------------------------------------------------------
(* Exit.                                                                   *)

(* Mutant: a reservation is kept when a later step refuses the request.    *)
MutantRelease(r) ==
  /\ pc[r] = "release"
  /\ Goto(r, "failure")
  /\ UNCHANGED <<clock, trustVars, storeVars, call, now, reserved, verdict>> /\ Watch
Release(r) ==
  /\ pc[r] = "release"
  /\ Goto(r, "failure")
  /\ IF reserved[r] THEN ReleaseAmount(call[r].agent, r) ELSE UNCHANGED trustVars
  /\ UNCHANGED <<clock, storeVars, call, now, reserved, verdict>> /\ Watch

RecordFailure(r) ==
  /\ pc[r] = "failure"
  /\ Goto(r, "done")
  /\ RecordIntent(call[r].agent, FALSE)
  /\ UNCHANGED <<clock, storeVars, call, now, reserved, verdict>> /\ Watch

Succeed(r) ==
  /\ pc[r] = "succeed"
  /\ Goto(r, "done")
  /\ RecordIntent(call[r].agent, TRUE)
  /\ verdict' = [verdict EXCEPT ![r] = "allow"]
  /\ UNCHANGED <<clock, storeVars, call, now, reserved>> /\ Watch

Step(r) ==
  \/ Attest(r) \/ Depth(r) \/ SpendNonceOf(r) \/ Reserve(r) \/ Violation(r)
  \/ Freshness(r) \/ CheckAgent(r) \/ CheckSuspended(r) \/ CheckIssuer(r)
  \/ CheckTrust(r) \/ Release(r) \/ RecordFailure(r) \/ Succeed(r)

(* The operator's orders, at any moment of any request.                    *)
Operate(s) ==
  /\ Revoke(s) \/ Reinstate(s) \/ \E d \in Durations : Suspend(s, d)
  /\ UNCHANGED <<clock, trustVars, requestVars>> /\ Watch

Synchronise ==
  ~LocalOnly /\ TouchSync /\ UNCHANGED <<clock, trustVars, requestVars>> /\ Watch

Pass == Tick /\ UNCHANGED <<storeVars, trustVars, requestVars>> /\ Watch

Next ==
  \/ Pass
  \/ Synchronise
  \/ \E s \in Targets : Operate(s)
  \/ \E r \in Requests :
       \/ \E c \in Calls : Reject(r, c) \/ Authenticate(r, c)
       \/ Step(r)

Spec == Init /\ [][Next]_vars

-----------------------------------------------------------------------------
(* Properties.                                                             *)

Done(r) == pc[r] = "done"
Allowed(r) == Done(r) /\ verdict[r] = "allow"

(* A reservation is held from step 6 until fail_authenticated releases it, *)
(* and for good once the request is allowed.                               *)
Holding(r) ==
  /\ reserved[r]
  /\ \/ pc[r] \in {"violation", "freshness", "agent", "suspended", "issuer",
                    "trust", "succeed", "release"}
     \/ Allowed(r)

EntryOf(r) == [token |-> r, at |-> now[r], amount |-> call[r].amount]

PastReserve(q) == pc[q] \notin {"idle", "attest", "depth", "nonce", "reserve"}

(* "Never recorded eagerly on a request that never executes, never lost on *)
(* a request that does" (verification.py, above ledger_token): the ledger  *)
(* holds nothing but the amounts of requests still deciding or allowed,    *)
(* and it holds all of them, short of those a request a day later pruned.  *)
ReservationAccounted ==
  /\ \A a \in Agents : \A e \in ledger[a] :
       \E r \in Requests : Holding(r) /\ call[r].agent = a /\ e = EntryOf(r)
  /\ \A r \in Requests : Holding(r) =>
       \/ EntryOf(r) \in ledger[call[r].agent]
       \/ \E q \in Requests :
            PastReserve(q) /\ call[q].agent = call[r].agent /\ now[q] >= now[r] + Day

(* No interleaving of requests for one agent takes its ledger above all    *)
(* the per-day limits its entries were signed with: the total is within    *)
(* at least one of them, or an entry has none (reserve_amount is atomic;   *)
(* limits may differ from call to call).                                   *)
LedgerWithinLimit ==
  \A a \in Agents : ledger[a] # {} =>
    \E e \in ledger[a] :
      call[e.token].perDay = 0 \/ Total(ledger[a]) <= call[e.token].perDay

Authenticated(r) ==
  Done(r) /\ ~\E i \in 1..Len(EarlySteps) : verdict[r] = EarlySteps[i]

(* Once no request is in flight, the history an agent is scored by counts  *)
(* exactly its authenticated requests, the allowed and the violating ones: *)
(* none is lost or counted twice, and none an unauthenticated caller sent. *)
HistoryMatchesVerdicts ==
  (\A r \in Requests : pc[r] \in {"idle", "done"}) =>
    \A a \in Agents :
      LET mine == {r \in Requests : Authenticated(r) /\ call[r].agent = a}
      IN  /\ history[a].total = Cardinality(mine)
          /\ history[a].successful = Cardinality({r \in mine : Allowed(r)})
          /\ history[a].violations = Cardinality({r \in mine : verdict[r] = "boundaries"})

(* _STEPS, in the order the module declares as its API.                    *)
StepOrder ==
  <<"version", "schema", "expiry", "clock_skew", "signature", "nonce_format",
    "replay", "boundaries", "revocation", "asset_truth", "attestation",
    "delegation", "trust">>

Position(step) == CHOOSE i \in 1..Len(StepOrder) : StepOrder[i] = step
StepOf(v) == IF v \in RevocationVerdicts THEN "revocation" ELSE v

LastPosition(tier) ==
  Position(CASE tier = 0 -> "revocation" [] tier = 1 -> "attestation" [] tier = 2 -> "trust")

(* "The returned code names the most fundamental problem" (module          *)
(* docstring): no request is refused at a step while it fails an earlier   *)
(* one, and none is allowed while it fails one its tier asks for.          *)
MostFundamentalReported ==
  \A r \in Requests : Done(r) =>
    \A i \in 1..Len(StepOrder) :
      Fails(call[r], StepOrder[i], now[r]) =>
        IF Allowed(r) THEN i > LastPosition(call[r].tier)
        ELSE i >= Position(StepOf(verdict[r]))

(* The kill switch holds at every tier: a request is never allowed if its  *)
(* agent or its issuer stood revoked or suspended from its arrival to the  *)
(* answer, nor if the store was out of sync all that time, whichever       *)
(* requests, orders and synchronisations come in between (step 7).         *)
BarredNeverAllowed ==
  \A r \in Requests : Allowed(r) =>
    /\ call[r].agent \notin barred[r]
    /\ call[r].issuer \notin barred[r]
    /\ ~outdated[r]

(* "Replay of a spent nonce is rejected" (the design's test list): no two  *)
(* allowed requests carry one nonce.  The code breaks this: a nonce is     *)
(* retained for the longest span, an envelope is accepted for Grace more.  *)
EnvelopeAllowedOnce ==
  \A r, q \in Requests :
    Allowed(r) /\ Allowed(q) /\ call[r].nonce = call[q].nonce => r = q

(* r was told that its nonce is new, whatever became of it afterwards.     *)
SpentNonce(r) ==
  /\ pc[r] \notin {"idle", "attest", "depth", "nonce"}
  /\ verdict[r] \notin {"version", "schema", "expiry", "clock_skew", "signature",
                        "nonce_format", "replay"}

(* What is left of that: however requests interleave, no two are told that *)
(* the same nonce is new within a retention period of when the first of    *)
(* them arrived, unless more spent one than the cache holds (check_nonce,  *)
(* called by verify_intent with a time of its own, later than `now`).      *)
NonceSpentOncePerRetention ==
  Cardinality({p \in Requests : SpentNonce(p)}) <= MaxNonces =>
    \A r, q \in Requests :
      SpentNonce(r) /\ SpentNonce(q) /\ r # q /\ call[r].nonce = call[q].nonce =>
        now[r] + NonceTTL <= clock \/ now[q] + NonceTTL <= clock

(* The amounts allowed to an agent in the day up to `now[r]`.              *)
DaySpend(r) ==
  Total({EntryOf(q) : q \in {q \in Requests :
    /\ Allowed(q) /\ HasAmount(call[q]) /\ call[q].agent = call[r].agent
    /\ now[q] <= now[r] /\ now[q] + Day > now[r]}})

(* Two requests "can never both observe a stale total and together exceed  *)
(* the limit" (docs/ARCHITECTURE.md).  The code breaks this: a request     *)
(* whose `now` is a day later prunes what a slower one must still count.   *)
RollingLimitHolds ==
  \A r \in Requests :
    Allowed(r) /\ HasAmount(call[r]) /\ call[r].perDay > 0 =>
      DaySpend(r) <= call[r].perDay
=============================================================================
