------------------------------- MODULE Shield -------------------------------
(***************************************************************************)
(* custos_protocol/shield.py, with create_envelope and select_tier: a      *)
(* function behind verify_intent.  A call of it builds an envelope, asks   *)
(* the caller's resolvers for claim and observation, is verified, and only *)
(* then runs the function.                                                 *)
(*                                                                         *)
(* Requests are calls, each on a thread of its own (or a task: a task      *)
(* yields less often).  The resolvers and the function are the user's:     *)
(* they take any time, may raise, and may never end.                       *)
(*                                                                         *)
(* protect may be given a RevocationStore and a TrustEngine, which all the *)
(* calls that were given them share, or neither, its default: then         *)
(* verify_intent makes an empty one of each for every call, and nothing is *)
(* carried over from one call to the next.  Both are modelled, side by     *)
(* side; one of the two objects given without the other is left out.       *)
(***************************************************************************)
EXTENDS VerifyIntent, AssetTruth

CONSTANTS
  Functions,         \* protected functions, with their arguments
  Claims, Observations,    \* what the resolvers may return
  TTL,               \* create_envelope's ttl
  NoTier

ValueMoving == {"borrow_against", "trade", "redeem"}

(* tier is protect's argument; permitted: within all boundaries of the     *)
(* passport that are not about amounts; shared: given store and engine.    *)
Function ==
  [agent : Agents, action : ValueMoving \cup {"read"}, amount : Nat \cup {NoAmount},
   perTransaction : Nat, perDay : Nat, permitted : BOOLEAN,
   tier : (0..2) \cup {NoTier}, resolves : BOOLEAN,
   onViolation : {"raise", "log", "silent"}, shared : BOOLEAN]

(* Mutant: small amounts are not verified against the market.              *)
MutantSelectTier(f) ==
  IF 2 * f.amount > f.perTransaction THEN 2 ELSE 0
(* Escalation by the share of the agent's own limit; 0 is no limit, an     *)
(* absent amount is no share.  protect never says cross_org.               *)
SelectTier(f) ==
  IF f.action \notin ValueMoving THEN 0
  ELSE IF f.perTransaction > 0 /\ 2 * f.amount > f.perTransaction THEN 2
  ELSE 1

WithinTransaction(f) == f.perTransaction > 0 => f.amount <= f.perTransaction

(* The signed envelope of call r, created at `at`, with its claim and      *)
(* observation, verified at t.                                             *)
Signed(r, f, at, c, o, t) ==
  [agent |-> f.agent, nonce |-> r, amount |-> f.amount, perDay |-> f.perDay,
   tier |-> IF f.tier = NoTier THEN SelectTier(f) ELSE f.tier,
   issued |-> at, expires |-> at + TTL,
   issuer |-> IF c = NoClaim THEN NoIssuer ELSE c.issuer,
   depth |-> 0, build |-> NoHash, prompt |-> NoHash,
   flaws |-> (IF f.permitted /\ WithinTransaction(f) THEN {} ELSE {"boundaries"})
      \cup (IF Plausible(c, o, t) THEN {} ELSE {"asset_truth"})]

ASSUME ShieldAssumption ==
  /\ Functions # {} /\ Functions \subseteq Function
  /\ Claims \subseteq ClaimRecord /\ Observations \subseteq ObservationRecord
  /\ NoClaim \notin Claims /\ NoObservation \notin Observations
  /\ Nonces = Requests           \* secrets.token_hex: a nonce of its own
  /\ Issuers \subseteq Subjects
  /\ DayLength = Day /\ Skew = Grace       \* both defaults are left alone
  /\ MinTrust = 0                          \* and so is min_trust_score
  /\ {StaleAfter, MaxObservationAge, DriftPercent, ZeroTolerance, BackingFloor}
       \subseteq Nat
  /\ {TTL, Precision} \subseteq Nat \ {0}
  /\ NoTier \notin 0..2
  /\ \A r \in Requests, f \in Functions, at, t \in 0..MaxClock,
        c \in Claims \cup {NoClaim}, o \in Observations \cup {NoObservation} :
          Signed(r, f, at, c, o, t) \in Calls

VARIABLES
  stage,      \* where each call is
  fn,         \* the function called
  created,    \* when its envelope was created
  evidence,   \* the claim and the observation its resolvers returned
  asked,      \* the time verify_intent read when it was entered
  granted,    \* what it said, of a call that shares nothing
  result      \* what its caller gets, once it is known

shieldVars == <<stage, fn, created, evidence, asked, granted, result>>

Stages == {"new", "resolving", "verifying", "running", "left"}
Results == {"none", "value", "nothing", "violation", "exception"}

ShieldTypeOK ==
  /\ stage \in [Requests -> Stages]
  /\ fn \in [Requests -> Functions]
  /\ created \in [Requests -> Nat]
  /\ evidence \in [Requests -> (Claims \cup {NoClaim}) \X (Observations \cup {NoObservation})]
  /\ asked \in [Requests -> Nat]
  /\ granted \in [Requests -> BOOLEAN]
  /\ result \in [Requests -> Results]

ShieldInit ==
  /\ stage = [r \in Requests |-> "new"]
  /\ fn = [r \in Requests |-> CHOOSE f \in Functions : TRUE]
  /\ created = [r \in Requests |-> 0]
  /\ evidence = [r \in Requests |-> <<NoClaim, NoObservation>>]
  /\ asked = [r \in Requests |-> 0]
  /\ granted = [r \in Requests |-> FALSE]
  /\ result = [r \in Requests |-> "none"]

-----------------------------------------------------------------------------
(* A call that ends forgets its locals.                                    *)
Leave(r, what) ==
  /\ stage' = [stage EXCEPT ![r] = "left"]
  /\ result' = [result EXCEPT ![r] = what]
  /\ created' = [created EXCEPT ![r] = 0]
  /\ evidence' = [evidence EXCEPT ![r] = <<NoClaim, NoObservation>>]
  /\ asked' = [asked EXCEPT ![r] = 0]
  /\ granted' = [granted EXCEPT ![r] = FALSE]

(* create_envelope and sign_envelope.                                      *)
Invoke(r, f) ==
  /\ stage[r] = "new"
  /\ stage' = [stage EXCEPT ![r] = "resolving"]
  /\ fn' = [fn EXCEPT ![r] = f]
  /\ created' = [created EXCEPT ![r] = clock]
  /\ UNCHANGED <<evidence, asked, granted, result>> /\ UNCHANGED vars

(* An observation is asked for only with a claim.                          *)
Found(f, c, o) ==
  /\ ~f.resolves => c = NoClaim
  /\ c = NoClaim => o = NoObservation

(* The resolvers have returned and verify_intent is entered with e.        *)
Submit(r, c, o) ==
  /\ stage[r] = "resolving" /\ Found(fn[r], c, o)
  /\ stage' = [stage EXCEPT ![r] = "verifying"]
  /\ evidence' = [evidence EXCEPT ![r] = <<c, o>>]
  /\ asked' = [asked EXCEPT ![r] = clock]
  /\ UNCHANGED <<fn, created, result>>

EnvelopeOf(r, c, o) == Signed(r, fn[r], created[r], c, o, clock)

(* With a store and an engine that others use too, its steps are those of  *)
(* VerifyIntent.                                                           *)
Entrust(r, c, o) ==
  /\ fn[r].shared /\ Submit(r, c, o)
  /\ LET e == EnvelopeOf(r, c, o) IN Reject(r, e) \/ Authenticate(r, e)
  /\ UNCHANGED granted

(* Over an empty store and an empty engine: no nonce has been spent and    *)
(* nobody is barred, the store is local and so never stale, and the day's  *)
(* total before the call is 0.                                             *)
PassesAlone(e, t) ==
  /\ PassesAll(EarlySteps, e, t)
  /\ e.flaws \cap {"nonce_format", "boundaries"} = {}
  /\ HasAmount(e) => e.perDay = 0 \/ e.amount <= e.perDay
  /\ PassesAll(LateSteps(e), e, t)

(* Nobody else can see the two objects: the pipeline is one step.          *)
EntrustAlone(r, c, o) ==
  /\ ~fn[r].shared /\ Submit(r, c, o)
  /\ granted' = [granted EXCEPT ![r] = PassesAlone(EnvelopeOf(r, c, o), clock)]
  /\ UNCHANGED vars

(* A resolver raises: the call is given up before it is verified.          *)
ResolverRaises(r) ==
  /\ stage[r] = "resolving" /\ fn[r].resolves
  /\ Leave(r, "exception")
  /\ UNCHANGED fn /\ UNCHANGED vars

Verifying(r) == Step(r) /\ UNCHANGED shieldVars

Answered(r) == fn[r].shared => Done(r)
Passed(r) == IF fn[r].shared THEN Allowed(r) ELSE granted[r]

(* CustosViolation, or None for the policies that do not raise.            *)
Block(r) ==
  /\ stage[r] = "verifying" /\ Answered(r) /\ ~Passed(r)
  /\ Leave(r, IF fn[r].onViolation = "raise" THEN "violation" ELSE "nothing")
  /\ UNCHANGED fn /\ UNCHANGED vars

(* Mutant: to log a violation is to let it happen.                         *)
MutantRun(r) ==
  /\ stage[r] = "verifying" /\ Answered(r) /\ (Passed(r) \/ fn[r].onViolation = "log")
  /\ stage' = [stage EXCEPT ![r] = "running"]
  /\ UNCHANGED <<fn, created, evidence, asked, granted, result>> /\ UNCHANGED vars
(* The function is called, once, with the arguments of the call.           *)
Run(r) ==
  /\ stage[r] = "verifying" /\ Answered(r) /\ Passed(r)
  /\ stage' = [stage EXCEPT ![r] = "running"]
  /\ UNCHANGED <<fn, created, evidence, asked, granted, result>> /\ UNCHANGED vars

(* Mutant: the amount is released when the function raises.                *)
MutantFinish(r) ==
  /\ stage[r] = "running"
  /\ UNCHANGED fn
  /\ \/ Leave(r, "value") /\ UNCHANGED vars
     \/ /\ Leave(r, "exception") /\ ReleaseAmount(call[r].agent, r)
        /\ UNCHANGED <<clock, storeVars, requestVars, barred, outdated>>
(* The function returns or raises; the amount stays reserved either way.   *)
Finish(r) ==
  /\ stage[r] = "running"
  /\ Leave(r, "value") \/ Leave(r, "exception")
  /\ UNCHANGED fn /\ UNCHANGED vars

ShieldStep(r) ==
  \/ \E f \in Functions : Invoke(r, f)
  \/ \E c \in Claims \cup {NoClaim}, o \in Observations \cup {NoObservation} :
       Entrust(r, c, o) \/ EntrustAlone(r, c, o)
  \/ ResolverRaises(r) \/ Verifying(r) \/ Block(r) \/ Run(r) \/ Finish(r)

(* Everything else: time and the operator.                                 *)
ShieldEnvironment ==
  (Pass \/ Synchronise \/ \E s \in Targets : Operate(s)) /\ UNCHANGED shieldVars

-----------------------------------------------------------------------------
(* "A value-moving action ... fails closed with UNKNOWN_ASSET rather than  *)
(* silently skipping the check" (shield.py): unless protect is given a     *)
(* tier, what moves value runs only on a claim and an observation that     *)
(* agree at the time of verification, whatever the amount, however long    *)
(* the resolvers took, and with shared objects or without.                 *)
MovesValue(r) == fn[r].action \in ValueMoving /\ fn[r].tier = NoTier

ValueMovesOnEvidence ==
  \A r \in Requests :
    LET c == evidence[r][1]
        o == evidence[r][2]
    IN  stage[r] = "running" /\ MovesValue(r) =>
          /\ c # NoClaim /\ o # NoObservation
          /\ asked[r] - StaleAfter <= c.attested /\ c.attested <= asked[r] + Skew
          /\ \/ 100 * Distance(c.yield, o.yield) <= DriftPercent * o.yield
             \/ o.yield = 0 /\ c.yield <= ZeroTolerance

(* "Exact Decimal arithmetic; the float cast is for reporting only"        *)
(* (drift.py, check 8): no value moves on a claim whose backing is short   *)
(* of the floor, by however little.  The code breaks this: the quotient is *)
(* rounded to a float before it is compared.                               *)
BackingCoversFloor ==
  \A r \in Requests :
    LET c == evidence[r][1]
    IN  stage[r] = "running" /\ MovesValue(r) =>
          100 * c.backing >= BackingFloor * c.liability

(* What a function that shares its engine may have moved counts against    *)
(* its agent's day, whether it is still running, has returned or has       *)
(* raised: the amount it was verified for is in the ledger until a request *)
(* a day later prunes it (verify before func in protect, and no release    *)
(* after it).  Without an engine there is no ledger that outlives a call,  *)
(* and what moved counts against nothing.                                  *)
MovedMoneyIsCounted ==
  \A r \in Requests :
    stage[r] \in {"running", "left"} /\ fn[r].shared /\ Allowed(r) /\ HasAmount(call[r]) =>
      \/ EntryOf(r) \in ledger[call[r].agent]
      \/ \E q \in Requests :
           PastReserve(q) /\ call[q].agent = call[r].agent /\ now[q] >= now[r] + Day
=============================================================================
