------------------------------ MODULE Gateway ------------------------------
(***************************************************************************)
(* gateway/server.py, proxy.py, keys.py and attestations.py: the service   *)
(* around verify_intent.  Its handlers are coroutines of one event loop,   *)
(* so a handler runs to its next await without another one in between:     *)
(* post_intent yields while the oracle is asked and while an allowed       *)
(* intent is forwarded, the admin handlers never.  Only time passes during *)
(* a handler.                                                              *)
(*                                                                         *)
(* Everything but the signing key and the claims lives in the memory of    *)
(* the process, and a restart loses it.                                    *)
(***************************************************************************)
EXTENDS VerifyIntent

CONSTANTS
  Keys, NoKey,    \* public keys; no key registered
  Frameworks, NoFramework, NoAgent,
  Envelopes,      \* what clients send
  Bodies,         \* what administrators send to register hashes
  MaxRestarts,    \* bound on restarts
  MaxOrders       \* bound on them and the calls of other admin routes than Register

(* `of` carries the claim of the registry for its asset: NoIssuer if it    *)
(* has none.  `mapped`: the claim's tenor is one the oracle knows.         *)
(* `byRegistry`: the attestation's method is FRAMEWORK_REGISTRY.           *)
Envelope ==
  [of : Call, signedBy : Keys, mapped : BOOLEAN, downstream : BOOLEAN,
   byRegistry : BOOLEAN, framework : Frameworks \cup {NoFramework}]

(* AttestationHashRegistration: every field may be missing.                *)
Body ==
  [framework : Frameworks \cup {NoFramework}, build : Hashes \cup {NoHash},
   agent : Agents \cup {NoAgent}, prompt : Hashes \cup {NoHash}]

(* The call of verify_intent an envelope becomes: no claim at Tier 0.      *)
Verified(e, publicKey, observed, attested) ==
  [e.of EXCEPT
     !.issuer = IF e.of.tier = 0 THEN NoIssuer ELSE @,
     !.flaws = @ \cup (IF e.signedBy = publicKey THEN {} ELSE {"signature"})
                 \cup (IF observed THEN {} ELSE {"asset_truth"})
                 \cup (IF attested THEN {} ELSE {"attestation"})]

ASSUME GatewayAssumption ==
  /\ Envelopes # {} /\ Envelopes \subseteq Envelope
  /\ \A e \in Envelopes, k \in Keys, observed, attested \in BOOLEAN :
       Verified(e, k, observed, attested) \in Calls
  /\ \A e \in Envelopes : "attestation" \notin e.of.flaws  \* left to Attested
  /\ Bodies \subseteq Body
  /\ LocalOnly                       \* RevocationStore() has no upstream
  /\ NoKey \notin Keys /\ NoFramework \notin Frameworks /\ NoAgent \notin Agents
  /\ {MaxOrders, MaxRestarts} \subseteq Nat

VARIABLES
  at,           \* where the handler of a request is
  env, key,     \* its envelope, and the public key it looked up
  answer,       \* what the client got
  posted,       \* requests sent to the downstream service
  dealt,        \* requests it has dealt with, whether its reply arrives or not
  keys,         \* agent_keys
  frameworks, buildHashes, promptHashes,   \* attestations
  orders, restarts

handlerVars == <<at, env, key, answer>>
downstreamVars == <<posted, dealt>>
attestationVars == <<frameworks, buildHashes, promptHashes>>
registryVars == <<keys, attestationVars>>
boundVars == <<orders, restarts>>
verifyVars == <<clock, storeVars, trustVars, requestVars, barred, outdated>>
gatewayVars == <<verifyVars, handlerVars, downstreamVars, registryVars, boundVars>>

Places == {"new", "oracle", "verifying", "forwarding", "answered", "lost"}
Answers ==
  {"none", "no_key", "tenor", "denied", "attested", "forwarded", "unreachable",
   "error"}

GatewayTypeOK ==
  /\ TypeOK
  /\ at \in [Requests -> Places]
  /\ env \in [Requests -> Envelopes]
  /\ key \in [Requests -> Keys \cup {NoKey}]
  /\ answer \in [Requests -> Answers]
  /\ posted \in SUBSET Requests /\ dealt \in SUBSET Requests
  /\ keys \in [Agents -> Keys \cup {NoKey}]
  /\ frameworks \in SUBSET Frameworks
  /\ buildHashes \in [Frameworks -> Hashes \cup {NoHash}]
  /\ promptHashes \in [Agents -> Hashes \cup {NoHash}]
  /\ orders \in Nat /\ restarts \in Nat

(* Before it arrives a request's envelope is an arbitrary one.             *)
GatewayInit ==
  /\ Init
  /\ at = [r \in Requests |-> "new"]
  /\ env = [r \in Requests |-> CHOOSE e \in Envelopes : TRUE]
  /\ key = [r \in Requests |-> NoKey]
  /\ answer = [r \in Requests |-> "none"]
  /\ posted = {} /\ dealt = {}
  /\ keys = [a \in Agents |-> NoKey]
  /\ frameworks = {}
  /\ buildHashes = [f \in Frameworks |-> NoHash]
  /\ promptHashes = [a \in Agents |-> NoHash]
  /\ orders = 0 /\ restarts = 0

-----------------------------------------------------------------------------
(* Mutant: handlers that are plain functions run in a thread pool.         *)
MutantBusy == FALSE
(* The event loop is inside post_intent.                                   *)
Busy == \E r \in Requests : at[r] = "verifying"

Enter(r, place) == at' = [at EXCEPT ![r] = place]

Respond(r, what) ==
  /\ Enter(r, "answered")
  /\ answer' = [answer EXCEPT ![r] = what]

(* A hash counts if both the envelope and the registry have one.           *)
Agree(presented, registered) ==
  presented = NoHash \/ registered = NoHash \/ presented = registered

(* Mutant: the hashes are compared only of who does not use the registry.  *)
MutantAttested(e) ==
  \/ e.byRegistry /\ e.framework \in frameworks
  \/ /\ ~e.byRegistry
     /\ e.framework # NoFramework => Agree(e.of.build, buildHashes[e.framework])
     /\ Agree(e.of.prompt, promptHashes[e.of.agent])
(* Step 9, on what is registered when verify_intent is called.             *)
Attested(e) ==
  /\ e.byRegistry => e.framework \in frameworks
  /\ e.framework # NoFramework => Agree(e.of.build, buildHashes[e.framework])
  /\ Agree(e.of.prompt, promptHashes[e.of.agent])

(* verify_intent is called in the step that the lookups end in.            *)
Verify(r, e, publicKey, observed) ==
  /\ LET c == Verified(e, publicKey, observed, Attested(e)) IN Reject(r, c) \/ Authenticate(r, c)
  /\ Enter(r, "verifying")
  /\ UNCHANGED answer

(* The registered key is looked up before anything is awaited.             *)
Arrive(r, e) ==
  LET publicKey == keys[e.of.agent]
      asksOracle == e.of.tier # 0 /\ e.of.issuer # NoIssuer
  IN  /\ ~Busy /\ at[r] = "new"
      /\ env' = [env EXCEPT ![r] = e]
      /\ key' = [key EXCEPT ![r] = publicKey]
      /\ \/ publicKey = NoKey /\ Respond(r, "no_key") /\ UNCHANGED verifyVars
         \/ /\ publicKey # NoKey /\ asksOracle
            /\ IF e.mapped THEN Enter(r, "oracle") /\ UNCHANGED answer
                           ELSE Respond(r, "tenor")
            /\ UNCHANGED verifyVars
         \/ /\ publicKey # NoKey /\ ~asksOracle
            /\ Verify(r, e, publicKey, TRUE)
      /\ UNCHANGED <<downstreamVars, registryVars, boundVars>>

(* The oracle answers, with an observation or with None; at once if it has *)
(* one in its cache.                                                       *)
Resume(r) ==
  /\ ~Busy /\ at[r] = "oracle"
  /\ \E observed \in BOOLEAN : Verify(r, env[r], key[r], observed)
  /\ UNCHANGED <<env, key, downstreamVars, registryVars, boundVars>>

(* verify_intent goes on: nothing else runs until it has returned.         *)
Proceed(r) ==
  /\ Step(r)
  /\ UNCHANGED <<handlerVars, downstreamVars, registryVars, boundVars>>

(* The downstream URL is the client's, any text.  httpx.InvalidURL is not  *)
(* among what forward catches: the handler ends in an error before         *)
(* anything is sent, and the attestation signed for it reaches nobody.     *)
Conclude(r) ==
  /\ at[r] = "verifying" /\ Done(r)
  /\ \/ ~Allowed(r) /\ Respond(r, "denied") /\ UNCHANGED posted
     \/ /\ Allowed(r) /\ ~env[r].downstream
        /\ Respond(r, "attested") /\ UNCHANGED posted
     \/ /\ Allowed(r) /\ env[r].downstream
        /\ \/ Enter(r, "forwarding") /\ posted' = posted \cup {r} /\ UNCHANGED answer
           \/ Respond(r, "error") /\ UNCHANGED posted
  /\ UNCHANGED <<verifyVars, env, key, dealt, registryVars, boundVars>>

-----------------------------------------------------------------------------
(* Forwarding.  The service may deal with what was sent at any time, even  *)
(* after the gateway has given up on it, or never.                         *)

Deal(r) ==
  /\ r \in posted \ dealt
  /\ dealt' = dealt \cup {r}
  /\ UNCHANGED <<verifyVars, handlerVars, posted, registryVars, boundVars>>

Forwarded(r) ==
  /\ ~Busy /\ at[r] = "forwarding" /\ r \in dealt
  /\ Respond(r, "forwarded")
  /\ UNCHANGED <<verifyVars, env, key, downstreamVars, registryVars, boundVars>>

(* Mutant: without a timeout, only a broken reply ends the wait.           *)
MutantUnreachable(r) ==
  /\ ~Busy /\ at[r] = "forwarding" /\ r \in dealt
  /\ Respond(r, "unreachable")
  /\ UNCHANGED <<verifyVars, env, key, downstreamVars, registryVars, boundVars>>
(* Mutant: what could not be delivered is taken off the ledger.            *)
MutantUnreachableRefunds(r) ==
  /\ ~Busy /\ at[r] = "forwarding"
  /\ Respond(r, "unreachable")
  /\ ReleaseAmount(call[r].agent, r)
  /\ UNCHANGED <<clock, storeVars, requestVars, barred, outdated>>
  /\ UNCHANGED <<env, key, downstreamVars, registryVars, boundVars>>
(* Any transport error, a timeout included: the reservation stays.         *)
Unreachable(r) ==
  /\ ~Busy /\ at[r] = "forwarding"
  /\ Respond(r, "unreachable")
  /\ UNCHANGED <<verifyVars, env, key, downstreamVars, registryVars, boundVars>>

-----------------------------------------------------------------------------
(* Admin routes.                                                           *)

(* Mutant: registering again replaces the key.                             *)
MutantRegister(a, k) ==
  /\ ~Busy
  /\ keys' = [keys EXCEPT ![a] = k]
  /\ UNCHANGED <<verifyVars, handlerVars, downstreamVars, attestationVars, boundVars>>
(* A key once registered stays: the second attempt is a conflict.          *)
Register(a, k) ==
  /\ ~Busy /\ keys[a] = NoKey
  /\ keys' = [keys EXCEPT ![a] = k]
  /\ UNCHANGED <<verifyVars, handlerVars, downstreamVars, attestationVars, boundVars>>

Administer ==
  /\ ~Busy
  /\ orders + restarts < MaxOrders /\ orders' = orders + 1
  /\ UNCHANGED <<clock, requestVars, handlerVars, downstreamVars, keys, restarts>>

RegisterFramework(f) ==
  /\ Administer
  /\ frameworks' = frameworks \cup {f}
  /\ UNCHANGED <<storeVars, trustVars, barred, outdated, buildHashes, promptHashes>>

(* Half a pair is ignored, and a request with no pair at all refused.      *)
HasBuild(b) == b.framework # NoFramework /\ b.build # NoHash
HasPrompt(b) == b.agent # NoAgent /\ b.prompt # NoHash

RegisterHashes(b) ==
  /\ Administer
  /\ HasBuild(b) \/ HasPrompt(b)
  /\ buildHashes' = [f \in Frameworks |->
       IF HasBuild(b) /\ f = b.framework THEN b.build ELSE buildHashes[f]]
  /\ promptHashes' = [a \in Agents |->
       IF HasPrompt(b) /\ a = b.agent THEN b.prompt ELSE promptHashes[a]]
  /\ UNCHANGED <<storeVars, trustVars, barred, outdated, frameworks>>

(* The revocation is counted against an agent, with the order.             *)
CreateRevocation(s) ==
  /\ Administer
  /\ Revoke(s) \/ \E d \in Durations : Suspend(s, d)
  /\ IF s \in Agents THEN RecordRevocation(s) ELSE UNCHANGED trustVars
  /\ UNCHANGED attestationVars /\ Watch

DeleteRevocation(s) ==
  Administer /\ Reinstate(s) /\ UNCHANGED <<trustVars, attestationVars>> /\ Watch

-----------------------------------------------------------------------------
TimePasses ==
  Pass /\ UNCHANGED <<handlerVars, downstreamVars, registryVars, boundVars>>

(* The process dies, in the middle of anything, and comes back empty.      *)
Restart ==
  /\ restarts < MaxRestarts /\ orders + restarts < MaxOrders
  /\ restarts' = restarts + 1
  /\ records' = [s \in Subjects |-> Unrecorded]
  /\ nonces' = <<>> /\ lastSync' = clock
  /\ history' = [a \in Agents |-> NewHistory]
  /\ ledger' = [a \in Agents |-> {}]
  /\ keys' = [a \in Agents |-> NoKey]
  /\ frameworks' = {}
  /\ buildHashes' = [f \in Frameworks |-> NoHash]
  /\ promptHashes' = [a \in Agents |-> NoHash]
  /\ pc' = [r \in Requests |-> "idle"]
  /\ reserved' = [r \in Requests |-> FALSE]
  /\ verdict' = [r \in Requests |-> "none"]
  /\ barred' = [r \in Requests |-> {}]
  /\ outdated' = [r \in Requests |-> FALSE]
  /\ at' = [r \in Requests |->
       IF at[r] \in {"new", "answered"} THEN at[r] ELSE "lost"]
  /\ UNCHANGED <<clock, call, now, env, key, answer, downstreamVars, orders>>

GatewayNext ==
  \/ TimePasses
  \/ Restart
  \/ \E a \in Agents, k \in Keys : Register(a, k)
  \/ \E s \in Targets : CreateRevocation(s) \/ DeleteRevocation(s)
  \/ \E f \in Frameworks : RegisterFramework(f)
  \/ \E b \in Bodies : RegisterHashes(b)
  \/ \E r \in Requests :
       \/ \E e \in Envelopes : Arrive(r, e)
       \/ Resume(r) \/ Proceed(r) \/ Conclude(r)
       \/ Deal(r) \/ Forwarded(r) \/ Unreachable(r)

GatewaySpec == GatewayInit /\ [][GatewayNext]_gatewayVars

(* A handler goes on from where it is: the event loop runs what is ready,  *)
(* every look-up of the oracle ends (module Oracle), and forwarding ends   *)
(* in a reply or in its timeout, which is one of every read and not of the *)
(* whole: the other side is assumed not to trickle its reply for ever.     *)
(* One of the three is possible at a time.                                 *)
GatewayFairness ==
  \A r \in Requests :
    WF_gatewayVars(\/ Proceed(r) \/ Conclude(r)
                   \/ Resume(r)
                   \/ Forwarded(r) \/ Unreachable(r))

FairGatewaySpec == GatewaySpec /\ GatewayFairness

-----------------------------------------------------------------------------
(* Properties of one life of the process.                                  *)

(* A request is allowed only if its envelope is signed with the key that   *)
(* its agent has registered now, although the key was looked up before the *)
(* oracle was awaited (post_intent, AgentKeyRegistry.register).            *)
VerifiedUnderRegisteredKey ==
  \A r \in Requests : Allowed(r) => env[r].signedBy = keys[env[r].of.agent]

(* An order of the operator stops every request decided after it, also one *)
(* that arrived before it and waited for the oracle: no request is allowed *)
(* while its agent, or the issuer verify_intent was told of, stands        *)
(* revoked or suspended (create_revocation, post_intent).                  *)
RevocationTakesEffect ==
  [][\A r \in Requests : Allowed(r)' /\ ~Allowed(r) =>
       \A s \in Subjects \cap {call[r].agent, call[r].issuer} : ~Live(s)]_gatewayVars

(* Above Tier 0 no request is allowed on an attestation that contradicts   *)
(* what is registered by then, however long it waited for the oracle: not  *)
(* for a framework it claims, nor with a hash that has been replaced       *)
(* (register_framework, register_attestation_hash, post_intent).           *)
AttestationTakesEffect ==
  [][\A r \in Requests : Allowed(r)' /\ ~Allowed(r) /\ env[r].of.tier > 0 =>
       /\ env[r].byRegistry => env[r].framework \in frameworks
       /\ \A f \in Frameworks, h \in Hashes :
            env[r].framework = f /\ buildHashes[f] = h => env[r].of.build \in {h, NoHash}
       /\ \A h \in Hashes :
            promptHashes[env[r].of.agent] = h => env[r].of.prompt \in {h, NoHash}
  ]_gatewayVars

(* Every request that arrives is answered, unless the process dies first,  *)
(* and stays so, which for requests that arrive once says that none hangs: *)
(* neither the oracle, the downstream service nor other requests can hold  *)
(* it up for good (post_intent, forward).                                  *)
EveryRequestAnswered ==
  <>[](\A r \in Requests : at[r] \in {"new", "answered", "lost"})

(* Requests reach the ledger in the order in which they read the clock, so *)
(* none prunes what a slower one must still count: what breaks             *)
(* RollingLimitHolds among threads cannot happen on one event loop         *)
(* (post_intent, reserve_amount).                                          *)
ReservesInClockOrder ==
  \A r, q \in Requests :
    pc[r] \in {"attest", "depth", "nonce", "reserve"} /\ PastReserve(q)
      => now[q] <= now[r]

(* The amounts of a set of requests fit the limit one of the latest of     *)
(* them was signed with.                                                   *)
FitTheLatest(W) ==
  \E q \in W :
    /\ \A p \in W : now[p] <= now[q]
    /\ call[q].perDay = 0 \/ Total({EntryOf(p) : p \in W}) <= call[q].perDay

AllowedInDay(a, t) ==
  {q \in Requests : /\ Allowed(q) /\ HasAmount(call[q]) /\ call[q].agent = a
                    /\ t <= now[q] /\ now[q] < t + Day}

(* What an agent is allowed in a day, whenever the day begins, stays       *)
(* within the per-day limit it signed last: the promise that concurrent    *)
(* threads break (RollingLimitHolds) is kept on one event loop, as long as *)
(* the process lives (post_intent, reserve_amount).                        *)
DayNeverExceedsLimit ==
  \A a \in Agents, t \in 0..clock :
    AllowedInDay(a, t) # {} => FitTheLatest(AllowedInDay(a, t))

GrantedNow ==
  {[request |-> r, call |-> call[r], signedBy |-> env[r].signedBy, at |-> now[r]] :
     r \in {q \in Requests : Allowed(q)}}

BarredNow == {s \in Subjects : Live(s)}
SpentNow == {r \in Requests : SpentNonce(r)}

Promise == INSTANCE Mandate
  WITH grants <- GrantedNow, spent <- SpentNow, barred <- BarredNow

(* The gateway keeps its promise (module Mandate): whatever it lets through *)
(* is signed with the agent's registered key, in force, sound for its tier, *)
(* for nobody barred, on a nonce not let through within its retention, and *)
(* within the day's limit together with everything else it has let through *)
(* (post_intent, verify_intent, the admin routes).                         *)
KeepsMandate == Promise!MandateSpec

(* "Issuer revocation is checked at every tier" (the design): no request   *)
(* is allowed while the issuer of its asset stood barred all through its   *)
(* verification.  At Tier 0 the gateway does not look up the claim.        *)
IssuerCheckedAtEveryTier ==
  \A r \in Requests : Allowed(r) => env[r].of.issuer \notin barred[r]
=============================================================================
