------------------------------- MODULE Market -------------------------------
(***************************************************************************)
(* claims/registry.py and what gateway/server.py does to it: the simulated *)
(* claims, and POST /v1/demo/sync, which aligns them with the market.  A   *)
(* sync looks up one tenor after the other and awaits each (YieldService), *)
(* along with other syncs.  Handlers share an event loop: one that has not *)
(* to wait is not interrupted.                                             *)
(***************************************************************************)
EXTENDS Clock, Yields, Drift

CONSTANTS
  Assets,       \* asset_ids of the seed
  Maturities,   \* the tenors they are of
  TenorOf,      \* underlying_tenor
  Lagging,      \* TKN-UST-3M-003
  Seed,         \* claimed_yield_bps of the seed
  YieldOf,      \* the yield of a tenor on a day, in basis points
  Syncs         \* calls of the route; <<s, t>> is the look-up of sync s for tenor t

Queries == Syncs \X Maturities

ASSUME MarketAssumption ==
  /\ LastDay \in Nat \ {0}
  /\ TenorOf \in [Assets -> Maturities] /\ Lagging \in Assets
  /\ Seed \in [Assets -> Nat]
  /\ YieldOf \in [Maturities -> [1..LastDay -> Nat]]

VARIABLES
  latest, status, about, given,    \* of the service
  claims,       \* claimed_yield_bps in the registry
  at, todo,     \* where a sync is, and the tenors it has no observation of
  source        \* history: the observation a claim was last aligned with

Quotes == INSTANCE YieldService WITH Lookups <- Queries, Tenors <- Maturities

serviceVars == <<latest, status, about, given>>
syncVars == <<claims, at, todo, source>>
marketVars == <<clock, serviceVars, syncVars>>

MarketTypeOK ==
  /\ claims \in [Assets -> Nat]
  /\ at \in [Syncs -> {"new", "running", "waiting", "done", "failed"}]
  /\ todo \in [Syncs -> SUBSET Maturities]
  /\ source \in [Assets -> Observation]

MarketInit ==
  /\ ClockInit /\ Quotes!ServiceInit
  /\ \A s \in Syncs, t \in Maturities : about[<<s, t>>] = t
  /\ claims = Seed
  /\ at = [s \in Syncs |-> "new"]
  /\ todo = [s \in Syncs |-> {TenorOf[a] : a \in Assets}]
  /\ source = [a \in Assets |-> Nothing]

Running == \E s \in Syncs : at[s] = "running"
Go(s, to) == at' = [at EXCEPT ![s] = to]

Enter(s) ==
  /\ ~Running /\ at[s] = "new" /\ Go(s, "running")
  /\ UNCHANGED <<serviceVars, claims, todo, source>>

LookUp(s) ==
  /\ at[s] = "running" /\ \A t \in todo[s] : status[<<s, t>>] = "idle"
  /\ \E t \in todo[s] :
       \/ Quotes!Share(<<s, t>>) /\ UNCHANGED at
       \/ Quotes!Await(<<s, t>>) /\ Go(s, "waiting")
  /\ UNCHANGED <<claims, todo, source>>

Wake(s) ==
  /\ ~Running /\ at[s] = "waiting"
  /\ \A t \in todo[s] : status[<<s, t>>] # "asked"
  /\ Go(s, "running")
  /\ UNCHANGED <<serviceVars, claims, todo, source>>

(* Mutant: what cannot be observed is skipped.                             *)
MutantTake(s) ==
  /\ at[s] = "running"
  /\ \E t \in todo[s] :
       /\ status[<<s, t>>] = "answered"
       /\ todo' = [todo EXCEPT ![s] = @ \ {t}]
  /\ UNCHANGED <<serviceVars, claims, at, source>>
(* None ends the sync before it has touched a claim.                       *)
Take(s) ==
  /\ at[s] = "running"
  /\ \E t \in todo[s] :
       /\ status[<<s, t>>] = "answered"
       /\ IF given[<<s, t>>] = Nothing
            THEN Go(s, "failed") /\ UNCHANGED todo
            ELSE todo' = [todo EXCEPT ![s] = @ \ {t}] /\ UNCHANGED at
  /\ UNCHANGED <<serviceVars, claims, source>>

YieldOn(t, o) == IF o = Nothing THEN 0 ELSE YieldOf[t][o.day]

Larger(x, y) == IF x < y THEN y ELSE x

(* Mutant: lags by four percent, however little that is.                   *)
MutantLag(y) == Larger(1, y - (8 * y + 100) \div 200)
(* Four percent rounded to an integer, but at least 40.                    *)
Lag(y) == Larger(1, y - Larger(40, (8 * y + 100) \div 200))

Aligned(a, y) == IF a = Lagging THEN Lag(y) ELSE y

(* The claims are updated one by one, but nothing runs in between.         *)
Install(s) ==
  /\ at[s] = "running" /\ todo[s] = {}
  /\ source' = [a \in Assets |-> given[<<s, TenorOf[a]>>]]
  /\ claims' = [a \in Assets |->
       Aligned(a, YieldOn(TenorOf[a], source'[a]))]
  /\ Go(s, "done")
  /\ UNCHANGED <<serviceVars, todo>>

MarketNext ==
  \/ Tick /\ UNCHANGED <<serviceVars, syncVars>>
  \/ /\ \E t \in Maturities : Quotes!Advance(t)
     /\ UNCHANGED <<clock, syncVars>>
  \/ /\ ~Running /\ \E l \in Queries : Quotes!Reply(l)
     /\ UNCHANGED <<clock, syncVars>>
  \/ /\ \E s \in Syncs : Enter(s) \/ LookUp(s) \/ Wake(s) \/ Take(s) \/ Install(s)
     /\ UNCHANGED clock

MarketSpec == MarketInit /\ [][MarketNext]_marketVars

-----------------------------------------------------------------------------
(* "every displayed scenario remains meaningful" (demo/README.md): after   *)
(* any syncs, each against whatever the market did meanwhile, the claim    *)
(* that is to drift drifts from the observation it was aligned with and no *)
(* other does (sync_live_demo_claims, check_asset_truth).  At yields of 0  *)
(* and 1 the claim cannot stay positive and drift: there it does not.      *)
ScenariosSurviveSync ==
  \A a \in Assets : source[a] # Nothing =>
    LET y == YieldOn(TenorOf[a], source[a])
    IN  Drifts(claims[a], y) <=> a = Lagging /\ y > 1

(* The registry is never a mixture: either no claim has been aligned, or   *)
(* all of them with what one sync was told, however syncs overlap and      *)
(* whichever look-up fails (sync_live_demo_claims, update_claim).          *)
SyncedTogether ==
  \/ \A a \in Assets : source[a] = Nothing
  \/ \E s \in Syncs : \A a \in Assets :
       source[a] # Nothing /\ source[a] = given[<<s, TenorOf[a]>>]
=============================================================================
