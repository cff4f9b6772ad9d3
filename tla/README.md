# Verification of Custos

Custos is a gateway an autonomous agent asks before it moves money. An agent
signs an *intent envelope*; `verify_intent` checks it against its own declared
boundaries, a replay cache, a kill switch, a per-day spending ledger and the
Treasury market, and answers ALLOW or BLOCK with the most fundamental reason.
This directory holds TLA+ models of that program, the TLC runs that check them
on small instances, and TLAPS proofs for every value of the constants.
`PROJECT.json` maps every definition to the source lines it models.

## 1. Inventory

| Component | State | Operations | Talks to |
|---|---|---|---|
| `revocation.py` RevocationStore | records per subject, nonces in insertion order, last sync; one lock | revoke, suspend, reinstate, is_revoked, is_suspended, get_record, touch_sync, freshness, check_nonce, clear_nonces | called by verification and the gateway |
| `trust.py` TrustEngine | history counters per agent, ledger of reserved amounts; one lock | record_*, score, meets_threshold, day_total, record_amount, reserve_amount, release_amount | called by verification and the gateway |
| `verification.py` verify_intent | locals only | thirteen ordered steps over three tiers | store, engine, and the pure checks |
| `boundaries.py`, `delegation.py`, `drift.py`, `envelope.py` | none: pure functions | check_boundaries, check_delegation, check_asset_truth, select_tier | called by verification |
| `gateway/` | key, framework and hash registries; the signer | intent, registration, revocation, health, demo routes on one event loop; forward | verification, oracle, claims, the downstream service |
| `oracle/` TreasuryOracle, TTLCache | one cached observation per tenor | get_observation: cache, candidate URLs, one retry | Treasury feed |
| `claims/` ClaimRegistry | seeded claims | get_claim, list_claims, update_claim; its one writer is the demo's sync in `gateway/server.py` | gateway, oracle |
| `attestation.py`, `demo/mock_lender.py` | the signing key; the lender's pinned key | sign, verify, lend | gateway, downstream service |
| `passport.py` | a directory of three files | create, save, load | crypto, the command line |
| `observe.py` ObservationStore | ring buffer, counters, callbacks; one lock | record, on_event, clear, readers | wrappers around user functions |
| `shield.py` | none of its own | protect, shield: verify, then call | verification |
| crypto, canonical, errors, cli, conformance | none that changes | signing, serialising, printing | everything |

**Hard behaviour.** `verify_intent` takes the shared locks up to eight times
per call, so concurrent calls interleave between any two of its steps; `now` is
read once, before any lock. The replay cache forgets by age and by pressure.
Suspensions lapse by themselves and are dropped by whoever reads them first.
Reservations must be undone by every later refusal. The gateway yields at its
two awaits, the oracle between cache and feed, the demo's sync at each tenor. A
restart of the gateway forgets everything but what it has sent. An attestation
outlives the order that would have refused it. `PROJECT.json` lists each hazard at its line.

**What makes each component correct.** *Store*: a nonce is accepted again only
after retention or pressure; a subject is refused exactly while the last order
about it stands. *Ledger*: an amount is granted exactly when the unreleased
amounts of the last day leave room for it; release affects one reservation
only. *Pipeline*: reservations are neither leaked nor lost; a barred subject is
never allowed, at any tier; a nonce is spent once in a retention period; the
history counts what happened; the code reported is the most fundamental one.
*Oracle*: an observation handed out is fresh, and the newest when nothing went
wrong. *Claims*: never a mixture of two syncs.
*Gateway*: what it grants keeps the mandate of its agent, the day's limit
included; an order reaches whoever relies on an attestation within its life;
money that may have moved stays counted. *Delegation*: authority only shrinks
along a chain. *Passport*: a finished save is what load returns.

## 2. Modules

| Module | Models |
|---|---|
| `Clock` | the one clock (wall and monotonic), discrete, never backwards |
| `RevocationStore` | every method of the store, one action each: each takes the lock once |
| `StoreHistory` | the store plus what a caller could write down (acceptances, answers, orders), and the properties |
| `ReplayGuard` | abstract: a nonce is refused iff it was accepted within retention and among the last `MaxNonces` |
| `TrustEngine` | history, score and ledger, one action per method |
| `LedgerHistory` | the ledger under any callers, plus every unreleased reservation |
| `SpendWindow` | abstract: a ledger that never forgets; a grant looks at the last day of it |
| `VerifyIntent` | any number of threads in `verify_intent`, with the operator and the clock; composes store and engine |
| `Boundaries`, `Delegation` | the predicates of `check_boundaries`; `check_delegation` over chains that grow link by link |
| `Yields` | what the modules about observations share: tenors, days, TTL, the observation |
| `YieldService` | abstract: what a caller of `get_observation` is promised, without cache, URLs or retries |
| `Oracle`, `OracleHistory` | `get_observation` at its awaits, with cache, candidate years, retry and the feed; plus what an observer writes down |
| `Drift` | the one comparison of a claimed yield with an observed one |
| `Market` | the claim registry and the demo's sync, at its awaits, over `YieldService` |
| `Mandate` | abstract: what a grant must satisfy (key, standing, soundness, window, a nonce of its own, the day's limit) and that grants are made one by one, without handlers, ledger, nonce cache or time-outs |
| `Gateway` | `post_intent` on one event loop around `VerifyIntent`: keys, frameworks and hashes with step 9, admin routes, forwarding with a downstream that acts or not, restart |
| `Lender` | the gateway composed with the signed records and the lender that relies on them: signing key, expiry, pinned key, a client that presents late or again |
| `AssetTruth` | `check_asset_truth` as a predicate |
| `Shield` | `protect` around `VerifyIntent`: envelope, tier, resolvers, violation policy, the function |
| `ObservationStore` | ring buffer, counters and callbacks, one action per method |
| `Wrapped` | `observe(protect(f))`: the observing wrapper around `Shield`, with callbacks that raise or use the store |
| `Protected` | abstract: what `observe(protect(f))` promises the owner of `f`, its callers and its observers, without envelopes, checks, stores or locks |
| `Passport` | `create`, `save` and `load` over three files, a process that dies between two writes, a directory shipped without keys |
| `MC*` | instances for TLC; `*_lemmas`, `*_proofs`: TLAPS |

**State and actions against the code.** `records`, `nonces`, `lastSync` are
`_records`, `_nonces`, `_last_sync`; `history` and `ledger` are the engine's two
dicts (`_get_or_create` makes an unseen agent the zero history). In
`VerifyIntent`, `pc[r]` names the method of a shared object that request `r`
calls next; one action is that call with the thread-local work up to the next
one. `fail_authenticated` is two lock acquisitions, `Release` and
`RecordFailure`. `reserved[r]` is `ledger_token is not None`. A check that is a
pure function of the call is a member of the call's `flaws`; expiry, clock skew,
the missing claim, the limit, freshness, revocation and the trust gate are
computed. `barred`, `outdated`, `accepted`, `kept`, `orders`, `reply` and `told` are
history variables: they record and never steer.

In `Gateway`, `at[r]` is where the handler of request `r` is. A coroutine runs to
its next await without another one in between, so nothing but time passes while
a request is inside `verify_intent` (`Busy`), and `Arrive` and `Resume` are the
stretches up to and from `await _resolve`. `keys`, `frameworks`, `buildHashes` and
`promptHashes` are the dicts of the two registries; `Attested` is step 9 on what
they hold when `verify_intent` is called. `Restart` empties every module-level
object. In `Shield`, `stage[r]` is where a protected call is. `protect` takes a
store and an engine or makes do without; without them `verify_intent` makes a
fresh pair for every call. A function's field `shared` says which: a thread of one
that is given the two enters `VerifyIntent` at `Entrust` and shares what is modelled
there; of one that is given neither, the whole pipeline over its two empty objects
is the one step `EntrustAlone`, since nobody else can see them. Everything said of
the day, of nonces and of orders is said of functions that share; without an engine
what is spent in one call counts against nothing in the next. Functions given one
of the two objects and not the other are left out. In `Wrapped`, `toFire[r]` is the list of callbacks
that `record` copied under the lock. `Oracle` keeps a coroutine's candidate URL
and attempt. In `Lender`, `proofs[r]` is what `sign_attestation` signed for a
request, in the step that answers it; `clear[s]` is the last moment the subject
was free of orders. In `Market` a sync's `todo` is the set of tenors it has yet
to look up, and the claims change in one step, for no await separates the calls
of `update_claim`. In `Passport` a file is truncated in one step and written in
the next, as `write_text` and `write_bytes` do. `due`, `heard`, `since`, `began`, `faults`, `errors`, `source`, `era` are history.

**Refinements.** Five components are shown to implement a specification that
leaves their mechanism out, by `INSTANCE ... WITH`: `StoreHistory` the
`ReplayGuard`, `LedgerHistory` the `SpendWindow`, `OracleHistory` the
`YieldService`, `Gateway` the `Mandate`, and `Wrapped` the `Protected`.

`Mandate` maps `grants` to the requests allowed in this life of the process, with
the key their envelope was signed with and the time they were received, `spent`
to the requests that got past `check_nonce`, and `barred` to the subjects with a
live record; a step of `Mandate` that grants is the step in which
`verify_intent` returns ALLOW. A nonce may be granted again a retention period
later, or when more requests have spent one than the cache holds: the promise
that finding 2 leaves standing.

`Protected` maps `place` to the stage of a call inside `protect` and, once it has
left, to where the observing wrapper is; `asked` to the `now` of its
verification, `answer` to what its caller gets, `owed` to the callbacks that are
still to fire. The steps of `verify_intent` and of the operator are stutters: the
contract knows only what a verified call may assume. `MayRun` states that in
terms of the function, its claim and its observation: within all boundaries and,
if it moves value or was given a tier that asks for it, on a plausible claim; not
later than the envelope's lifetime and the grace for it. `Protected` says nothing of
nonces, limits and the kill switch, which may refuse any call; the theorems
`...BehindShield` do.

`Lender` implements `Gateway` and `Wrapped` implements
`VerifyIntent`, so what is proved of the inner module holds in the outer one.
`Market` is built on `YieldService` and not on `Oracle`: what it needs of a
look-up is what the oracle is shown to promise.

**Abstractions.** Amounts are natural numbers (float rounding is left out, but
for the backing ratio, which is rounded before it is compared). Subject type is
left out: the store looks records up by id alone. The two readings of the
monotonic clock in `check_nonce` are one. The score is an integer number of
ten-thousandths, the precision `_score` rounds to. In `Gateway` the oracle is
what it promises (an observation or none, at some time), in `Oracle` it is
modelled in full, in `Market` it is `YieldService`. In `Gateway` the key an envelope is signed with stands for
its signature. The details of messages, hashes and signatures are left out.

## 3. Runs

| Run | Question | Instance |
|---|---|---|
| `shared_objects` | does the cache implement `ReplayGuard`; are orders obeyed; does the pruned ledger implement `SpendWindow` | 3 nonces, cache of 2, retention 2, 1 subject; 2 agents, 3 reservations, day of 2; 4 ticks |
| `verify_ledger` | reservations, nonces, limit, history and step order under interleaving | 3 threads, 4 kinds of call, day of 2, 3 ticks |
| `verify_killswitch` | can a barred subject be allowed, or anybody while the store is out of sync | 2 threads, 3 tiers, operator on agent and issuer, stale store, trust gate |
| `permanent_revocation` | violated: suspension replaces a permanent revocation | 1 subject |
| `replayed_envelope` | violated: a nonce out of retention inside the expiry grace | 2 threads, 1 envelope |
| `rolling_limit` | violated: a later `now` prunes what an earlier one must count | 3 threads |
| `delegation` | can an accepted chain do what its root forbids; is a chain whose hops only add restrictions accepted; is a saved passport the one that is loaded, and never with a later key | chains of up to 2 links over small boundaries; 2 agents, 3 saves |
| `oracle` | are answers recent and the newest; is one fault survived; does every look-up end; is `YieldService` implemented; are the claims ever a mixture, and do they keep their scenarios | 2 look-ups, 1 tenor, 2 years, TTL of 1; 2 syncs of 3 claims over 2 tenors |
| `gateway` | does what is granted keep its mandate, the day's limit included; the key, the registries, the orders and the ledger across the awaits; is everybody answered; how long does an order take to reach a lender; does money that may have moved stay counted | 2 requests, 3 kinds of envelope, 2 bodies of hashes, 2 keys, at most 2 orders, 1 restart (orders and restarts together at most 2), 1 lender, 2 loans on an attestation |
| `gateway_issuer` | violated: at Tier 0 the issuer is not checked | 2 requests, orders on the issuer |
| `wrapped` | do the decorators keep the contract of `Protected`; does value move without evidence; does what was moved stay counted; do counters, buffer and callbacks agree; does anybody wait | 2 calls, 3 functions (a shared and an unshared one that move value, one that reads), 3 claims, 1 callback registered up to twice, 1 clear |
| `backing_floor` | violated: a backing short of the floor is rounded up to it | as `wrapped` |

**Bounds.** `MaxClock` ends time and `MaxAccepted` ends acceptances; both only
cut the state space. Two ticks per day or retention, with twice as many in a
run, let an entry be young, exactly at the edge, old, and its successor old as
well. A cache of two with three nonces is pushed out of by pressure and by age
in every order. Three threads are what the sharpest interleaving here needs:
one that reserved, one that prunes, one that reserves late. Amounts and limits
are chosen so that a sum meets the limit exactly and exceeds it by one.
Symmetry permutes nonces, tokens or requests, which no definition tells apart;
runs with a temporal property use none, but for `wrapped` and `shared_objects`, whose
properties are safety formulas (an initial condition and a condition on every step),
just as symmetric as the invariants. A chain of two links is the shortest
with a link between root and holder; the proof covers any length. The oracle's
clock covers a cached answer just before and just after its TTL, and the feed
the turn of a year with an empty new document. In `gateway` the three envelopes
(Tier 0 and forwarded, Tier 1 with a claimed framework, and one for a tenor the
oracle does not know) take each path of `post_intent` and compete for one limit;
any two of their amounts exceed the limit of a day and one does not, and a day is
one tick, so that an amount counts at the tick it was granted in and not at the
next; of the two bodies one replaces a build, one confirms it with another prompt, and
two orders let either follow a revocation or the registration of the framework;
one restart is enough because nothing survives it. In `wrapped` the claims are one
that goes stale, one dated in the future and one short of its backing; the
rounding is to hundredths, so that half a percent short of the floor is rounded up to
it and more is not; that stands for the 53 bits of a float. One callback registered
twice is the least with one after one that raises; that the order of several is
kept shows in the theorem. At `MaxClock` 1 no call outlives its envelope, so the
clause of `Protected` about lifetimes cannot bind in the run: there it is the theorem
that counts. The same holds of the overtaking that two requests cannot show in
`gateway` (theorem `DayLimitHolds`), and of orders against an issuer, for `gateway`
gives orders against its agent only (theorem `OrdersTakeEffect`; `verify_killswitch`
has both). `MaxLoans` 2 lets an attestation be presented again. `MaxOrders`, `MaxRestarts`, `MaxCallbacks` and
`MaxClears` bound how often the outside acts; an order
or a restart only happens while the two together are below `MaxOrders`. `ValidFor` is 0 in `gateway`,
so that with one tick an attestation is at its edge and past it.

`shared_objects`, `delegation` and `oracle` each hold two instances that share nothing but the
clock: a variable `part`, fixed at the start, says which of the two a behaviour
is of, and the other one stands still. `gateway` uses a VIEW (`Steers`) that
leaves out the history counters, `barred`, `outdated` and `lastSync`: with the trust gate at
0 and no upstream none of them decides a step, and no property of the run reads
them, so states that agree on the view have the same successors in it. The
syncs of `oracle` see yields of 0, 1, 10 and 3000 points: the least lag, the
floor of 1 and the four percent each decide at one of them. Three saves are the
least for a save cut short between two others.

`oracle`, `gateway`, `wrapped`, `delegation` and the runs of `VerifyIntent` end when
every request is answered and the clock is at its bound, so they do not check
deadlock; `shared_objects` never stops.

**Mutants.** Every property is broken by a named mutant of a mapped definition
(`Mutant...`, right above it): the change a plausible bug would make.

## 4. Findings

1. *Suspension overwrites revocation* (`revocation.py:60-70`). A permanent
   record is documented as permanent until reinstated; a later suspension of
   the same subject replaces it and lapses.
2. *Retention is as long as the longest span, acceptance is longer*
   (`revocation.py:15`, `verification.py:110,116`). One envelope may be allowed
   twice around its expiry. What stands is `NonceSpentOncePerRetention`, proved:
   twice only a retention period apart, or after more nonces than the cache holds.
3. *The rolling limit assumes clock order* (`trust.py:160-170`). Pruning by the
   caller's `now` lets a slow request see a total that lacks what it must count.
   What stands is proved: `LedgerImplementsWindow` for callers in clock order,
   and `RollingLimitOnOneLoop`, the very property this run refutes, for the
   gateway, whose one loop never lets a request be overtaken inside
   `verify_intent`.
4. *Tier 0 does not ask for the issuer* (`server.py:232`). The design checks
   issuers at every tier; `verify_intent` does when it is given a claim, and the
   gateway gives it none at Tier 0.
5. *The backing is compared as a float* (`drift.py:156,161`). The comment over it
   says "Exact Decimal arithmetic; the float cast is for reporting only", and what
   is compared with the floor is the float: a backing of 99999999999999999 for a
   liability of 100000000000000000 passes the floor of 1.0. The run rounds to
   hundredths. What stands is the yield's side of `ValueMovesOnEvidence`.

Noted without a run: two look-ups that miss the cache together both go to the
feed (`treasury.py:118`), where `config.py:26-27` speaks of one request per
tenor and minute; a call blocked silently is counted by an observer as a success
(`shield.py:128`); an attestation is good for any number of loans until it expires
(`mock_lender.py:20-50`), of which the day's limit counts one.

## 5. Proofs

All for arbitrary constants that satisfy the modules' named assumptions.

* `RevocationStore_proofs`: type correctness; `CacheIsRecentSuffix`, which is
  inductive as stated: the cache is the recent suffix of the acceptances, whose
  times are ordered, and what it lacks is old or pushed out. Order is what
  makes "stop at the first young entry" right. From it, every step of the store
  is a step of `ReplayGuard` or a stutter. `RefusedExactlyWhileOrdered` is
  inductive over types.
* `TrustEngine_proofs`: type correctness; for callers in clock order
  (`MaxLag = 0`) `LedgerIsRecentPart`, and from it the refinement of
  `SpendWindow`: the pruned set and the windowed set are equal, so their totals
  are, and here no property of sums is needed.
* `VerifyIntent_proofs`: type correctness. *Kill switch*: `KillSwitchInv` adds
  that everybody barred from a request is refused by the store now, so a
  look-up that finds nobody proves its subject is not barred, and that whoever
  passed a look-up stays unbarred; likewise for a store out of sync and the freshness check. *Reservations*: `ReservationInv` adds that a
  request reserves only at step 6 and is allowed only at the end. *Order*:
  `MostFundamentalReported`, from `OrderInv`: where a request is says which of
  the steps it has passed, and what it fails is then one of the others.
  *Counters*: `HistoriesMatchVerdicts`, from `CountInv`: in every state, requests
  under way included, each counter is the number of the requests it counts, so a
  step that counts one must be the step that gives that one its verdict.
  *Limit*: `LimitHolds`. "The ledger is within the limit of one of its entries" is
  not inductive, for that entry may be released or pruned; `LimitInv` says it of
  every nonempty part of the ledger, so whatever takes entries out keeps it, and a
  grant adds the one entry whose limit all the rest was measured against.
  *Nonces*: `NonceSpentOnce`, from `NonceInv`: who spent a nonce is remembered by
  an entry not older than its `now`, or a retention period has passed, or more
  requests spent one than the cache holds; the last case needs that the cache is
  never longer than those requests are many.

  *Totals.* `Total` is the library's `MapThenSumSet`, a recursive function on the
  subsets of a set. The section on totals derives the three laws the limits need:
  a total is a natural number, adding an entry adds its amount, and a part has no
  larger total. None of it uses an induction theorem with an operator parameter:
  that the recursion has a solution on every finite set is shown by contradiction
  on a least subset without one (`LeastSubset`, from the well-foundedness of the
  strict subset relation), and so are the laws.
* `Delegation_proofs`: `AuthorityOnlyNarrows`, for chains of any length and any
  boundaries: containment is transitive and sound (whatever the contained
  boundary permits, the containing one permits); hence in an accepted chain every
  hop contains the last one, by the last hop that would not.
  `FaithfulChainAccepted` is the converse: boundaries made from those of the hop
  before by adding restrictions (`Restricted`: lists and windows intersected, the
  lower of two limits, more denials) are contained in them, so a chain of such hops
  is accepted. Handing on exactly what is held is the case of adding nothing. Lists
  that would be left empty are excepted, for an empty list restricts nothing. For the
  passport's directory, `SavedIsLoaded` and `NoLaterKey` from `DirectoryInv`: how
  far a save has come decides which files are of it, and no file is of a later
  save than `passport.json`, the first to be written.
* `Oracle_proofs`: type correctness; `AnswerIsRecent`, from `RecentInv`
  (nothing is fetched in the future, and who has not ended has no answer yet);
  `OneFaultIsSurvived`, from `FaultInv`: the years a look-up has left and its
  attempt account for the faults it met. `OracleIsService`: every step of the
  oracle is one of `YieldService` or a stutter, for which what is cached must be
  something a call of its tenor was given. `UntroubledIsNewest`: the years a
  look-up without trouble has passed over hold nothing, so the one it stops at
  has the newest day. `ClaimsAlignedTogether` and `ScenariosSurvive` for the
  claims, any syncs, tenors and yields; the second is arithmetic over `Lag` at
  the gateway's thresholds.
* `Gateway_proofs`: `GatewayInv` is type correctness, `SerialInv` (whoever is
  inside `verify_intent` holds the loop, so there is at most one), `KeyInv` (the
  key looked up before the await is still registered), `ClearInv` (whoever
  passed a look-up is not barred, because no order comes in between),
  `ClockOrderInv`, and `AttestInv` (whoever is inside `verify_intent` was judged
  by what is registered now). From it `VerifiedUnderRegisteredKey`,
  `ReservesInClockOrder` and the action properties `RevocationTakesEffect` and
  `AttestationTakesEffect`, with restarts. `LenderImplementsGateway`: signing and
  lending only add to the gateway, so all of it holds of the composition.
  `KillSwitchReaches` rests on `LenderInv`: an attestation expires at most
  `ValidFor` after its subjects were last clear. `SentMoneyCounted` rests on
  `MoneyInv`: whoever is past step 6 with an amount has reserved it
  (`ReservedInv`), and a reservation is in the ledger or pruned a day later.
  `DayLimitHolds` rests on `DayInv`: any requests that hold reservations in one
  day fit the limit of a latest of them. When the latest reserved, the others were
  still in the ledger, because none that came before it had a later `now`; that is
  where the one loop is needed, and where threads fail. `RollingLimitOnOneLoop` is
  its corollary for agents that sign one limit in all their calls, the case the
  design speaks of; where limits differ, a grant under a larger one may follow in
  the same tick and take the day beyond the smaller one, which is why
  `DayNeverExceedsLimit` speaks of the latest.
  `GatewayKeepsMandate` is the refinement of `Mandate`: a request that becomes
  allowed is clear (`ClearInv`), signed with the registered key (`KeyInv`), has
  passed every step of its tier (`OrderInv`), is its envelope's (`AgentInv`) and
  fits its own day (`OwnDayInv`, which holds for it from the moment it reserves);
  it is later than every grant before it (`ClockOrderInv`), and whoever was granted
  its nonce before was so a retention period ago (`NonceInv`, which a restart
  re-establishes; `NonceSpentOnceAtGateway` is a corollary). Here the time of a
  grant is that of the request's arrival, and it is `ClockOrderInv` again that makes
  the earlier of two arrivals the earlier grant.
  `GatewayKeepsMandateWithLender` carries this over to the composition, which is
  what the run checks. `SentMoneyCounted` counts an attestation once, in the life of
  the process that granted it: a restart empties the ledger with everything else,
  and a second loan on the same attestation is the lender's to refuse. What lenders
  lend in all is therefore bounded by nothing here.
* `Wrapped_proofs`: type correctness. `ShieldImplementsVerify`: protected
  functions do to the verifier's variables what `VerifyIntent` says and nothing
  else (every envelope they make is one of `Calls`, and a function without shared
  objects changes none of them), so what is proved of it holds behind `protect` for
  the functions that share; `KillSwitchHoldsBehindShield`, `LimitHoldsBehindShield`,
  `NonceSpentOnceBehindShield` and `AnswersHoldBehindShield` are instances.
  `ValueMovesOnlyOnEvidence` rests on `MarketInv` (who has passed the market's
  check carries no flaw there) and `EvidenceInv` (what is verified is the
  envelope made for this call), and for functions that share nothing on the
  pipeline's one step. `MovedMoneyCounted` is `ReservedInv` again, behind
  `protect`, for functions that share their engine. `EveryHookIsFired` rests on `HooksInv`: what was copied
  is what was fired followed by what is left. `CountersAgree` rests on
  `RecordedInv`: a recorded call is over, so what the buffer and the counters
  say of it stays true; each record adds one index to the sets the counters
  count, and a full buffer loses its first entry.
  `WrappedKeepsContract` is the refinement of `Protected`, one lemma for the calls
  inside `protect` and one for what is recorded, told and handed on. Its heart is
  `PassedMayRun`: an allowed request has passed every step its tier has (`OrderInv`,
  from `VerifyIntent_proofs`), what was verified is the envelope made of this
  function, claim and observation (`EvidenceInv`), so the absence of a flaw in it says
  something of the three. `BehindInv` (the observing wrapper acts only on a call
  that has left `protect`) makes `place` one value. Most of the other conjuncts
  of a step are bookkeeping; that no step of the verifier, of the operator or of a
  callback moves anything else the contract speaks of is what the proof goes through
  them for.

Checked by TLC only: `OutcomeReachesCaller`, which says that a step is possible
(ENABLED), and the liveness properties `EveryLookupEnds` and
`EveryRequestAnswered` (fairness); these are out of the prover's reach. Every
other property of a passing run is a theorem.

## 6. Fairness

In `verify_intent` a request never waits for another, so no liveness is stated
there. `EveryLookupEnds` assumes that what a request of the oracle waits for
comes to something (`WF(Resume)`): httpx times out a connection and every read in
which nothing comes, so a document, an error or a timeout is always next, provided
that the feed does not send a document byte by byte for ever: the timeouts are of
each read and not of the whole request. It does not assume that the
feed serves. Both liveness properties have the form `<>[]`: from some moment on
nobody is left waiting, which with finitely many requests says that none hangs.
`EveryRequestAnswered` assumes that the event loop runs a handler
that is ready, that a look-up of the oracle ends (which `Oracle` shows), and
that forwarding ends in a reply or in a timeout, with the same proviso for the
downstream service; not that the service carries anything out, that clients send, or that time passes.
`OutcomeReachesCaller` needs no fairness: it says that no step waits for a lock that
is held. Callbacks, resolvers and functions that never return are outside it: a call
waits for them as the code does.

## 7. Plan

Done: the store, the ledger, the pipeline, boundaries and delegation, the
oracle and the service it implements, the claims and their sync, the gateway
with its registries, the lender that relies on it, the shield, the observation
store and the passport's directory; theorems for every safety and action property
the runs check, and five refinements. Left: the canonical form as a function, if
its rules are to be checked against each other.

Not modelled and why. An oracle pinned to one URL (`treasury.py:93-94`), which the
gateway does not make. Canonical serialisation and signatures are wrappers and a
pure encoding: a signature is valid or is not. The error table is constant. The
command line tools parse and print around operations modelled elsewhere
(`create-passport` is `Create` and a save of it). Conformance vectors, packaging
and the local demo are fixtures. Of the gateway, read-only routes, the bearer
token and the demo's approval page are left out. A passport saved without a
private key over one that has it, a suspension that ends between two look-ups
and the movement of the trust score are in the models, and nothing documented
says what they should do; `PROJECT.json` lists them as hazards without a property.
