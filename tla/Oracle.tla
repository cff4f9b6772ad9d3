------------------------------- MODULE Oracle -------------------------------
(***************************************************************************)
(* oracle/treasury.py and oracle/cache.py: concurrent look-ups of Treasury *)
(* yields on one event loop.  A look-up reads the cache and starts its     *)
(* fetch in one step, yields while a request is under way, and handles     *)
(* what comes back, the store into the cache included, in one step.        *)
(*                                                                         *)
(* The feed has one document per year; feed[y][t] is the latest day of     *)
(* year y with a usable entry for tenor t, and 0 when there is none: what  *)
(* parse_yield_curve returns.                                              *)
(* Unsupported tenors raise before any of this and are left out.           *)
(***************************************************************************)
EXTENDS Clock, Yields, Sequences

CONSTANTS
  Lookups,      \* get_observation calls, one each
  Tenors,       \* TENOR_FIELDS
  LastYear      \* bound on the years that begin

ASSUME OracleAssumption == {TTL, LastYear, LastDay} \subseteq Nat

VARIABLES
  year, feed,   \* the calendar year and the published feed, years from 0
  cache,        \* _cache: the entry of every tenor
  pc, tenor,    \* of a look-up: where it is, and what it looks up
  urls,         \* the years it has still to ask for, the current one first
  attempt,      \* of _fetch
  wire,         \* what its request has come to
  answer        \* what it returns

feedVars == <<year, feed>>
lookupVars == <<pc, tenor, urls, attempt, wire, answer>>
oracleVars == <<feedVars, cache, lookupVars>>

Years == 0..LastYear + 1

OracleTypeOK ==
  /\ year \in Years /\ feed \in [Years -> [Tenors -> Nat]]
  /\ cache \in [Tenors -> Observation]
  /\ pc \in [Lookups -> {"idle", "fetching", "closing", "done"}]
  /\ tenor \in [Lookups -> Tenors]
  /\ urls \in [Lookups -> Seq(Years)]
  /\ attempt \in [Lookups -> {0, 1}]
  /\ wire \in [Lookups -> [served : BOOLEAN, day : Nat]]
  /\ answer \in [Lookups -> Observation]

Asked == [served |-> FALSE, day |-> 0]

(* Day 1 closed in year 0, and year 1 has begun.                           *)
OracleInit ==
  /\ year = 1
  /\ feed = [y \in Years |-> [t \in Tenors |-> IF y = 0 THEN 1 ELSE 0]]
  /\ cache = [t \in Tenors |-> Nothing]
  /\ pc = [l \in Lookups |-> "idle"]
  /\ tenor \in [Lookups -> Tenors]
  /\ urls = [l \in Lookups |-> <<>>]
  /\ attempt = [l \in Lookups |-> 0]
  /\ wire = [l \in Lookups |-> Asked]
  /\ answer = [l \in Lookups |-> Nothing]

Goto(l, to) == pc' = [pc EXCEPT ![l] = to]

-----------------------------------------------------------------------------
(* The feed.                                                               *)

Newest(t) == IF feed[year][t] # 0 THEN feed[year][t] ELSE feed[year - 1][t]

(* Every year has business days.                                           *)
NewYear ==
  /\ year < LastYear /\ \A t \in Tenors : feed[year][t] # 0
  /\ year' = year + 1
  /\ UNCHANGED <<feed, cache, lookupVars>>

Publish(t) ==
  /\ Newest(t) < LastDay
  /\ feed' = [feed EXCEPT ![year][t] = Newest(t) + 1]
  /\ UNCHANGED <<year, cache, lookupVars>>

(* The server answers from the feed as it is now; the reply may take long. *)
Serve(l) ==
  /\ pc[l] = "fetching" /\ ~wire[l].served
  /\ wire' = [wire EXCEPT ![l] =
       [served |-> TRUE, day |-> feed[Head(urls[l])][tenor[l]]]]
  /\ UNCHANGED <<feedVars, cache, pc, tenor, urls, attempt, answer>>

-----------------------------------------------------------------------------
(* TTLCache: an entry older than the TTL is dropped as it is read.         *)
(* Mutant: takes whatever is stored.                                       *)
MutantFreshInCache(t) == cache[t] # Nothing
FreshInCache(t) == cache[t] # Nothing /\ clock <= cache[t].fetched + TTL

(* _candidate_urls of an oracle without a pinned URL, the gateway's: one   *)
(* that is given a URL asks that one alone, and is outside the model.      *)
(* Mutant: asks for last year first.                                       *)
MutantCandidateYears == <<year - 1, year>>
CandidateYears == <<year, year - 1>>

Start(l) ==
  /\ pc[l] = "idle"
  /\ \/ /\ FreshInCache(tenor[l])
        /\ answer' = [answer EXCEPT ![l] = cache[tenor[l]]]
        /\ Goto(l, "done")
        /\ UNCHANGED <<cache, urls>>
     \/ /\ ~FreshInCache(tenor[l])
        /\ cache' = [cache EXCEPT ![tenor[l]] = Nothing]
        /\ urls' = [urls EXCEPT ![l] = CandidateYears]
        /\ Goto(l, "fetching")
        /\ UNCHANGED answer
  /\ UNCHANGED <<feedVars, tenor, attempt, wire>>

(* The loop over the candidate URLs ends without an observation, or goes   *)
(* on with the next one.                                                   *)
NextUrl(l) ==
  /\ urls' = [urls EXCEPT ![l] = Tail(@)]
  /\ attempt' = [attempt EXCEPT ![l] = 0]
  /\ wire' = [wire EXCEPT ![l] = Asked]
  /\ Goto(l, IF Len(urls[l]) = 1 THEN "closing" ELSE "fetching")
  /\ UNCHANGED <<feedVars, cache, tenor, answer>>

(* A transport failure, a connection or a read that times out included,    *)
(* before or after the server answered: one retry, then the next URL.      *)
(* Mutant: the retry forgets which attempt it is.                          *)
MutantRetry(l) ==
  /\ wire' = [wire EXCEPT ![l] = Asked]
  /\ UNCHANGED <<feedVars, cache, pc, tenor, urls, attempt, answer>>
Retry(l) ==
  /\ attempt' = [attempt EXCEPT ![l] = 1]
  /\ wire' = [wire EXCEPT ![l] = Asked]
  /\ UNCHANGED <<feedVars, cache, pc, tenor, urls, answer>>

(* Mutant: a transport failure is not retried.                             *)
MutantTransportFails(l) == pc[l] = "fetching" /\ NextUrl(l)
TransportFails(l) ==
  /\ pc[l] = "fetching"
  /\ IF attempt[l] = 0 THEN Retry(l) ELSE NextUrl(l)

(* An HTTP error status: no retry.                                         *)
HttpError(l) == pc[l] = "fetching" /\ wire[l].served /\ NextUrl(l)

(* Mutant: falls back on what others have stored meanwhile.                *)
MutantAbort(l) ==
  /\ pc[l] = "fetching" /\ wire[l].served
  /\ answer' = [answer EXCEPT ![l] = cache[tenor[l]]]
  /\ Goto(l, "closing")
  /\ UNCHANGED <<feedVars, cache, tenor, urls, attempt, wire>>
(* A document that does not parse, or an httpx error other than transport: *)
(* the look-up ends, whatever URLs are left.                               *)
Abort(l) ==
  /\ pc[l] = "fetching" /\ wire[l].served
  /\ Goto(l, "closing")
  /\ UNCHANGED <<feedVars, cache, tenor, urls, attempt, wire, answer>>

(* A document: without a usable entry the next URL is tried; with one it   *)
(* is stored and the loop is left.                                         *)
Parse(l) ==
  /\ pc[l] = "fetching" /\ wire[l].served
  /\ \/ wire[l].day = 0 /\ NextUrl(l)
     \/ /\ wire[l].day # 0
        /\ answer' = [answer EXCEPT ![l] = [day |-> wire[l].day, fetched |-> clock]]
        /\ cache' = [cache EXCEPT ![tenor[l]] = answer'[l]]
        /\ Goto(l, "closing")
        /\ UNCHANGED <<feedVars, tenor, urls, attempt, wire>>

(* The client is closed, which yields once more, and the look-up returns.  *)
Close(l) ==
  /\ pc[l] = "closing"
  /\ Goto(l, "done")
  /\ UNCHANGED <<feedVars, cache, tenor, urls, attempt, wire, answer>>
=============================================================================
