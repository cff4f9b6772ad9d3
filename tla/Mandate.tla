------------------------------ MODULE Mandate ------------------------------
(***************************************************************************)
(* What the gateway promises whoever issued an agent's mandate, with no    *)
(* handlers, ledger, nonce cache or time-outs in it: what is granted, to   *)
(* whom, and what every single grant had to satisfy when it was made.      *)
(*                                                                         *)
(* `grants` holds the requests granted since the process came up, `spent`  *)
(* those that have used a nonce up, `barred` who stands revoked or         *)
(* suspended now and `keys` who is registered.  The promise is about each  *)
(* life of the process: a restart forgets all four.  The gateway (module   *)
(* Gateway) is shown to implement it.                                      *)
(***************************************************************************)
EXTENDS Integers, FiniteSets

CONSTANTS
  Requests, Calls, Subjects, Agents, Keys, NoKey, NoIssuer, NoAmount,
  Day, Grace, FutureSkew, MaxClock, NonceTTL, MaxNonces,
  Total(_)    \* the sum of the amounts of a set of entries

VARIABLES clock, grants, spent, barred, keys

mandateVars == <<clock, grants, spent, barred, keys>>

MandateInit ==
  /\ clock = 0
  /\ grants = {} /\ spent = {}
  /\ barred = {}
  /\ keys = [a \in Agents |-> NoKey]

(* What the tier of a call asks of it, besides time, key and standing.     *)
Asked(tier) ==
  {"version", "schema", "nonce_format", "boundaries"}
    \cup (IF tier > 0 THEN {"asset_truth", "attestation"} ELSE {})
    \cup (IF tier > 1 THEN {"delegation"} ELSE {})

Sound(c) == c.flaws \cap Asked(c.tier) = {} /\ (c.tier > 0 => c.issuer # NoIssuer)

InForce(c, t) == c.issued <= t + FutureSkew /\ t <= c.expires + Grace

(* The amounts granted to the agent of g in the day up to it.              *)
DayBefore(g) ==
  {h \in grants : /\ h.call.agent = g.call.agent /\ h.call.amount # NoAmount
                  /\ h.at + Day > g.at}

Entry(h) == [token |-> h.request, at |-> h.at, amount |-> h.call.amount]

FitsDay(g) ==
  g.call.amount # NoAmount /\ g.call.perDay > 0 =>
    Total({Entry(h) : h \in DayBefore(g) \cup {g}}) <= g.call.perDay

(* No nonce is granted twice within its retention, while no more requests  *)
(* have used one up than are remembered.                                   *)
FreshNonce(g) ==
  Cardinality(spent) <= MaxNonces =>
    \A h \in grants : h.call.nonce = g.call.nonce => h.at + NonceTTL <= clock

(* Whether it is granted in the end or not.                                *)
Spend(r) ==
  spent' = spent \cup {r} /\ UNCHANGED <<clock, grants, barred, keys>>

(* Once for every request, in the order in which requests are verified.    *)
Grant(g) ==
  /\ \A h \in grants : h.request # g.request /\ h.at <= g.at
  /\ g.at <= clock
  /\ g.request \in spent /\ FreshNonce(g)
  /\ g.signedBy = keys[g.call.agent]
  /\ {g.call.agent, g.call.issuer} \cap barred = {}
  /\ Sound(g.call) /\ InForce(g.call, g.at)
  /\ FitsDay(g)
  /\ grants' = grants \cup {g}
  /\ UNCHANGED <<clock, spent, barred, keys>>

(* The operator bars and reinstates.                                       *)
Order == barred' \in SUBSET Subjects /\ UNCHANGED <<clock, grants, spent, keys>>

(* Suspensions lapse with time, which bars nobody.                         *)
Elapse ==
  /\ clock' = clock + 1
  /\ barred' \in SUBSET barred
  /\ UNCHANGED <<grants, spent, keys>>

Register(a, k) ==
  /\ keys[a] = NoKey /\ keys' = [keys EXCEPT ![a] = k]
  /\ UNCHANGED <<clock, grants, spent, barred>>

Forget ==
  /\ grants' = {} /\ spent' = {} /\ barred' = {}
  /\ keys' = [a \in Agents |-> NoKey]
  /\ UNCHANGED clock

MandateNext ==
  \/ Order
  \/ Elapse
  \/ Forget
  \/ \E r \in Requests : Spend(r)
  \/ \E a \in Agents, k \in Keys : Register(a, k)
  \/ \E r \in Requests, c \in Calls, k \in Keys, t \in 0..MaxClock :
       Grant([request |-> r, call |-> c, signedBy |-> k, at |-> t])

MandateSpec == MandateInit /\ [][MandateNext]_mandateVars
=============================================================================
