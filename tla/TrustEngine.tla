---------------------------- MODULE TrustEngine ----------------------------
(***************************************************************************)
(* custos_protocol/trust.py: the behavioural history behind the trust      *)
(* score, and the per-day ledger of reserved amounts, one object behind    *)
(* one lock.  Every public method takes the lock once and is one action.   *)
(*                                                                         *)
(* An agent never seen has the zero history: score gives both the same     *)
(* 0.0 and every recorder creates the record it misses.  first_seen and    *)
(* last_seen only feed get_history and are left out.  A ledger is the set  *)
(* of its entries, each with the token uuid4 made for it.  Amounts are     *)
(* natural numbers: the rounding of float sums is not modelled.            *)
(***************************************************************************)
EXTENDS Integers, FiniteSets
Sets == INSTANCE FiniteSetsExt

CONSTANTS
  Agents,
  Tokens,     \* what uuid4 may return
  Hashes,     \* build and prompt hashes; NoHash is an absent one
  NoHash,
  Day         \* _DAY

ASSUME TrustAssumption == Day \in Nat \ {0} /\ NoHash \notin Hashes

VARIABLES
  history,    \* _history
  ledger      \* _ledger: an agent without entries has the empty set

trustVars == <<history, ledger>>

History ==
  [total : Nat, successful : Nat, violations : Nat, revocations : Nat,
   changes : Nat, depth : Nat,
   build : Hashes \cup {NoHash}, prompt : Hashes \cup {NoHash}]

Entry == [token : Tokens, at : Nat, amount : Nat]

TrustTypeOK ==
  /\ history \in [Agents -> History]
  /\ ledger \in [Agents -> SUBSET Entry]

NewHistory ==
  [total |-> 0, successful |-> 0, violations |-> 0, revocations |-> 0,
   changes |-> 0, depth |-> 0, build |-> NoHash, prompt |-> NoHash]

TrustInit ==
  /\ history = [a \in Agents |-> NewHistory]
  /\ ledger = [a \in Agents |-> {}]

-----------------------------------------------------------------------------
(* The behavioural history.                                                *)

RecordIntent(a, success) ==
  /\ history' = [history EXCEPT
       ![a].total = @ + 1,
       ![a].successful = IF success THEN @ + 1 ELSE @]
  /\ UNCHANGED ledger

RecordViolation(a) ==
  /\ history' = [history EXCEPT ![a].violations = @ + 1]
  /\ UNCHANGED ledger

RecordRevocation(a) ==
  /\ history' = [history EXCEPT ![a].revocations = @ + 1]
  /\ UNCHANGED ledger

Changed(old, new) == IF NoHash \notin {old, new} /\ old # new THEN 1 ELSE 0
Latest(old, new) == IF new = NoHash THEN old ELSE new

RecordAttestation(a, build, prompt) ==
  /\ history' = [history EXCEPT
       ![a].changes = @ + Changed(history[a].build, build)
                        + Changed(history[a].prompt, prompt),
       ![a].build = Latest(@, build),
       ![a].prompt = Latest(@, prompt)]
  /\ UNCHANGED ledger

RecordDepth(a, depth) ==
  /\ history' = [history EXCEPT ![a].depth = depth]
  /\ UNCHANGED ledger

-----------------------------------------------------------------------------
(* The score, in ten-thousandths: the four decimals _score rounds to.      *)

AtLeast0(x) == IF x < 0 THEN 0 ELSE x
AtMost(x, y) == IF x > y THEN y ELSE x

(* numerator / denominator, rounded to the nearest integer.                *)
Nearest(numerator, denominator) ==
  (2 * numerator + denominator) \div (2 * denominator)

Score(h) ==
  IF h.total = 0 THEN 0
  ELSE AtMost(AtLeast0(
         Nearest(3500 * h.successful + 2500 * (h.total - h.violations), h.total)
         + AtLeast0(1500 - 450 * h.revocations)
         + AtLeast0(1000 - 150 * h.changes)
         + AtLeast0(600 - 100 * h.depth)
         + AtMost(10 * h.total, 1000)), 10000)

MeetsThreshold(a, minScore) == minScore <= 0 \/ Score(history[a]) >= minScore

-----------------------------------------------------------------------------
(* The per-day ledger.  `at` is the caller's `now`, captured before the    *)
(* lock is taken, so it need not be the clock.                             *)

Total(E) == Sets!MapThenSumSet(LAMBDA e : e.amount, E)

(* Mutant: the cutoff is compared the wrong way round.                     *)
MutantFreshEarly(a, at) == {e \in ledger[a] : e.at + Day < at}
(* _prune_locked: what is left of the agent's ledger.                      *)
Fresh(a, at) == {e \in ledger[a] : e.at + Day > at}

(* Mutant: the limit is compared without the amount asked for.             *)
MutantFitsWithoutAmount(a, amount, limit, at) ==
  limit = 0 \/ Total(Fresh(a, at)) <= limit
Fits(a, amount, limit, at) ==
  limit = 0 \/ Total(Fresh(a, at)) + amount <= limit

DayTotal(a, at) ==
  /\ ledger' = [ledger EXCEPT ![a] = Fresh(a, at)]
  /\ UNCHANGED history

(* record_amount, and reserve_amount when the amount fits.                 *)
RecordAmount(a, token, amount, at) ==
  /\ ledger' = [ledger EXCEPT ![a] =
       Fresh(a, at) \cup {[token |-> token, at |-> at, amount |-> amount]}]
  /\ UNCHANGED history

(* reserve_amount: the check and the reservation are one step; a refusal   *)
(* leaves the pruned ledger behind.                                        *)
ReserveAmount(a, token, amount, limit, at) ==
  \/ Fits(a, amount, limit, at) /\ RecordAmount(a, token, amount, at)
  \/ ~Fits(a, amount, limit, at) /\ DayTotal(a, at)

(* Mutant: releases by entering the amount once more, with a minus sign.   *)
MutantReleaseAmount(a, token) ==
  /\ ledger' = [ledger EXCEPT ![a] =
       @ \cup {[e EXCEPT !.amount = -@] : e \in {e \in @ : e.token = token}}]
  /\ UNCHANGED history
ReleaseAmount(a, token) ==
  /\ ledger' = [ledger EXCEPT ![a] = {e \in @ : e.token # token}]
  /\ UNCHANGED history
=============================================================================
