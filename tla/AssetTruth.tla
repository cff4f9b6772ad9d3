----------------------------- MODULE AssetTruth -----------------------------
(***************************************************************************)
(* custos_protocol/drift.py: is a claim plausible against the market?  A   *)
(* pure function of claim, observation and time: eight checks.  The first  *)
(* that fails picks the error code, and all of them are one step of        *)
(* verify_intent, so here they are the conjuncts of one predicate.         *)
(*                                                                         *)
(* Time is counted in ticks, dates in days of DayLength ticks.  A ratio of *)
(* amounts is a float in the code: it is rounded to the nearest multiple   *)
(* of 1 / Precision, which stands for the 2^-53 of a double just below 1.  *)
(***************************************************************************)
EXTENDS Drift

CONSTANTS
  NoClaim, NoObservation,
  Issuers,
  DayLength,
  Skew,                  \* clock_skew_seconds
  MaxObservationAge,     \* max_observation_age_days
  StaleAfter,            \* staleness_threshold_hours, in ticks
  BackingFloor,          \* backing_floor, in hundredths
  Precision

ClaimRecord ==
  [issuer : Issuers, attested : Int, yield : Nat, backing : Nat, liability : Nat \ {0}]

ObservationRecord == [day : Int, yield : Int]

(* The ratio is rounded before it is compared with the floor.              *)
RoundedRatio(amount, of) == (2 * amount * Precision + of) \div (2 * of)
Underbacked(c) == 100 * RoundedRatio(c.backing, c.liability) < BackingFloor * Precision

(* check_asset_truth returns scores and not a failure, for claim c and     *)
(* observation o at time t.                                                *)
Plausible(c, o, t) ==
  /\ c # NoClaim /\ o # NoObservation
  /\ t \div DayLength - o.day <= MaxObservationAge
  /\ c.attested <= t + Skew
  /\ t - c.attested <= StaleAfter
  /\ o.yield >= 0
  /\ ~Drifts(c.yield, o.yield)
  /\ ~Underbacked(c)
=============================================================================
