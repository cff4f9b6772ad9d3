-------------------------------- MODULE Drift --------------------------------
(***************************************************************************)
(* The seventh check of custos_protocol/drift.py: how far a claimed yield  *)
(* may be from the observed one.  Yields are integers of basis points.     *)
(***************************************************************************)
EXTENDS Integers

CONSTANTS
  DriftPercent,          \* drift_threshold, in hundredths
  ZeroTolerance          \* zero_yield_abs_tolerance_bps

Distance(x, y) == IF x < y THEN y - x ELSE x - y

(* Relative drift is undefined at an observed yield of 0.                  *)
Drifts(claimed, observed) ==
  IF observed = 0
    THEN Distance(claimed, observed) > ZeroTolerance
    ELSE 100 * Distance(claimed, observed) > DriftPercent * observed
=============================================================================
