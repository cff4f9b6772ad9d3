------------------------------- MODULE Clock -------------------------------
(***************************************************************************)
(* The one clock every component reads: datetime.now(timezone.utc) in the  *)
(* verifier, the store and the ledger, time.monotonic() in the replay      *)
(* cache.  It is discrete, never runs backwards, and is not assumed to     *)
(* advance.  A tick is the finest difference the checked constants         *)
(* distinguish; MaxClock only bounds the state space of a TLC run.         *)
(***************************************************************************)
EXTENDS Naturals

CONSTANT MaxClock

ASSUME ClockAssumption == MaxClock \in Nat

VARIABLE clock

ClockTypeOK == clock \in 0..MaxClock

ClockInit == clock = 0

Tick == clock < MaxClock /\ clock' = clock + 1
=============================================================================
