----------------------------- MODULE MCWrapped -----------------------------
(***************************************************************************)
(* Protected and observed functions for TLC: one that moves value and asks *)
(* for evidence, whose limit two calls exceed, with shared objects and     *)
(* without, and one that reads, without.                                   *)
(***************************************************************************)
EXTENDS Wrapped, TLC

CONSTANTS a1, i1

Buy ==
  [agent |-> a1, action |-> "trade", amount |-> 2, perTransaction |-> 4,
   perDay |-> 3, permitted |-> TRUE, tier |-> NoTier, resolves |-> TRUE,
   onViolation |-> "log", shared |-> TRUE]

BuyAlone == [Buy EXCEPT !.onViolation = "silent", !.shared = FALSE]

Look == [Buy EXCEPT !.action = "read", !.amount = NoAmount, !.resolves = FALSE,
                    !.onViolation = "raise", !.shared = FALSE]

SomeFunctions == {Buy, BuyAlone, Look}

Attested(at, backing) ==
  [issuer |-> i1, attested |-> at, yield |-> 50, backing |-> backing, liability |-> 200]

(* One stale at 1 and short of its backing by what rounding hides, one of  *)
(* the future at 0, one short of its backing by 6 in 100.                  *)
SomeClaims == {Attested(0, 199), Attested(1, 200), Attested(0, 188)}

SomeObservations == {[day |-> 0, yield |-> y] : y \in {0, 51}}

SomeCalls ==
  {Signed(r, f, at, c, o, t) : r \in Requests, f \in SomeFunctions,
     at \in 0..MaxClock, t \in 0..MaxClock,
     c \in SomeClaims \cup {NoClaim}, o \in SomeObservations \cup {NoObservation}}

CallSymmetry == Permutations(Requests)
=============================================================================
