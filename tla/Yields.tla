------------------------------- MODULE Yields -------------------------------
(***************************************************************************)
(* What the oracle and those who ask it talk about.  A published yield is  *)
(* known by its business day, numbered in order; 0 is none.                *)
(***************************************************************************)
EXTENDS Integers

CONSTANTS
  TTL,          \* cache_ttl_seconds
  LastDay       \* bound on the business days that close

Nothing == [day |-> 0, fetched |-> 0]
Observation == [day : Nat, fetched : Nat]
=============================================================================
