----------------------------- MODULE Boundaries -----------------------------
(***************************************************************************)
(* custos_protocol/boundaries.py: the predicates of step 6 that decide     *)
(* whether declared boundaries permit a request.  The codes of the broken  *)
(* predicates accumulate into one refusal, so only whether there is one    *)
(* matters.  Empty lists restrict nothing and a limit of 0 is no limit.    *)
(*                                                                         *)
(* Lists are sets.  geo_restriction is the set of its comma-separated      *)
(* parts, stripped and in capitals: a part of spaces only is Blank, and    *)
(* the empty set stands for None and for "".                               *)
(***************************************************************************)
EXTENDS Naturals

CONSTANTS
  Actions, Classes,  \* actions; asset classes of claims
  Places, Blank,     \* places; a geo_restriction part without a name
  None               \* an absent amount, location, claim, window or expiry

ASSUME BoundaryAssumption ==
  /\ None \notin Nat \cup Places \cup Classes
  /\ None \notin [start : Nat, end : Nat]
  /\ Blank \notin Places

Windows == [start : Nat, end : Nat] \cup {None}

Boundary ==
  [allowed : SUBSET Actions, denied : SUBSET Actions,
   perTransaction : Nat, perDay : Nat,
   geo : SUBSET (Places \cup {Blank}),
   classes : SUBSET Classes, window : Windows]

(* What a request brings to the predicates: `spent` is the day_total its   *)
(* caller looked up.  A location of spaces only is outside the model.      *)
Request ==
  [action : Actions, amount : Nat \cup {None}, spent : Nat,
   geo : Places \cup {None}, class : Classes \cup {None}]

-----------------------------------------------------------------------------
PermitsAction(b, action) ==
  action \notin b.denied /\ (b.allowed = {} \/ action \in b.allowed)

WithinTransaction(b, amount) ==
  amount = None \/ b.perTransaction = 0 \/ amount <= b.perTransaction

WithinDay(b, spent, amount) ==
  amount = None \/ b.perDay = 0 \/ spent + amount <= b.perDay

InWindow(b, now) ==
  b.window = None \/ (b.window.start <= now /\ now <= b.window.end)

PermitsPlace(b, geo) == b.geo = {} \/ geo = None \/ geo \in b.geo

PermitsClass(b, class) == b.classes = {} \/ class = None \/ class \in b.classes

(* check_boundaries returns the empty list.                                *)
Permits(b, q, now) ==
  /\ PermitsAction(b, q.action)
  /\ WithinTransaction(b, q.amount)
  /\ WithinDay(b, q.spent, q.amount)
  /\ InWindow(b, now)
  /\ PermitsPlace(b, q.geo)
  /\ PermitsClass(b, q.class)
=============================================================================
