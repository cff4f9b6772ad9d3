--------------------------- MODULE MCVerifyIntent ---------------------------
(***************************************************************************)
(* The calls TLC lets concurrent requests make.  Every call is a variation *)
(* of Base, chosen so that each step of the pipeline has a call it alone   *)
(* stops and so that calls compete: for a nonce, for an agent's limit, for *)
(* the standing of an agent and of an issuer.                              *)
(***************************************************************************)
EXTENDS VerifyIntent, TLC

CONSTANTS a1, i1, n1, n2, n3, h1, h2

Base ==
  [agent |-> a1, nonce |-> n1, amount |-> 2, perDay |-> 3, tier |-> 1,
   issued |-> 0, expires |-> 2, issuer |-> i1, depth |-> 0,
   build |-> NoHash, prompt |-> NoHash, flaws |-> {}]

Second == [Base EXCEPT !.nonce = n2]

(* Two calls that compete for the limit, the second refused after it has   *)
(* reserved; a forged one; and one without an amount that violates.        *)
LedgerCalls ==
  {Base,
   [Second EXCEPT !.flaws = {"attestation", "delegation"}, !.tier = 2],
   [Base EXCEPT !.flaws = {"signature"}],
   [Second EXCEPT !.flaws = {"boundaries"}, !.amount = NoAmount]}

(* One call for every tier, and one whose nonce is malformed.              *)
KillSwitchCalls ==
  {[Base EXCEPT !.tier = 0, !.issuer = NoIssuer, !.amount = 1],
   [Second EXCEPT !.tier = 2, !.amount = NoAmount, !.build = h1],
   [Second EXCEPT !.flaws = {"nonce_format"}, !.build = h2]}

(* An envelope that lives as long as an envelope may.                      *)
Quick == [Base EXCEPT !.tier = 0, !.issuer = NoIssuer]

LongestCalls == {[Quick EXCEPT !.expires = MaxSpan]}

(* Two calls that do not fit one limit, and one that only prunes.          *)
RollingCalls == {Quick, [Quick EXCEPT !.nonce = n2], [Quick EXCEPT !.nonce = n3, !.amount = NoAmount]}

RequestSymmetry == Permutations(Requests)
=============================================================================
