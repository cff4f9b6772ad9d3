------------------------------ MODULE MCLender ------------------------------
(***************************************************************************)
(* The clients and administrators of MCGateway, and a lender.              *)
(***************************************************************************)
EXTENDS Lender, MCGateway

(* What steers the rest: neither the history of an agent, nor what was      *)
(* barred meanwhile, nor an upstream that is not there decides anything.    *)
Steers ==
  <<clock, records, nonces, ledger, pc, call, now, reserved, verdict,
    handlerVars, downstreamVars, registryVars, boundVars, lenderVars, clear>>
=============================================================================
